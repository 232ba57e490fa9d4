------------------------- MODULE FramedReceiveProofs -------------------------
(***************************************************************************)
(* Theorems about FramedReceive, for every server that conforms, every     *)
(* split of what it sends, and octets of any radix and width: what the     *)
(* client is given while no recv splits a frame is what the server has     *)
(* sent, and of what it parses otherwise the types.  They rest on the      *)
(* octets on their way being those of frames, one behind the other, and    *)
(* on a frame being read back as the message it was written from.          *)
(***************************************************************************)
EXTENDS FramedReceive, MessageReaderProofs, FiniteSetTheorems

-----------------------------------------------------------------------------
(* Sums of the first sizes of a row                                         *)

\* Each total is the one before it and one size more.
LEMMA PrefixTotals ==
  ASSUME NEW n \in Nat, NEW size, \A j \in 1 .. n : size[j] \in Nat
  PROVE  /\ Total(Upto(size, 0)) = 0
         /\ \A i \in 0 .. n : Total(Upto(size, i)) \in Nat
         /\ \A i \in 1 .. n : Total(Upto(size, i)) = Total(Upto(size, i - 1)) + size[i]
  <1>1. ASSUME NEW i \in 0 .. n
        PROVE  /\ Upto(size, i) \in Seq(Nat) /\ Len(Upto(size, i)) = i
               /\ \A j \in 1 .. i : Upto(size, i)[j] = size[j]
    BY DEF Upto
  <1>2. ASSUME NEW i \in 0 .. n PROVE Total(Upto(size, i)) \in Nat
    BY <1>1, TotalSteps
  <1>3. Total(Upto(size, 0)) = 0
    <2>1. 0 \in 0 .. n
      OBVIOUS
    <2>2. Upto(size, 0) = <<>>
      BY <1>1, <2>1
    <2> QED BY <2>2, TotalSteps
  <1>4. ASSUME NEW i \in 1 .. n
        PROVE  Total(Upto(size, i)) = Total(Upto(size, i - 1)) + size[i]
    <2> PICK s : s = Upto(size, i)
      OBVIOUS
    <2> PICK t : t = Upto(size, i - 1)
      OBVIOUS
    <2> PICK m : m = i - 1
      OBVIOUS
    <2>1. i \in 0 .. n /\ m \in 0 .. n /\ m \in Nat /\ i = m + 1
      OBVIOUS
    <2>2. /\ s \in Seq(Nat) /\ Len(s) = i /\ \A j \in 1 .. i : s[j] = size[j]
          /\ t \in Seq(Nat) /\ Len(t) = m /\ \A j \in 1 .. m : t[j] = size[j]
      BY <1>1, <2>1
    <2> PICK a : IsSum(s, a) /\ Total(s) = a[Len(s)]
      BY <2>2, TotalIsSum
    <2> PICK b : IsSum(t, b) /\ Total(t) = b[Len(t)]
      BY <2>2, TotalIsSum
    <2>3. /\ a[0] = 0 /\ \A k \in 1 .. i : a[k] = a[k - 1] + s[k]
          /\ b[0] = 0 /\ \A k \in 1 .. m : b[k] = b[k - 1] + t[k]
      BY <2>2 DEF IsSum
    <2> DEFINE S == {k \in 0 .. m : a[k] = b[k]}
    <2>4. 0 \in S
      BY <2>1, <2>3
    <2>5. \A k \in 0 .. m - 1 : k \in S => k + 1 \in S
      <3> SUFFICES ASSUME NEW k \in 0 .. m - 1, a[k] = b[k]
                   PROVE  a[k + 1] = b[k + 1] /\ k + 1 \in 0 .. m
        OBVIOUS
      <3>1. k + 1 \in 1 .. m /\ k + 1 \in 1 .. i /\ (k + 1) - 1 = k /\ k + 1 \in 0 .. m
        BY <2>1
      <3>2. a[k + 1] = a[k] + s[k + 1] /\ b[k + 1] = b[k] + t[k + 1]
        BY <2>3, <3>1
      <3>3. s[k + 1] = size[k + 1] /\ t[k + 1] = size[k + 1]
        BY <2>2, <3>1
      <3> QED BY <3>1, <3>2, <3>3
    <2>6. a[m] = b[m]
      <3>1. 0 .. m \subseteq S
        <4> HIDE DEF S
        <4> QED BY <2>1, <2>4, <2>5, UpTo
      <3> QED BY <2>1, <3>1
    <2>7. a[i] = a[m] + s[i] /\ s[i] = size[i]
      BY <2>1, <2>2, <2>3
    <2>8. Total(s) = a[i] /\ Total(t) = b[m]
      BY <2>2
    <2> QED BY <2>6, <2>7, <2>8
  <1> QED BY <1>2, <1>3, <1>4

-----------------------------------------------------------------------------
(* The parts of frames on their way                                         *)

Parts == {p \in [msg : ServerMessages, from : Nat, to : Nat] :
            p.from < p.to /\ p.to <= Len(Frames[p.msg])}

\* The octets of a part.
Part(p) == SubSeq(Frames[p.msg], p.from + 1, p.to)

\* A frame is octets.
LEMMA FramesAre ==
  \A m \in ServerMessages : /\ Frames[m] = Frame(m)
                            /\ Frames[m] \in Seq(Octets) /\ Len(Frames[m]) \in Nat
                            /\ Len(Frames[m]) < Limit("u32") /\ Len(Frames[m]) <= Allocatable
  <1> SUFFICES ASSUME NEW m \in ServerMessages
               PROVE  /\ Frames[m] = Frame(m)
                      /\ Frames[m] \in Seq(Octets) /\ Len(Frames[m]) \in Nat
                      /\ Len(Frames[m]) < Limit("u32") /\ Len(Frames[m]) <= Allocatable
    OBVIOUS
  <1>1. Frames[m] = Frame(m)
    BY Zenon DEF Frames
  <1>2. /\ Frame(m) \in Seq(Octets) /\ Len(Frame(m)) < Limit("u32")
        /\ Len(Frame(m)) <= Allocatable
    BY ServerAssumption, Zenon DEF SizeHolds
  <1> QED BY <1>1, <1>2, LenProperties

\* A part is some octets of its frame.
LEMMA PartIs ==
  ASSUME NEW p \in Parts
  PROVE  /\ p.msg \in ServerMessages /\ p.from \in Nat /\ p.to \in Nat
         /\ Size(p) \in Nat \ {0}
         /\ p.from < p.to /\ p.to <= Len(Frames[p.msg])
         /\ Part(p) \in Seq(Octets) /\ Len(Part(p)) = Size(p)
         /\ \A j \in 1 .. Size(p) : Part(p)[j] = Frames[p.msg][p.from + j]
  <1> PICK frame : frame = Frames[p.msg]
    OBVIOUS
  <1> PICK a : a = p.from
    OBVIOUS
  <1> PICK b : b = p.to
    OBVIOUS
  <1>1. p.msg \in ServerMessages /\ a \in Nat /\ b \in Nat /\ a < b /\ b <= Len(frame)
    BY DEF Parts
  <1>2. frame \in Seq(Octets) /\ Len(frame) \in Nat
    BY <1>1, FramesAre
  <1>3. a + 1 \in Int /\ b \in Int /\ \A i \in a + 1 .. b : frame[i] \in Octets
    <2>1. \A i \in a + 1 .. b : i \in 1 .. Len(frame)
      BY <1>1, <1>2
    <2> QED BY <1>1, <1>2, <2>1, ElementOfSeq
  <1> PICK s : s = SubSeq(frame, a + 1, b)
    OBVIOUS
  <1>4. /\ s \in Seq(Octets) /\ Len(s) = IF a + 1 <= b THEN b - (a + 1) + 1 ELSE 0
        /\ \A i \in 1 .. b - (a + 1) + 1 : s[i] = frame[a + 1 + i - 1]
    BY <1>3, SubSeqProperties
  <1>5. a + 1 <= b /\ b - (a + 1) + 1 = b - a /\ b - a \in Nat \ {0}
    BY <1>1
  <1>6. \A i \in 1 .. b - a : s[i] = frame[a + i]
    <2>1. \A i \in 1 .. b - a : a + 1 + i - 1 = a + i
      BY <1>1
    <2> QED BY <1>4, <1>5, <2>1
  <1>7. s = Part(p) /\ Size(p) = b - a
    BY DEF Part, Size
  <1> QED BY <1>1, <1>4, <1>5, <1>6, <1>7

\* Each message stands behind what is before it.
LEMMA BeforeSteps ==
  ASSUME queue \in Seq(Parts)
  PROVE  /\ Len(queue) \in Nat /\ \A i \in 1 .. Len(queue) : queue[i] \in Parts
         /\ Before(0) = 0
         /\ \A i \in 0 .. Len(queue) : Before(i) \in Nat
         /\ \A i \in 1 .. Len(queue) :
              Before(i) = Before(i - 1) + Size(queue[i]) /\ Size(queue[i]) \in Nat \ {0}
  <1> DEFINE n == Len(queue)
             size == [j \in 1 .. n |-> Size(queue[j])]
  <1>1. n \in Nat /\ \A i \in 1 .. n : queue[i] \in Parts
    BY LenProperties, ElementOfSeq
  <1>2. \A i \in 1 .. n : Size(queue[i]) \in Nat \ {0}
    BY <1>1, PartIs
  <1>3. ASSUME NEW i \in 0 .. n PROVE Before(i) = Total(Upto(size, i))
    <2> PICK s : s = [j \in 1 .. i |-> Size(queue[j])]
      OBVIOUS
    <2> PICK t : t = Upto(size, i)
      OBVIOUS
    <2>1. \A j \in 1 .. i : j \in 1 .. n
      BY <1>1
    <2>2. s = t
      BY <2>1 DEF Upto
    <2>3. Before(i) = FoldLeft(+, 0, s)
      BY Zenon DEF Before
    <2>4. Total(t) = FoldLeft(+, 0, t)
      BY Zenon DEF Total
    <2> QED BY <2>2, <2>3, <2>4
  <1>4. \A j \in 1 .. n : size[j] \in Nat /\ size[j] = Size(queue[j])
    BY <1>2
  <1> HIDE DEF size, n
  <1>5. /\ Total(Upto(size, 0)) = 0
        /\ \A i \in 0 .. n : Total(Upto(size, i)) \in Nat
        /\ \A i \in 1 .. n : Total(Upto(size, i)) = Total(Upto(size, i - 1)) + size[i]
    BY <1>1, <1>4, PrefixTotals
  <1>6. Before(0) = 0 /\ \A i \in 0 .. n : Before(i) \in Nat
    <2>1. 0 \in 0 .. n
      BY <1>1
    <2> QED BY <1>3, <1>5, <2>1
  <1>7. ASSUME NEW i \in 1 .. n PROVE Before(i) = Before(i - 1) + Size(queue[i])
    <2>1. i \in 0 .. n /\ i - 1 \in 0 .. n
      BY <1>1
    <2>2. /\ Before(i) = Total(Upto(size, i)) /\ Before(i - 1) = Total(Upto(size, i - 1))
          /\ size[i] = Size(queue[i])
      BY <1>3, <1>4, <2>1
    <2> QED BY <1>5, <2>2
  <1> QED BY <1>1, <1>2, <1>6, <1>7 DEF n

\* Places further back in the queue have more before them.
LEMMA BeforeGrows ==
  ASSUME queue \in Seq(Parts), NEW i \in 0 .. Len(queue), NEW j \in 0 .. Len(queue), i < j
  PROVE  Before(i) < Before(j)
  <1> PICK n : n = Len(queue)
    OBVIOUS
  <1>1. /\ n \in Nat /\ \A l \in 0 .. n : Before(l) \in Nat
        /\ \A l \in 1 .. n : Before(l) = Before(l - 1) + Size(queue[l])
                             /\ Size(queue[l]) \in Nat \ {0}
    BY BeforeSteps
  <1>2. i \in 0 .. n /\ j \in 0 .. n /\ i \in Nat /\ j \in Nat
    BY <1>1
  <1> DEFINE S == {l \in 0 .. n - i : l = 0 \/ Before(i) < Before(i + l)}
  <1>3. 0 \in S
    BY <1>1, <1>2
  <1>4. ASSUME NEW l \in 0 .. (n - i) - 1, l \in S PROVE l + 1 \in S
    <2>1. /\ l + 1 \in 0 .. n - i /\ i + (l + 1) \in 1 .. n /\ (i + (l + 1)) - 1 = i + l
          /\ i + l \in 0 .. n /\ i + (l + 1) \in 0 .. n
      BY <1>1, <1>2
    <2>2. /\ Before(i + (l + 1)) = Before(i + l) + Size(queue[i + (l + 1)])
          /\ Size(queue[i + (l + 1)]) \in Nat \ {0} /\ Before(i + l) \in Nat /\ Before(i) \in Nat
      BY <1>1, <1>2, <2>1
    <2>3. Before(i) < Before(i + (l + 1))
      <3>1. l = 0 => i + l = i
        BY <1>2
      <3>2. l = 0 \/ Before(i) < Before(i + l)
        BY <1>4
      <3> QED BY <2>2, <3>1, <3>2
    <2> QED BY <2>1, <2>3
  <1>5. j - i \in S
    <2>1. n - i \in Nat /\ j - i \in 0 .. n - i
      BY <1>1, <1>2
    <2>2. 0 .. n - i \subseteq S
      <3> HIDE DEF S
      <3> QED BY <2>1, <1>3, <1>4, UpTo
    <2> QED BY <2>1, <2>2
  <1>6. i + (j - i) = j /\ j - i # 0
    BY <1>2
  <1> QED BY <1>5, <1>6

\* So the number of messages within k octets is known by where the next ends.
LEMMA WholeUnique ==
  ASSUME queue \in Seq(Parts), NEW k \in Nat, NEW i \in 0 .. Len(queue),
         Before(i) <= k, i < Len(queue) => k < Before(i + 1)
  PROVE  Whole(k) = i
  <1> PICK n : n = Len(queue)
    OBVIOUS
  <1>1. n \in Nat /\ \A l \in 0 .. n : Before(l) \in Nat
    BY BeforeSteps
  <1>2. DOMAIN queue = 1 .. n
    BY LenProperties
  <1>3. i \in Nat /\ i \in 0 .. n
    BY <1>1
  <1> PICK W : W = {l \in DOMAIN queue : Before(l) <= k}
    OBVIOUS
  <1>4. ASSUME NEW l \in 1 .. n PROVE Before(l) <= k <=> l <= i
    <2>1. l \in 0 .. n /\ Before(l) \in Nat /\ Before(i) \in Nat
      BY <1>1, <1>3
    <2>2. CASE l <= i
      <3>1. Before(l) <= Before(i)
        <4>1. l = i \/ l < i
          BY <1>3, <2>1, <2>2
        <4> QED BY <2>1, <1>3, <4>1, BeforeGrows
      <3> QED BY <2>1, <2>2, <3>1
    <2>3. CASE ~(l <= i)
      <3>1. i < n /\ i + 1 \in 0 .. n /\ (l = i + 1 \/ i + 1 < l)
        BY <1>3, <1>1, <2>1, <2>3
      <3>2. k < Before(i + 1) /\ Before(i + 1) \in Nat
        BY <1>1, <3>1
      <3>3. Before(i + 1) <= Before(l)
        BY <2>1, <3>1, <3>2, BeforeGrows
      <3> QED BY <2>1, <2>3, <3>2, <3>3
    <2> QED BY <2>2, <2>3
  <1>5. W = 1 .. i
    <2>1. \A l \in 1 .. i : l \in 1 .. n /\ l <= i
      BY <1>1, <1>3
    <2>2. \A l \in 1 .. n : l <= i => l \in 1 .. i
      BY <1>1, <1>3
    <2> QED BY <1>2, <1>4, <2>1, <2>2
  <1>6. Cardinality(1 .. i) = i
    <2>1. Cardinality(1 .. i) = IF 1 > i THEN 0 ELSE i - 1 + 1
      BY <1>3, FS_Interval
    <2> QED BY <1>3, <2>1
  <1> QED BY <1>5, <1>6 DEF Whole

\* There is such a place.
LEMMA WholeIs ==
  ASSUME queue \in Seq(Parts), NEW k \in 0 .. Remaining
  PROVE  /\ Whole(k) \in 0 .. Len(queue)
         /\ Before(Whole(k)) <= k
         /\ Whole(k) < Len(queue) => k < Before(Whole(k) + 1)
         /\ Whole(k) = Len(queue) => k = Remaining
  <1> PICK n : n = Len(queue)
    OBVIOUS
  <1>1. /\ n \in Nat /\ Before(0) = 0 /\ \A l \in 0 .. n : Before(l) \in Nat
        /\ Remaining = Before(n)
    BY BeforeSteps DEF Remaining
  <1>2. k \in Nat /\ k <= Remaining
    BY <1>1
  <1> DEFINE S == {l \in 0 .. n : Before(l) <= k}
  <1>3. PICK i \in 0 .. n : Before(i) <= k /\ (i < n => k < Before(i + 1))
    <2> SUFFICES ASSUME \A i \in 0 .. n : ~(Before(i) <= k /\ (i < n => k < Before(i + 1)))
                 PROVE  FALSE
      OBVIOUS
    <2>1. 0 \in S
      BY <1>1, <1>2
    <2>2. \A l \in 0 .. n - 1 : l \in S => l + 1 \in S
      <3> SUFFICES ASSUME NEW l \in 0 .. n - 1, Before(l) <= k
                   PROVE  l + 1 \in 0 .. n /\ Before(l + 1) <= k
        OBVIOUS
      <3>1. l \in 0 .. n /\ l < n /\ l + 1 \in 0 .. n
        BY <1>1
      <3>2. ~(k < Before(l + 1)) /\ Before(l + 1) \in Nat
        BY <1>1, <3>1
      <3> QED BY <1>2, <3>1, <3>2
    <2>3. n \in S
      <3>1. 0 .. n \subseteq S
        <4> HIDE DEF S
        <4> QED BY <1>1, <2>1, <2>2, UpTo
      <3> QED BY <1>1, <3>1
    <2>4. n \in 0 .. n /\ ~(n < n)
      BY <1>1
    <2> QED BY <2>3, <2>4
  <1>4. Whole(k) = i
    BY <1>2, <1>3, WholeUnique
  <1>5. i = n => k = Remaining
    BY <1>1, <1>2, <1>3
  <1> QED BY <1>3, <1>4, <1>5

\* The octets on their way: each message's, behind what is before it.
LEMMA WireIs ==
  ASSUME queue \in Seq(Parts)
  PROVE  /\ Wire \in Seq(Octets) /\ Len(Wire) = Remaining /\ Remaining \in Nat
         /\ \A i \in 1 .. Len(queue) : StandsAt(Wire, Before(i - 1), Part(queue[i]))
  <1> DEFINE n == Len(queue)
             seqs == [i \in DOMAIN queue |-> Part(queue[i])]
  <1>1. /\ n \in Nat /\ Before(0) = 0 /\ \A l \in 0 .. n : Before(l) \in Nat
        /\ Remaining = Before(n) /\ \A i \in 1 .. n : queue[i] \in Parts
        /\ \A i \in 1 .. n : Before(i) = Before(i - 1) + Size(queue[i])
    BY BeforeSteps DEF Remaining
  <1>2. DOMAIN queue = 1 .. n
    BY LenProperties
  <1>3. \A i \in 1 .. n : Part(queue[i]) \in Seq(Octets) /\ Len(Part(queue[i])) = Size(queue[i])
    BY <1>1, PartIs
  <1> PICK wire : wire = Wire
    OBVIOUS
  <1>4. wire = FlattenSeq(seqs)
    BY Zenon DEF Wire, Part
  <1>5. seqs \in Seq(Seq(Octets)) /\ Len(seqs) = n /\ \A i \in 1 .. n : seqs[i] = Part(queue[i])
    BY <1>1, <1>2, <1>3
  <1> HIDE DEF seqs, n
  <1>6. wire \in Seq(Octets) /\ \E pos : JoinedAt(wire, seqs, pos)
    BY <1>4, <1>5, FlattenPlaces
  <1> PICK pos : JoinedAt(wire, seqs, pos)
    BY <1>6
  <1>7. /\ pos[0] = 0 /\ pos[n] = Len(wire)
        /\ \A k \in 1 .. n : pos[k] = pos[k - 1] + Len(seqs[k])
        /\ \A k \in 1 .. n : StandsAt(wire, pos[k - 1], seqs[k])
    BY <1>5 DEF JoinedAt
  <1> DEFINE S == {k \in 0 .. n : pos[k] = Before(k)}
  <1>8. 0 \in S
    BY <1>1, <1>7
  <1>9. \A k \in 0 .. n - 1 : k \in S => k + 1 \in S
    <2> SUFFICES ASSUME NEW k \in 0 .. n - 1, pos[k] = Before(k)
                 PROVE  k + 1 \in 0 .. n /\ pos[k + 1] = Before(k + 1)
      OBVIOUS
    <2>1. k + 1 \in 1 .. n /\ k + 1 \in 0 .. n /\ (k + 1) - 1 = k
      BY <1>1
    <2>2. Len(seqs[k + 1]) = Size(queue[k + 1])
      BY <1>3, <1>5, <2>1
    <2> QED BY <1>1, <1>7, <2>1, <2>2
  <1>10. \A k \in 0 .. n : pos[k] = Before(k)
    <2>1. 0 .. n \subseteq S
      <3> HIDE DEF S
      <3> QED BY <1>1, <1>8, <1>9, UpTo
    <2> QED BY <2>1
  <1>11. Len(wire) = Remaining /\ Remaining \in Nat
    <2>1. n \in 0 .. n
      BY <1>1
    <2> QED BY <1>1, <1>7, <1>10, <2>1
  <1>12. ASSUME NEW i \in 1 .. n PROVE StandsAt(wire, Before(i - 1), Part(queue[i]))
    <2>1. i - 1 \in 0 .. n
      BY <1>1
    <2>2. pos[i - 1] = Before(i - 1) /\ seqs[i] = Part(queue[i])
      BY <1>5, <1>10, <2>1
    <2>3. StandsAt(wire, pos[i - 1], seqs[i])
      BY <1>7
    <2> QED BY <2>2, <2>3
  <1> QED BY <1>6, <1>11, <1>12 DEF n

-----------------------------------------------------------------------------
(* What is written is read                                                  *)

\* What stands in a row stands where the row does.
LEMMA StandsWithin ==
  ASSUME NEW octets, NEW p \in Nat, NEW s, NEW q \in Nat, NEW t, NEW at,
         Len(octets) \in Nat, Len(s) \in Nat, Len(t) \in Nat,
         StandsAt(octets, p, s), StandsAt(s, q, t), at = p + q
  PROVE  StandsAt(octets, at, t)
  <1>1. /\ p + Len(s) <= Len(octets) /\ \A j \in 1 .. Len(s) : octets[p + j] = s[j]
        /\ q + Len(t) <= Len(s) /\ \A j \in 1 .. Len(t) : s[q + j] = t[j]
    BY DEF StandsAt
  <1>2. ASSUME NEW j \in 1 .. Len(t) PROVE octets[at + j] = t[j]
    <2>1. q + j \in 1 .. Len(s) /\ p + (q + j) = at + j
      BY <1>1
    <2> QED BY <1>1, <2>1
  <1> QED BY <1>1, <1>2 DEF StandsAt

\* The same, with its place as a sum.
LEMMA StandsDeeper ==
  ASSUME NEW octets, NEW s, NEW t, Len(octets) \in Nat, Len(s) \in Nat, Len(t) \in Nat,
         NEW p \in Nat, StandsAt(octets, p, s), NEW q \in Nat, StandsAt(s, q, t)
  PROVE  StandsAt(octets, p + q, t)
  BY StandsWithin

\* The octets of a field stand for its value.
LEMMA FieldStands ==
  ASSUME NEW kind \in Kinds \cup {"string"}, NEW x, Holds(kind, x)
  PROVE  /\ EncodeField(kind, x) \in Seq(Octets)
         /\ \A octets : \A p \in Nat : StandsAt(octets, p, EncodeField(kind, x)) =>
                             FieldAt(octets, p, kind, x, p + Len(EncodeField(kind, x)))
  <1>1. CASE kind = "string"
    <2> PICK w : w = Width["u16"]
      OBVIOUS
    <2> PICK size : size = LittleEndian(Len(x), w)
      OBVIOUS
    <2>1. x \in Seq(Octets) /\ Len(x) < Limit("u16") /\ Len(x) \in Nat
      BY <1>1 DEF Holds
    <2>2. w \in Nat
      BY KindsAre, LimitPositive
    <2>3. size \in Seq(Octets) /\ Len(size) = w
      BY <2>1, <2>2, LittleEndianType
    <2>4. EncodeField(kind, x) = size \o x
      BY <1>1 DEF EncodeField
    <2>5. size \o x \in Seq(Octets) /\ Len(size \o x) = w + Len(x)
      BY <2>1, <2>3, ConcatProperties
    <2>6. ASSUME NEW octets, NEW p \in Nat, StandsAt(octets, p, size \o x)
          PROVE  FieldAt(octets, p, kind, x, p + (w + Len(x)))
      <3> PICK q : q = p + (w + Len(x))
        OBVIOUS
      <3>1. q = p + w + Len(x)
        BY <2>1, <2>2
      <3> QED BY <1>1, <2>1, <2>6, <3>1 DEF FieldAt
    <2> QED BY <2>4, <2>5, <2>6
  <1>2. CASE kind # "string"
    <2>1. kind \in Kinds /\ x \in 0 .. Limit(kind) - 1
      BY <1>2 DEF Holds
    <2>2. Width[kind] \in Nat /\ x \in Nat
      BY <2>1, LimitPositive
    <2>3. EncodeField(kind, x) = LittleEndian(x, Width[kind])
      BY <1>2 DEF EncodeField
    <2>4. EncodeField(kind, x) \in Seq(Octets) /\ Len(EncodeField(kind, x)) = Width[kind]
      BY <2>2, <2>3, LittleEndianType
    <2> QED BY <2>1, <2>3, <2>4 DEF FieldAt
  <1> QED BY <1>1, <1>2

\* The octets of a row of fields stand for its values.
LEMMA EncodeIs ==
  ASSUME NEW kinds \in Seq(Kinds \cup {"string"}), NEW values, Hold(kinds, values)
  PROVE  /\ Encode(kinds, values) \in Seq(Octets)
         /\ \E pos : /\ pos[0] = 0 /\ pos[Len(kinds)] = Len(Encode(kinds, values))
                     /\ pos \in [0 .. Len(kinds) -> Nat]
                     /\ \A k \in 1 .. Len(kinds) :
                          /\ pos[k] = pos[k - 1] + Len(EncodeField(kinds[k], values[k]))
                          /\ StandsAt(Encode(kinds, values), pos[k - 1],
                                      EncodeField(kinds[k], values[k]))
  <1> DEFINE n == Len(kinds)
             seqs == [i \in DOMAIN kinds |-> EncodeField(kinds[i], values[i])]
  <1>1. n \in Nat /\ DOMAIN kinds = 1 .. n /\ \A i \in 1 .. n : kinds[i] \in Kinds \cup {"string"}
    BY LenProperties, ElementOfSeq
  <1>2. \A i \in 1 .. n : Holds(kinds[i], values[i])
    BY <1>1 DEF Hold
  <1>3. \A i \in 1 .. n : EncodeField(kinds[i], values[i]) \in Seq(Octets)
    BY <1>1, <1>2, FieldStands
  <1>4. /\ seqs \in Seq(Seq(Octets)) /\ Len(seqs) = n
        /\ \A i \in 1 .. n : seqs[i] = EncodeField(kinds[i], values[i])
    BY <1>1, <1>3
  <1> PICK flat : flat = Encode(kinds, values)
    OBVIOUS
  <1>5. flat = FlattenSeq(seqs)
    BY Zenon DEF Encode
  <1> HIDE DEF seqs, n
  <1>6. flat \in Seq(Octets) /\ \E pos : JoinedAt(flat, seqs, pos)
    BY <1>4, <1>5, FlattenPlaces
  <1> PICK pos : JoinedAt(flat, seqs, pos)
    BY <1>6
  <1>7. /\ pos \in [0 .. n -> Nat] /\ pos[0] = 0 /\ pos[n] = Len(flat)
        /\ \A k \in 1 .. n : /\ pos[k] = pos[k - 1] + Len(seqs[k])
                             /\ StandsAt(flat, pos[k - 1], seqs[k])
    BY <1>4 DEF JoinedAt
  <1>8. \A k \in 1 .. n : /\ pos[k] = pos[k - 1] + Len(EncodeField(kinds[k], values[k]))
                          /\ StandsAt(flat, pos[k - 1], EncodeField(kinds[k], values[k]))
    BY <1>4, <1>7
  <1> QED BY <1>6, <1>7, <1>8 DEF n

\* The place that has been read to.
LEMMA ReadPlace ==
  ASSUME NEW octets \in Seq(Octets), NEW p, NEW vs, NEW v, ReadTo(v, octets, p, vs)
  PROVE  p \in Nat /\ p \in 0 .. Len(octets) /\ Len(octets) \in Nat
  <1>1. p \in 0 .. Len(octets)
    BY Zenon DEF ReadTo
  <1>2. Len(octets) \in Nat
    OBVIOUS
  <1> QED BY <1>1, <1>2

\* The sum of two natural numbers is one.
LEMMA SumNat == \A a, b \in Nat : a + b \in Nat
  OBVIOUS

\* A sum of three, grouped either way.
SameSum(a, b, c) == (a + b) + c = a + (b + c)

\* Natural numbers can be grouped so.
LEMMA SumsRegroup == \A a, b, c \in Nat : SameSum(a, b, c)
  BY DEF SameSum

\* Fields are read as they were written (writeField, parseInteger, parseString).
LEMMA ReadEncoded ==
  ASSUME NEW kinds \in Seq(Kinds \cup {"string"}), NEW values, Hold(kinds, values),
         NEW octets \in Seq(Octets), NEW p, NEW vs, NEW v, ReadTo(v, octets, p, vs),
         StandsAt(octets, p, Encode(kinds, values)),
         NEW q, q = p + Len(Encode(kinds, values))
  PROVE  ReadTo(ParseFields(v, kinds), octets, q, vs \o Until(values, Len(kinds)))
  <1> DEFINE n == Len(kinds)
  <1>1. n \in Nat /\ DOMAIN kinds = 1 .. n /\ \A i \in 1 .. n : kinds[i] \in Kinds \cup {"string"}
    BY LenProperties, ElementOfSeq
  <1>2. \A i \in 1 .. n : Holds(kinds[i], values[i])
    BY <1>1 DEF Hold
  <1> PICK flat : flat = Encode(kinds, values)
    OBVIOUS
  <1> HIDE DEF n
  <1> PICK pos : /\ pos[0] = 0 /\ pos[n] = Len(flat) /\ pos \in [0 .. n -> Nat]
                 /\ \A k \in 1 .. n :
                      /\ pos[k] = pos[k - 1] + Len(EncodeField(kinds[k], values[k]))
                      /\ StandsAt(flat, pos[k - 1], EncodeField(kinds[k], values[k]))
    BY EncodeIs, Zenon DEF n
  <1>3. flat \in Seq(Octets) /\ Len(flat) \in Nat /\ Len(octets) \in Nat
    BY EncodeIs
  <1>4. p \in Nat
    BY ReadPlace
  <1> DEFINE at == [k \in 0 .. n |-> p + pos[k]]
  <1>5. at[0] = p /\ at[n] = q
    BY <1>1, <1>4
  <1> HIDE DEF n
  <1>6. ASSUME NEW k \in 1 .. n PROVE FieldAt(octets, at[k - 1], kinds[k], values[k], at[k])
    <2> PICK field : field = EncodeField(kinds[k], values[k])
      OBVIOUS
    <2>1. k - 1 \in 0 .. n /\ k \in 0 .. n
      BY <1>1
    <2>2. pos[k - 1] \in Nat /\ pos[k] = pos[k - 1] + Len(field) /\ StandsAt(flat, pos[k - 1], field)
      BY <2>1
    <2>3. field \in Seq(Octets)
      BY <1>1, <1>2, FieldStands
    <2>4. Len(field) \in Nat
      BY <2>3
    <2>5. at[k - 1] = p + pos[k - 1] /\ at[k] = p + pos[k]
      BY <2>1
    <2>6. at[k] = at[k - 1] + Len(field)
      BY <1>4, <2>2, <2>4, <2>5
    <2>9. p + pos[k - 1] = at[k - 1]
      BY <2>5
    <2> HIDE DEF at
    <2>7. StandsAt(octets, at[k - 1], field)
      <3>1. StandsAt(octets, p, flat)
        BY Zenon
      <3>2. StandsAt(octets, p + pos[k - 1], field)
        <4> HIDE DEF at
        <4>1. pos[k - 1] \in Nat /\ StandsAt(flat, pos[k - 1], field)
          BY Zenon, <2>2
        <4> QED BY Zenon, <1>3, <1>4, <2>4, <3>1, <4>1, StandsDeeper
      <3> QED BY Zenon, <2>5, <3>2
    <2>8. at[k - 1] \in Nat
      BY Zenon, <1>4, <2>2, <2>5, SumNat
    <2> QED BY <1>1, <1>2, <2>6, <2>7, <2>8, FieldStands
  <1> HIDE DEF at
  <1>7. RowAt(octets, at, n, kinds, values)
    BY <1>6 DEF RowAt
  <1> QED BY <1>1, <1>5, <1>7, ReadRow DEF n

\* The values of a row of fields are all there are.
LEMMA UntilAll ==
  ASSUME NEW kinds \in Seq(Kinds \cup {"string"}), NEW values, Hold(kinds, values)
  PROVE  /\ Until(values, Len(kinds)) = values
         /\ values \in Seq(Values) /\ <<>> \o values = values
  <1>1. Len(kinds) \in Nat /\ DOMAIN kinds = 1 .. Len(kinds)
        /\ \A i \in 1 .. Len(kinds) : kinds[i] \in Kinds \cup {"string"}
    BY LenProperties, ElementOfSeq
  <1>2. values = [i \in 1 .. Len(kinds) |-> values[i]]
    BY <1>1, Zenon DEF Hold
  <1>3. \A i \in 1 .. Len(kinds) : values[i] \in Values
    <2> SUFFICES ASSUME NEW i \in 1 .. Len(kinds) PROVE values[i] \in Values
      OBVIOUS
    <2>1. Holds(kinds[i], values[i])
      BY <1>1 DEF Hold
    <2>2. CASE kinds[i] = "string"
      BY <2>1, <2>2 DEF Holds, Values
    <2>3. CASE kinds[i] # "string"
      <3>1. values[i] \in 0 .. Limit(kinds[i]) - 1
        BY <2>1, <2>3 DEF Holds
      <3> QED BY <3>1 DEF Values
    <2> QED BY <2>2, <2>3
  <1>4. values \in Seq(Values)
    BY <1>1, <1>2, <1>3
  <1>5. <<>> \o values = values
    BY <1>4, ConcatEmptySeq
  <1> QED BY <1>2, <1>4, <1>5, Zenon DEF Until

\* The octets behind their size are read.
LEMMA ReadSizedOctets ==
  ASSUME NEW kind \in Kinds, NEW s, SizeHolds(kind, s),
         NEW octets \in Seq(Octets), NEW p, NEW vs, NEW v, ReadTo(v, octets, p, vs),
         StandsAt(octets, p, Sized(kind, s)), NEW q, q = p + Len(Sized(kind, s))
  PROVE  /\ Sized(kind, s) \in Seq(Octets)
         /\ ReadTo(SizedView(v, kind), octets, q, Append(vs, s))
  <1> PICK w : w = Width[kind]
    OBVIOUS
  <1> PICK n : n = Len(s)
    OBVIOUS
  <1> PICK size : size = LittleEndian(n, w)
    OBVIOUS
  <1>1. s \in Seq(Octets) /\ n < Limit(kind) /\ n \in Nat /\ w \in Nat
    BY LimitPositive DEF SizeHolds
  <1>2. size \in Seq(Octets) /\ Len(size) = w
    BY <1>1, LittleEndianType
  <1>3. Sized(kind, s) = size \o s
    BY DEF Sized
  <1>4. size \o s \in Seq(Octets) /\ Len(size \o s) = w + n
    <2>1. size \o s \in Seq(Octets) /\ Len(size \o s) = Len(size) + Len(s)
      BY <1>1, <1>2, ConcatProperties
    <2> QED BY <1>2, <2>1
  <1>5. p \in Nat
    BY ReadPlace
  <1>6. StandsAt(octets, p, size) /\ StandsAt(octets, p + w, s)
    BY <1>1, <1>2, <1>3, <1>5, StandsBehind
  <1>7. q = p + w + n
    BY <1>1, <1>3, <1>4, <1>5
  <1>8. SizedAt(octets, p, kind, s, q)
    BY <1>1, <1>6, <1>7 DEF SizedAt
  <1> QED BY <1>1, <1>3, <1>4, <1>8, ReadSizedTo

\* A stat is read as it was written, whatever its server adds to it
\* (parseRawRStat).
LEMMA ReadStat ==
  ASSUME NEW stat, NEW extra, StatHolds(stat, extra),
         NEW octets \in Seq(Octets), NEW p, NEW vs, NEW v, ReadTo(v, octets, p, vs),
         StandsAt(octets, p, EncodeStat(stat, extra)),
         NEW q, q = p + Len(EncodeStat(stat, extra))
  PROVE  /\ EncodeStat(stat, extra) \in Seq(Octets)
         /\ ReadTo(parseRawRStat(v), octets, q, stat)
  <1> PICK fixed : fixed = Encode(Stat, stat)
    OBVIOUS
  <1> PICK s : s = fixed \o extra
    OBVIOUS
  <1>1. Hold(Stat, stat) /\ extra \in Seq(Octets) /\ SizeHolds("u16", s)
    BY DEF StatHolds
  <1>2. s \in Seq(Octets)
    BY <1>1 DEF SizeHolds
  <1>3. fixed \in Seq(Octets)
    BY <1>1, StatKinds, EncodeIs
  <1>4. EncodeStat(stat, extra) = Sized("u16", s)
    BY DEF EncodeStat
  <1>5. "u16" \in Kinds
    BY KindsAre
  <1> PICK u : u = WithoutValues(v)
    OBVIOUS
  <1>6. ReadTo(u, octets, p, <<>>)
    BY Emptied
  <1> PICK w : w = SizedView(u, "u16")
    OBVIOUS
  <1> PICK ws : ws = Append(<<>>, s)
    OBVIOUS
  <1>7. Sized("u16", s) \in Seq(Octets) /\ ReadTo(w, octets, q, ws)
    BY <1>1, <1>4, <1>5, <1>6, ReadSizedOctets
  <1>8. ws = <<s>>
    BY <1>2
  <1> PICK inner : inner = Inner(w)
    OBVIOUS
  <1>9. ReadTo(inner, s, 0, <<>>)
    BY <1>2, <1>7, <1>8, ReadInner
  <1> PICK fields : fields = ParseFields(inner, Stat)
    OBVIOUS
  <1>10. \E at : ReadTo(fields, s, at, stat)
    <2> PICK at : at = 0 + Len(fixed)
      OBVIOUS
    <2>1. StandsAt(s, 0, fixed)
      <3> PICK a : a = Len(fixed)
        OBVIOUS
      <3> PICK b : b = Len(extra)
        OBVIOUS
      <3>1. Len(s) = a + b /\ a \in Nat /\ b \in Nat /\ \A j \in 1 .. a : s[j] = fixed[j]
        BY <1>1, <1>3, ConcatPlaces
      <3>2. ASSUME NEW j \in 1 .. a PROVE s[0 + j] = fixed[j]
        BY <3>1
      <3> QED BY <3>1, <3>2 DEF StandsAt
    <2>2. ReadTo(fields, s, at, <<>> \o Until(stat, Len(Stat)))
      BY <1>1, <1>2, <1>9, <2>1, StatKinds, ReadEncoded
    <2>3. <<>> \o Until(stat, Len(Stat)) = stat
      BY <1>1, StatKinds, UntilAll
    <2> QED BY <2>2, <2>3
  <1> PICK at : ReadTo(fields, s, at, stat)
    BY <1>10
  <1>11. w.thrown = FALSE /\ w.rest = Rest(octets, q) /\ q \in 0 .. Len(octets)
    BY <1>7, ReadValues, ReadPlace
  <1>12. parseRawRStat(v) = [fields EXCEPT !.rest = w.rest]
    BY <1>11, Zenon DEF parseRawRStat, WithoutValues, Inner
  <1>13. /\ fields \in Views /\ fields.values = stat /\ stat \in Seq(Values)
         /\ fields.thrown = FALSE /\ fields.beyond = FALSE
    <2>1. at \in 0 .. Len(s) /\ stat \in Seq(Values) /\ fields = At(s, at, stat)
      BY Zenon DEF ReadTo
    <2>2. /\ At(s, at, stat) \in Views /\ At(s, at, stat).values = stat
          /\ At(s, at, stat).thrown = FALSE /\ At(s, at, stat).beyond = FALSE
      BY <1>2, <2>1, AtIs
    <2> QED BY <2>1, <2>2, Zenon
  <1> PICK left : left = Rest(octets, q)
    OBVIOUS
  <1>14. left \in Seq(Octets)
    BY <1>11, RestIs
  <1> PICK r : r = parseRawRStat(v)
    OBVIOUS
  <1>15. r = [fields EXCEPT !.rest = left]
    BY <1>11, <1>12
  <1>16. /\ r \in Views /\ r.rest = left /\ r.values = stat
         /\ r.thrown = FALSE /\ r.beyond = FALSE
    BY <1>13, <1>14, <1>15 DEF Views
  <1>17. r = At(octets, q, stat)
    BY <1>16, IsAt
  <1> QED BY <1>4, <1>7, <1>11, <1>13, <1>17 DEF ReadTo

-----------------------------------------------------------------------------
(* Whole frames                                                             *)

\* The views while the fields of these n kinds are read.
ViewsOf(v, kinds, n, views) ==
    /\ views[0] = v
    /\ \A k \in 1 .. n : views[k] = ReadField(views[k - 1], kinds[k])
    /\ ParseFields(v, kinds) = views[n]

\* There are such views.
LEMMA ViewsExist ==
  ASSUME NEW v, NEW n \in Nat, NEW kinds, DOMAIN kinds = 1 .. n
  PROVE  \E views : ViewsOf(v, kinds, n, views)
  BY ParseSteps DEF ViewsOf

\* No fields are nothing to read.
LEMMA ParseNothing == \A v : ParseFields(v, <<>>) = v
  <1> TAKE v
  <1>1. 0 \in Nat /\ DOMAIN <<>> = 1 .. 0
    OBVIOUS
  <1> PICK views : ViewsOf(v, <<>>, 0, views)
    BY <1>1, ViewsExist
  <1> QED BY DEF ViewsOf

\* The row c is the m kinds of a and, behind them, the n kinds of b.
IsJoin(c, a, m, b, n) ==
    /\ DOMAIN a = 1 .. m /\ DOMAIN b = 1 .. n /\ DOMAIN c = 1 .. m + n
    /\ \A j \in 1 .. m : c[j] = a[j]
    /\ \A j \in 1 .. n : c[m + j] = b[j]

\* Fields behind others are read from where those end.
LEMMA ParseJoined ==
  ASSUME NEW v, NEW m \in Nat, NEW n \in Nat, NEW a, NEW b, NEW c, IsJoin(c, a, m, b, n)
  PROVE  ParseFields(v, c) = ParseFields(ParseFields(v, a), b)
  <1> PICK l : l = m + n
    OBVIOUS
  <1> PICK u : u = ParseFields(v, a)
    OBVIOUS
  <1>1. l \in Nat /\ DOMAIN c = 1 .. l /\ DOMAIN a = 1 .. m /\ DOMAIN b = 1 .. n
    BY DEF IsJoin
  <1>j. (\A j \in 1 .. m : c[j] = a[j]) /\ \A j \in 1 .. n : c[m + j] = b[j]
    BY DEF IsJoin
  <1> PICK vc : ViewsOf(v, c, l, vc)
    BY <1>1, ViewsExist
  <1> PICK va : ViewsOf(v, a, m, va)
    BY <1>1, ViewsExist
  <1> PICK vb : ViewsOf(u, b, n, vb)
    BY <1>1, ViewsExist
  <1>v. /\ vc[0] = v /\ \A k \in 1 .. l : vc[k] = ReadField(vc[k - 1], c[k])
        /\ va[0] = v /\ \A k \in 1 .. m : va[k] = ReadField(va[k - 1], a[k])
        /\ vb[0] = u /\ \A k \in 1 .. n : vb[k] = ReadField(vb[k - 1], b[k])
        /\ ParseFields(v, c) = vc[l] /\ u = va[m] /\ ParseFields(u, b) = vb[n]
    BY DEF ViewsOf
  <1> DEFINE S == {k \in 0 .. m : vc[k] = va[k]}
             T == {k \in 0 .. n : vc[m + k] = vb[k]}
  <1>2. vc[m] = va[m]
    <2>1. 0 \in S
      BY <1>v
    <2>2. \A k \in 0 .. m - 1 : k \in S => k + 1 \in S
      <3> SUFFICES ASSUME NEW k \in 0 .. m - 1, vc[k] = va[k]
                   PROVE  k + 1 \in 0 .. m /\ vc[k + 1] = va[k + 1]
        OBVIOUS
      <3>1. k + 1 \in 1 .. m /\ k + 1 \in 1 .. l /\ (k + 1) - 1 = k /\ k + 1 \in 0 .. m
        BY <1>1
      <3>2. /\ vc[k + 1] = ReadField(vc[(k + 1) - 1], c[k + 1])
            /\ va[k + 1] = ReadField(va[(k + 1) - 1], a[k + 1]) /\ c[k + 1] = a[k + 1]
        BY <1>j, <1>v, <3>1
      <3> QED BY <3>1, <3>2
    <2>3. 0 .. m \subseteq S
      <3> HIDE DEF S
      <3> QED BY <2>1, <2>2, UpTo
    <2> QED BY <2>3
  <1>3. vc[m + n] = vb[n]
    <2>1. 0 \in T
      BY <1>v, <1>2
    <2>2. \A k \in 0 .. n - 1 : k \in T => k + 1 \in T
      <3> SUFFICES ASSUME NEW k \in 0 .. n - 1, vc[m + k] = vb[k]
                   PROVE  k + 1 \in 0 .. n /\ vc[m + (k + 1)] = vb[k + 1]
        OBVIOUS
      <3>1. /\ k + 1 \in 1 .. n /\ m + (k + 1) \in 1 .. l /\ (k + 1) - 1 = k
            /\ (m + (k + 1)) - 1 = m + k /\ k + 1 \in 0 .. n
        BY <1>1
      <3>2. /\ vc[m + (k + 1)] = ReadField(vc[(m + (k + 1)) - 1], c[m + (k + 1)])
            /\ vb[k + 1] = ReadField(vb[(k + 1) - 1], b[k + 1]) /\ c[m + (k + 1)] = b[k + 1]
        BY <1>j, <1>v, <3>1
      <3> QED BY <3>1, <3>2
    <2>3. 0 .. n \subseteq T
      <3> HIDE DEF T
      <3> QED BY <2>1, <2>2, UpTo
    <2> QED BY <2>3
  <1> QED BY <1>v, <1>3

\* Every kind of integer can hold a one.
LEMMA LimitAboveOne ==
  ASSUME NEW kind \in Kinds
  PROVE  Limit(kind) > 1 /\ Limit(kind) \in Nat
  <1> PICK w : w = Width[kind]
    OBVIOUS
  <1> PICK i : i = w - 1
    OBVIOUS
  <1>1. w \in Nat \ {0} /\ Limit(kind) \in Nat /\ Limit(kind) = Shift[w]
    BY LimitPositive DEF Limit
  <1>2. i \in Nat /\ w = i + 1
    BY <1>1
  <1>3. Shift[i] \in Nat \ {0} /\ Shift[i + 1] = Radix * Shift[i]
    BY <1>2, ShiftSteps
  <1> PICK r : r = Shift[i]
    OBVIOUS
  <1>4. r \in Nat \ {0} /\ Limit(kind) = Radix * r /\ Radix \in Nat /\ Radix > 1
    BY <1>1, <1>2, <1>3, RadixAssumption
  <1>5. Radix * r >= Radix
    BY <1>4
  <1> QED BY <1>1, <1>4, <1>5

\* Any qid can be written.
LEMMA QidHolds == Hold(Qid, AnyQid)
  <1>1. \A kind \in {"u8", "u32", "u64"} : Holds(kind, 0) /\ Holds(kind, 1)
    BY KindsAre, LimitAboveOne DEF Holds
  <1>2. DOMAIN Qid = 1 .. 3 /\ Qid[1] = "u8" /\ Qid[2] = "u32" /\ Qid[3] = "u64"
    BY DEF Qid
  <1>3. AnyQid[1] = 0 /\ AnyQid[2] = 1 /\ AnyQid[3] = 1
    BY DEF AnyQid
  <1>4. AnyQid = [i \in 1 .. 3 |-> AnyQid[i]]
    BY DEF AnyQid
  <1>5. \A i \in 1 .. 3 : i = 1 \/ i = 2 \/ i = 3
    OBVIOUS
  <1>6. \A i \in 1 .. 3 : Holds(Qid[i], AnyQid[i])
    BY <1>1, <1>2, <1>3, <1>5
  <1> QED BY <1>2, <1>4, <1>6 DEF Hold

\* The view u has read m.
HasRead(u, m) == u.thrown = FALSE /\ u.beyond = FALSE /\ Payload(m.type, u.values) = m

\* What has been read is neither thrown nor beyond.
LEMMA ReadWell ==
  ASSUME NEW octets, NEW p, NEW v, NEW vs, ReadTo(v, octets, p, vs)
  PROVE  v.thrown = FALSE /\ v.beyond = FALSE /\ v.values = vs
  <1>1. v = At(octets, p, vs)
    BY Zenon DEF ReadTo
  <1>2. /\ At(octets, p, vs).values = vs /\ At(octets, p, vs).thrown = FALSE
        /\ At(octets, p, vs).beyond = FALSE
    BY DEF At
  <1> QED BY <1>1, <1>2, Zenon

\* A row of fields is read, from where it is, into no values.
LEMMA ReadAll ==
  ASSUME NEW kinds \in Seq(Kinds \cup {"string"}), NEW values, Hold(kinds, values),
         NEW octets \in Seq(Octets), NEW p, NEW v, ReadTo(v, octets, p, <<>>),
         StandsAt(octets, p, Encode(kinds, values))
  PROVE  /\ Encode(kinds, values) \in Seq(Octets)
         /\ ReadTo(ParseFields(v, kinds), octets, p + Len(Encode(kinds, values)), values)
  <1> PICK q : q = p + Len(Encode(kinds, values))
    OBVIOUS
  <1>1. ReadTo(ParseFields(v, kinds), octets, q, <<>> \o Until(values, Len(kinds)))
    BY ReadEncoded
  <1>2. <<>> \o Until(values, Len(kinds)) = values
    BY UntilAll
  <1> QED BY <1>1, <1>2, EncodeIs

\* An integer is read from where it is.
LEMMA ReadNumber ==
  ASSUME NEW kind \in Kinds, NEW x \in 0 .. Limit(kind) - 1,
         NEW octets \in Seq(Octets), NEW p, NEW vs, NEW v, ReadTo(v, octets, p, vs),
         StandsAt(octets, p, LittleEndian(x, Width[kind])), NEW q, q = p + Width[kind]
  PROVE  ReadTo(parseInteger(v, kind), octets, q, Append(vs, x))
  <1>1. v = At(octets, p, vs) /\ p \in 0 .. Len(octets) /\ vs \in Seq(Values)
    BY Zenon DEF ReadTo
  <1>2. parseInteger(At(octets, p, vs), kind) = At(octets, q, Append(vs, x))
        /\ q \in 0 .. Len(octets)
    BY <1>1, ReadInteger
  <1>3. x \in Values
    BY LimitPositive DEF Values
  <1>4. Append(vs, x) \in Seq(Values)
    BY <1>1, <1>3
  <1> QED BY <1>1, <1>2, <1>4 DEF ReadTo

\* The qids of an RWalk.
Qids(n) == FlattenSeq([i \in 1 .. n |-> Encode(Qid, AnyQid)])
QidKindsOf(n) == FlattenSeq([i \in 1 .. n |-> Qid])

\* Any number of them is read.
LEMMA ReadQids ==
  ASSUME NEW n \in Nat, NEW octets \in Seq(Octets), NEW p, NEW vs, NEW v,
         ReadTo(v, octets, p, vs), StandsAt(octets, p, Qids(n))
  PROVE  \E q, ws : ReadTo(ParseFields(v, QidKindsOf(n)), octets, q, ws)
  <1> PICK flat : flat = Qids(n)
    OBVIOUS
  <1> PICK qid : qid = Encode(Qid, AnyQid)
    OBVIOUS
  <1>seqs. PICK seqs : seqs = [i \in 1 .. n |-> qid]
    OBVIOUS
  <1>kinds. PICK kinds : kinds = [i \in 1 .. n |-> Qid]
    OBVIOUS
  <1>1. qid \in Seq(Octets)
    BY QidKinds, QidHolds, EncodeIs
  <1>2. seqs \in Seq(Seq(Octets)) /\ Len(seqs) = n /\ \A i \in 1 .. n : seqs[i] = qid
    BY <1>1, <1>seqs
  <1>3. kinds \in Seq(Seq(Kinds \cup {"string"})) /\ Len(kinds) = n
        /\ \A i \in 1 .. n : kinds[i] = Qid
    BY <1>kinds, QidKinds
  <1>4. flat = FlattenSeq(seqs) /\ QidKindsOf(n) = FlattenSeq(kinds)
    BY Zenon, <1>seqs, <1>kinds DEF Qids, QidKindsOf
  <1>pos. PICK pos : JoinedAt(flat, seqs, pos) /\ flat \in Seq(Octets)
    BY <1>2, <1>4, FlattenPlaces
  <1>5. /\ pos \in [0 .. n -> Nat] /\ pos[0] = 0 /\ Len(flat) \in Nat
        /\ \A k \in 1 .. n : pos[k] = pos[k - 1] + Len(qid) /\ StandsAt(flat, pos[k - 1], qid)
    <2>1. /\ pos \in [0 .. n -> Nat] /\ pos[0] = 0
          /\ \A k \in 1 .. n : /\ pos[k] = pos[k - 1] + Len(seqs[k])
                               /\ StandsAt(flat, pos[k - 1], seqs[k])
      BY Zenon, <1>2, <1>pos DEF JoinedAt
    <2>2. Len(flat) \in Nat
      BY <1>pos
    <2> QED BY Zenon, <1>2, <2>1, <2>2
  <1>f. PICK f : JoinsFirst(kinds, f, n, Kinds \cup {"string"}) /\ QidKindsOf(n) = f[n]
    BY <1>3, <1>4, FlattenIsJoined
  <1>6. /\ f \in [0 .. n -> Seq(Kinds \cup {"string"})] /\ f[0] = <<>>
        /\ \A k \in 1 .. n : f[k] = f[k - 1] \o Qid
    BY <1>3, <1>f DEF JoinsFirst
  <1>7. p \in Nat /\ Len(octets) \in Nat
    BY ReadPlace
  <1> DEFINE S == {k \in 0 .. n : \E ws : ReadTo(ParseFields(v, f[k]), octets, p + pos[k], ws)}
  <1>8. 0 \in S
    <2>1. ParseFields(v, f[0]) = v /\ p + pos[0] = p /\ 0 \in 0 .. n
      BY <1>5, <1>6, <1>7, ParseNothing
    <2> QED BY <2>1
  <1>9. ASSUME NEW k \in 0 .. n - 1, k \in S PROVE k + 1 \in S
    <2>1. k + 1 \in 1 .. n /\ (k + 1) - 1 = k /\ k \in 0 .. n /\ k + 1 \in 0 .. n
      OBVIOUS
    <2> PICK ws : ReadTo(ParseFields(v, f[k]), octets, p + pos[k], ws)
      BY <1>9
    <2> PICK a : a = f[k]
      OBVIOUS
    <2> PICK c : c = f[k + 1]
      OBVIOUS
    <2>2. a \in Seq(Kinds \cup {"string"}) /\ c = a \o Qid
      BY <1>6, <2>1
    <2>3. ParseFields(v, c) = ParseFields(ParseFields(v, a), Qid)
      <3> PICK l : l = Len(a)
        OBVIOUS
      <3> PICK r : r = Len(Qid)
        OBVIOUS
      <3>1. /\ c \in Seq(Kinds \cup {"string"}) /\ Len(c) = l + r /\ l \in Nat /\ r \in Nat
            /\ \A j \in 1 .. l : c[j] = a[j]
            /\ \A j \in 1 .. r : c[l + j] = Qid[j]
        BY <2>2, QidKinds, ConcatPlaces
      <3>2. DOMAIN a = 1 .. l /\ DOMAIN Qid = 1 .. r /\ DOMAIN c = 1 .. l + r
        BY <2>2, <3>1, QidKinds, LenProperties
      <3>3. IsJoin(c, a, l, Qid, r)
        BY <3>1, <3>2 DEF IsJoin
      <3> QED BY <3>1, <3>3, ParseJoined
    <2> PICK at : at = p + pos[k]
      OBVIOUS
    <2> PICK next : next = at + Len(qid)
      OBVIOUS
    <2>4. pos[k] \in Nat /\ pos[k + 1] = pos[k] + Len(qid) /\ StandsAt(flat, pos[k], qid)
      BY <1>5, <2>1
    <2>5. Len(qid) \in Nat
      BY <1>1
    <2>6. next = p + pos[k + 1] /\ at \in Nat
      <3>1. at \in Nat
        BY Zenon, <1>7, <2>4, SumNat
      <3>2. (p + pos[k]) + Len(qid) = p + (pos[k] + Len(qid))
        <4>1. SameSum(p, pos[k], Len(qid))
          BY Zenon, <1>7, <2>4, <2>5, SumsRegroup
        <4> QED BY Zenon, <4>1 DEF SameSum
      <3>3. next = (p + pos[k]) + Len(qid)
        BY Zenon
      <3>4. p + pos[k + 1] = p + (pos[k] + Len(qid))
        BY Zenon, <2>4
      <3> QED BY Zenon, <3>1, <3>2, <3>3, <3>4
    <2>7. StandsAt(octets, at, qid)
      BY <1>5, <1>7, <2>4, <2>5, StandsWithin
    <2>8. ReadTo(ParseFields(ParseFields(v, a), Qid), octets, next,
                 ws \o Until(AnyQid, Len(Qid)))
      BY <2>7, QidKinds, QidHolds, ReadEncoded
    <2> QED BY <2>1, <2>3, <2>6, <2>8
  <1>10. n \in S
    <2>1. 0 .. n \subseteq S
      <3> HIDE DEF S
      <3> QED BY <1>8, <1>9, UpTo
    <2> QED BY <2>1
  <1> QED BY <1>10, <1>f

\* Their octets are octets.
LEMMA QidsAre == \A n \in Nat : Qids(n) \in Seq(Octets)
  <1> TAKE n \in Nat
  <1> PICK qid : qid = Encode(Qid, AnyQid)
    OBVIOUS
  <1> PICK seqs : seqs = [i \in 1 .. n |-> qid]
    OBVIOUS
  <1>1. qid \in Seq(Octets)
    BY QidKinds, QidHolds, EncodeIs
  <1>2. seqs \in Seq(Seq(Octets))
    BY <1>1
  <1>3. Qids(n) = FlattenSeq(seqs)
    BY Zenon DEF Qids
  <1> QED BY <1>2, <1>3, FlattenPlaces

-----------------------------------------------------------------------------
(* Payloads                                                                 *)

ReplyNames == {"RVersion", "RAuth", "RError", "RAttach", "RWalk", "ROpen", "RRead", "RClunk",
               "RStat"}

\* What a payload has been read as.
ReadAs(m, octets, p, v) ==
    /\ EncodePayload(m) \in Seq(Octets)
    /\ HasRead(parseMessagePayload(m.type, v), m)

\* The fixed fields of the replies.
LEMMA FixedFieldsAre ==
  /\ FixedFields("RVersion") = <<"u32", "string">> /\ FixedFields("RError") = <<"string">>
  /\ FixedFields("RAuth") = Qid /\ FixedFields("RAttach") = Qid
  /\ FixedFields("ROpen") = Qid \o <<"u32">> /\ FixedFields("RClunk") = <<>>
  BY DEF FixedFields

\* The payload of m is its fixed fields, with these values.
IsFixed(m, values) ==
    /\ m.type \in {"RVersion", "RError", "RAuth", "RAttach"}
    /\ Hold(FixedFields(m.type), values)
    /\ EncodePayload(m) = Encode(FixedFields(m.type), values)
    /\ Payload(m.type, values) = m

\* A payload of fixed fields is read into their values.
LEMMA ReadFixed ==
  ASSUME NEW m, NEW values, IsFixed(m, values),
         NEW octets \in Seq(Octets), NEW p, NEW v, ReadTo(v, octets, p, <<>>),
         StandsAt(octets, p, EncodePayload(m))
  PROVE  ReadAs(m, octets, p, v)
  <1> PICK kinds : kinds = FixedFields(m.type)
    OBVIOUS
  <1>0. /\ m.type \in {"RVersion", "RError", "RAuth", "RAttach"} /\ Hold(kinds, values)
        /\ EncodePayload(m) = Encode(kinds, values) /\ Payload(m.type, values) = m
    BY Zenon DEF IsFixed
  <1>1. kinds \in Seq(Kinds \cup {"string"})
    <2>1. <<"u32", "string">> \in Seq(Kinds \cup {"string"})
          /\ <<"string">> \in Seq(Kinds \cup {"string"})
      BY KindsAre
    <2> QED BY <1>0, <2>1, FixedFieldsAre, QidKinds
  <1> PICK u : u = ParseFields(v, kinds)
    OBVIOUS
  <1>2. /\ Encode(kinds, values) \in Seq(Octets)
        /\ ReadTo(u, octets, p + Len(Encode(kinds, values)), values)
    BY <1>0, <1>1, ReadAll
  <1>3. u.thrown = FALSE /\ u.beyond = FALSE /\ u.values = values
    BY <1>2, ReadWell
  <1>4. parseMessagePayload(m.type, v) = u
    BY <1>0 DEF parseMessagePayload
  <1>5. HasRead(u, m)
    BY <1>0, <1>3, Zenon DEF HasRead
  <1> QED BY <1>0, <1>2, <1>4, <1>5 DEF ReadAs

\* RVersion and RError.
LEMMA ReadVersionOrError ==
  ASSUME NEW m, m.type \in {"RVersion", "RError"}, Content(m),
         NEW octets \in Seq(Octets), NEW p, NEW v, ReadTo(v, octets, p, <<>>),
         StandsAt(octets, p, EncodePayload(m))
  PROVE  ReadAs(m, octets, p, v)
  <1>1. CASE m.type = "RVersion"
    <2> PICK values : values = <<m.n, m.text>>
      OBVIOUS
    <2>1. Hold(FixedFields(m.type), values)
          /\ m = [Parsed(m.type) EXCEPT !.n = m.n, !.text = m.text]
      BY <1>1 DEF Content
    <2>2. EncodePayload(m) = Encode(FixedFields(m.type), values)
      BY <1>1 DEF EncodePayload
    <2>3. Payload(m.type, values) = m
      <3>1. values[1] = m.n /\ values[2] = m.text
        OBVIOUS
      <3>2. Payload(m.type, values) = [Parsed(m.type) EXCEPT !.n = values[1], !.text = values[2]]
        BY <1>1 DEF Payload
      <3> QED BY <2>1, <3>1, <3>2, Zenon
    <2>4. m.type \in {"RVersion", "RError", "RAuth", "RAttach"}
      BY <1>1
    <2>f. IsFixed(m, values)
      BY <2>1, <2>2, <2>3, <2>4, Zenon DEF IsFixed
    <2> QED BY <2>f, ReadFixed
  <1>2. CASE m.type = "RError"
    <2> PICK values : values = <<m.text>>
      OBVIOUS
    <2>1. Hold(FixedFields(m.type), values) /\ m = [Parsed(m.type) EXCEPT !.text = m.text]
      BY <1>2 DEF Content
    <2>2. EncodePayload(m) = Encode(FixedFields(m.type), values)
      BY <1>2 DEF EncodePayload
    <2>3. Payload(m.type, values) = m
      <3>1. values[1] = m.text
        OBVIOUS
      <3>2. Payload(m.type, values) = [Parsed(m.type) EXCEPT !.text = values[1]]
        BY <1>2 DEF Payload
      <3> QED BY <2>1, <3>1, <3>2, Zenon
    <2>4. m.type \in {"RVersion", "RError", "RAuth", "RAttach"}
      BY <1>2
    <2>f. IsFixed(m, values)
      BY <2>1, <2>2, <2>3, <2>4, Zenon DEF IsFixed
    <2> QED BY <2>f, ReadFixed
  <1> QED BY <1>1, <1>2

\* RAuth and RAttach.
LEMMA ReadAuthOrAttach ==
  ASSUME NEW m, m.type \in {"RAuth", "RAttach"}, Content(m),
         NEW octets \in Seq(Octets), NEW p, NEW v, ReadTo(v, octets, p, <<>>),
         StandsAt(octets, p, EncodePayload(m))
  PROVE  ReadAs(m, octets, p, v)
  <1>1. m = Parsed(m.type)
    BY DEF Content
  <1>2. FixedFields(m.type) = Qid
    BY FixedFieldsAre
  <1>3. Hold(FixedFields(m.type), AnyQid)
    BY <1>2, QidHolds
  <1>4. EncodePayload(m) = Encode(FixedFields(m.type), AnyQid)
    BY <1>2 DEF EncodePayload
  <1>5. Payload(m.type, AnyQid) = m
    BY <1>1 DEF Payload
  <1>6. m.type \in {"RVersion", "RError", "RAuth", "RAttach"}
    OBVIOUS
  <1>7. IsFixed(m, AnyQid)
    BY <1>3, <1>4, <1>5, <1>6, Zenon DEF IsFixed
  <1> QED BY <1>7, ReadFixed

\* ROpen: a qid and an integer.
LEMMA ReadOpen ==
  ASSUME NEW m, m.type = "ROpen", Content(m),
         NEW octets \in Seq(Octets), NEW p, NEW v, ReadTo(v, octets, p, <<>>),
         StandsAt(octets, p, EncodePayload(m))
  PROVE  ReadAs(m, octets, p, v)
  <1> PICK qid : qid = Encode(Qid, AnyQid)
    OBVIOUS
  <1> PICK w : w = Width["u32"]
    OBVIOUS
  <1> PICK zero : zero = LittleEndian(0, w)
    OBVIOUS
  <1>1. m = Parsed(m.type)
    BY DEF Content
  <1>2. EncodePayload(m) = qid \o zero
    BY DEF EncodePayload
  <1>3. "u32" \in Kinds /\ w \in Nat /\ 0 \in 0 .. Limit("u32") - 1
    BY KindsAre, LimitPositive
  <1>4. qid \in Seq(Octets) /\ zero \in Seq(Octets)
    BY <1>3, QidKinds, QidHolds, EncodeIs, LittleEndianType
  <1>5. p \in Nat
    BY ReadPlace
  <1>6. StandsAt(octets, p, qid) /\ StandsAt(octets, p + Len(qid), zero)
    BY <1>2, <1>4, <1>5, StandsBehind
  <1> PICK at : at = p + Len(qid)
    OBVIOUS
  <1> PICK u : u = ParseFields(v, Qid)
    OBVIOUS
  <1>7. ReadTo(u, octets, at, AnyQid)
    BY <1>6, QidKinds, QidHolds, ReadAll
  <1> PICK t : t = ParseFields(u, <<"u32">>)
    OBVIOUS
  <1> PICK q : q = at + w
    OBVIOUS
  <1>8. FieldAt(octets, at, "u32", 0, q)
    BY <1>3, <1>6 DEF FieldAt
  <1>9. ReadTo(t, octets, q, Append(AnyQid, 0))
    BY <1>7, <1>8, ReadSingle
  <1>10. t = ParseFields(v, FixedFields("ROpen"))
    <2> PICK c : c = FixedFields("ROpen")
      OBVIOUS
    <2>1. c = <<"u8", "u32", "u64", "u32">>
      BY FixedFieldsAre DEF Qid
    <2>2. IsJoin(c, Qid, 3, <<"u32">>, 1)
      BY <2>1 DEF IsJoin, Qid
    <2>3. 3 \in Nat /\ 1 \in Nat
      OBVIOUS
    <2> QED BY <2>2, <2>3, ParseJoined
  <1>11. parseMessagePayload(m.type, v) = t
    BY <1>10 DEF parseMessagePayload
  <1>12. t.thrown = FALSE /\ t.beyond = FALSE
    BY <1>9, ReadWell
  <1>13. Payload(m.type, t.values) = m
    BY <1>1 DEF Payload
  <1>14. qid \o zero \in Seq(Octets)
    BY <1>4, ConcatProperties
  <1> QED BY <1>2, <1>11, <1>12, <1>13, <1>14 DEF ReadAs, HasRead

\* RClunk: nothing.
LEMMA ReadClunk ==
  ASSUME NEW m, m.type = "RClunk", Content(m),
         NEW octets \in Seq(Octets), NEW p, NEW v, ReadTo(v, octets, p, <<>>)
  PROVE  ReadAs(m, octets, p, v)
  <1>1. m = Parsed(m.type)
    BY DEF Content
  <1>2. EncodePayload(m) = <<>>
    BY DEF EncodePayload
  <1>3. parseMessagePayload(m.type, v) = ParseFields(v, FixedFields(m.type))
    BY DEF parseMessagePayload
  <1>4. ParseFields(v, FixedFields(m.type)) = v
    BY FixedFieldsAre, ParseNothing
  <1>5. v.thrown = FALSE /\ v.beyond = FALSE
    BY ReadWell
  <1>6. Payload(m.type, v.values) = m
    BY <1>1 DEF Payload
  <1> QED BY <1>2, <1>3, <1>4, <1>5, <1>6 DEF ReadAs, HasRead

\* RRead: the data behind their count.
LEMMA ReadRead ==
  ASSUME NEW m, m.type = "RRead", Content(m),
         NEW octets \in Seq(Octets), NEW p, NEW v, ReadTo(v, octets, p, <<>>),
         StandsAt(octets, p, EncodePayload(m))
  PROVE  ReadAs(m, octets, p, v)
  <1> PICK data : data = m.data
    OBVIOUS
  <1>1. m = [Parsed(m.type) EXCEPT !.data = data] /\ SizeHolds("u32", data)
    BY DEF Content
  <1>2. EncodePayload(m) = Sized("u32", data) /\ "u32" \in Kinds
    BY KindsAre DEF EncodePayload
  <1> PICK u : u = SizedView(v, "u32")
    OBVIOUS
  <1> PICK q : q = p + Len(Sized("u32", data))
    OBVIOUS
  <1> PICK vs : vs = Append(<<>>, data)
    OBVIOUS
  <1>3. Sized("u32", data) \in Seq(Octets) /\ ReadTo(u, octets, q, vs)
    BY <1>1, <1>2, ReadSizedOctets
  <1>4. u.thrown = FALSE /\ u.beyond = FALSE /\ u.values = vs
    BY <1>3, ReadWell
  <1>5. parseMessagePayload(m.type, v) = u
    BY DEF parseMessagePayload, parseRRead
  <1>6. Payload(m.type, vs) = m
    <2>1. vs[1] = data
      <3>1. data \in Seq(Octets)
        BY <1>1 DEF SizeHolds
      <3> QED BY <3>1
    <2>2. Payload(m.type, vs) = [Parsed(m.type) EXCEPT !.data = vs[1]]
      BY DEF Payload
    <2> QED BY <1>1, <2>1, <2>2, Zenon
  <1> QED BY <1>2, <1>3, <1>4, <1>5, <1>6 DEF ReadAs, HasRead

\* RWalk: the number of qids and the qids.
LEMMA ReadWalk ==
  ASSUME NEW m, m.type = "RWalk", Content(m),
         NEW octets \in Seq(Octets), NEW p, NEW v, ReadTo(v, octets, p, <<>>),
         StandsAt(octets, p, EncodePayload(m))
  PROVE  ReadAs(m, octets, p, v)
  <1> PICK n : n = m.n
    OBVIOUS
  <1> PICK w : w = Width["u16"]
    OBVIOUS
  <1> PICK size : size = LittleEndian(n, w)
    OBVIOUS
  <1> PICK qids : qids = Qids(n)
    OBVIOUS
  <1>1. m = [Parsed(m.type) EXCEPT !.n = n] /\ n \in 0 .. Limit("u16") - 1
    BY DEF Content, Holds
  <1>2. EncodePayload(m) = size \o qids
    BY DEF EncodePayload, Qids
  <1>3. "u16" \in Kinds /\ w \in Nat /\ n \in Nat
    BY <1>1, KindsAre, LimitPositive
  <1>4. size \in Seq(Octets) /\ Len(size) = w /\ qids \in Seq(Octets)
    BY <1>3, LittleEndianType, QidsAre
  <1>5. p \in Nat
    BY ReadPlace
  <1> PICK at : at = p + w
    OBVIOUS
  <1>6. StandsAt(octets, p, size) /\ StandsAt(octets, at, qids)
    <2>1. StandsAt(octets, p, size) /\ StandsAt(octets, p + Len(size), qids)
      <3>1. StandsAt(octets, p, size \o qids)
        BY <1>2, Zenon
      <3> QED BY <1>4, <1>5, <3>1, StandsBehind
    <2>2. p + Len(size) = at
      BY <1>4, <1>5
    <2> QED BY <2>1, <2>2
  <1> PICK u : u = parseInteger(v, "u16")
    OBVIOUS
  <1> PICK vs : vs = Append(<<>>, n)
    OBVIOUS
  <1>7. ReadTo(u, octets, at, vs)
    BY <1>1, <1>3, <1>6, ReadNumber
  <1>8. u.thrown = FALSE /\ u.values = vs
    BY <1>7, ReadWell
  <1>9. vs = <<n>> /\ Last(vs) = n
    BY DEF Last
  <1> PICK t : t = ParseFields(u, QidKindsOf(n))
    OBVIOUS
  <1> PICK q, ws : ReadTo(t, octets, q, ws)
    BY <1>3, <1>6, <1>7, ReadQids
  <1>10. parseRWalk(v) = [t EXCEPT !.values = <<n>>]
    BY <1>8, <1>9, Zenon DEF parseRWalk, QidKindsOf
  <1>11. parseMessagePayload(m.type, v) = [t EXCEPT !.values = <<n>>]
    BY <1>10 DEF parseMessagePayload
  <1> PICK r : r = [t EXCEPT !.values = <<n>>]
    OBVIOUS
  <1>12. r.thrown = FALSE /\ r.beyond = FALSE /\ r.values = <<n>>
    <2>1. t = [rest |-> Rest(octets, q), values |-> ws, thrown |-> FALSE, beyond |-> FALSE]
      BY Zenon DEF ReadTo, At
    <2> QED BY <2>1
  <1>13. Payload(m.type, <<n>>) = m
    <2> PICK one : one = <<n>>
      OBVIOUS
    <2>1. one[1] = n
      OBVIOUS
    <2>2. Payload(m.type, one) = [Parsed(m.type) EXCEPT !.n = one[1]]
      BY DEF Payload
    <2> QED BY <1>1, <2>1, <2>2, Zenon
  <1>14. size \o qids \in Seq(Octets)
    BY <1>4, ConcatProperties
  <1> QED BY <1>2, <1>11, <1>12, <1>13, <1>14 DEF ReadAs, HasRead

\* A view with these values of the octets behind p,
IsView(v, octets, p, vs) ==
    v \in Views /\ v.rest = Rest(octets, p) /\ v.values = vs /\ v.thrown = FALSE
    /\ v.beyond = FALSE

\* and what it is.
LEMMA ViewIs ==
  ASSUME NEW v, NEW octets, NEW p, NEW vs, IsView(v, octets, p, vs)
  PROVE  v = At(octets, p, vs)
  BY IsAt DEF IsView

\* RStat: a stat behind its own size and another.
LEMMA ReadStatReply ==
  ASSUME NEW m, m.type = "RStat", Content(m),
         NEW octets \in Seq(Octets), NEW p, NEW v, ReadTo(v, octets, p, <<>>),
         StandsAt(octets, p, EncodePayload(m))
  PROVE  ReadAs(m, octets, p, v)
  <1>stat. PICK stat : stat = m.stats[1]
    OBVIOUS
  <1>none. PICK none : none = <<>>
    OBVIOUS
  <1>s. PICK s : s = EncodeStat(stat, none)
    OBVIOUS
  <1>1. m = [Parsed(m.type) EXCEPT !.stats = <<stat>>] /\ StatHolds(stat, none)
        /\ SizeHolds("u16", s)
    BY <1>stat, <1>none, <1>s DEF Content
  <1>2. EncodePayload(m) = Sized("u16", s) /\ "u16" \in Kinds
    BY <1>stat, <1>none, <1>s, KindsAre DEF EncodePayload
  <1>w. PICK w : w = SizedView(v, "u16")
    OBVIOUS
  <1>q. PICK q : q = p + Len(Sized("u16", s))
    OBVIOUS
  <1>vs. PICK vs : vs = Append(<<>>, s)
    OBVIOUS
  <1>3. Sized("u16", s) \in Seq(Octets) /\ ReadTo(w, octets, q, vs)
    BY <1>w, <1>q, <1>vs, <1>1, <1>2, ReadSizedOctets
  <1>4. w.thrown = FALSE /\ w.values = vs /\ s \in Seq(Octets)
    <2>1. w.thrown = FALSE /\ w.values = vs
      BY <1>3, ReadWell, Zenon
    <2>2. s \in Seq(Octets)
      BY <1>1, Zenon DEF SizeHolds
    <2> QED BY <2>1, <2>2
  <1>5. vs = <<s>>
    BY <1>vs, <1>4
  <1>inner. PICK inner : inner = [w EXCEPT !.rest = Last(w.values)]
    OBVIOUS
  <1>6. \E ws : ReadTo(inner, s, 0, ws)
    <2>1. /\ w \in Views /\ w.values = vs /\ w.thrown = FALSE /\ w.beyond = FALSE
          /\ vs \in Seq(Values)
      <3>1. w = At(octets, q, vs) /\ q \in 0 .. Len(octets) /\ vs \in Seq(Values)
        BY <1>3, Zenon DEF ReadTo
      <3>2. /\ At(octets, q, vs) \in Views /\ At(octets, q, vs).values = vs
            /\ At(octets, q, vs).thrown = FALSE /\ At(octets, q, vs).beyond = FALSE
        BY <3>1, AtIs
      <3> QED BY <3>1, <3>2, Zenon
    <2>2. Last(w.values) = s
      <3>1. Last(vs) = s
        BY <1>5 DEF Last
      <3> QED BY <2>1, <3>1, Zenon
    <2>3. /\ inner \in Views /\ inner.rest = s /\ inner.values = vs
          /\ inner.thrown = FALSE /\ inner.beyond = FALSE
      BY <1>inner, <1>4, <2>1, <2>2 DEF Views
    <2>4. Rest(s, 0) = s
      <3>1. ReadTo(View(s), s, 0, <<>>)
        BY <1>4, ReadNothing
      <3>2. View(s).rest = Rest(s, 0)
        BY <3>1, ReadValues
      <3>3. View(s).rest = s
        BY DEF View
      <3> QED BY <3>2, <3>3
    <2>5. inner = At(s, 0, vs)
      <3>1. IsView(inner, s, 0, vs)
        BY <2>3, <2>4, Zenon DEF IsView
      <3> QED BY <3>1, ViewIs, Zenon
    <2>6. 0 \in 0 .. Len(s)
      BY <1>4
    <2> QED BY <2>1, <2>5, <2>6 DEF ReadTo
  <1>ws. PICK ws : ReadTo(inner, s, 0, ws)
    BY <1>6
  <1>end. PICK end : end = 0 + Len(s)
    OBVIOUS
  <1>7. StandsAt(s, 0, s)
    BY <1>4 DEF StandsAt
  <1>u. PICK u : u = parseRawRStat(inner)
    OBVIOUS
  <1>8. ReadTo(u, s, end, stat)
    BY <1>u, <1>end, <1>none, <1>s, <1>1, <1>4, <1>ws, <1>7, ReadStat
  <1>9. u.thrown = FALSE /\ u.beyond = FALSE /\ u.values = stat
    <2>1. u = At(s, end, stat)
      BY <1>8, Zenon DEF ReadTo
    <2>2. /\ At(s, end, stat).values = stat /\ At(s, end, stat).thrown = FALSE
          /\ At(s, end, stat).beyond = FALSE
      BY DEF At
    <2> QED BY <2>1, <2>2, Zenon
  <1>10. parseMessagePayload(m.type, v) = u
    <2>1. parseRStat(v) = u
      BY <1>4, <1>w, <1>u, <1>inner, Zenon DEF parseRStat
    <2> QED BY <2>1 DEF parseMessagePayload
  <1>11. Payload(m.type, stat) = m
    <2>1. Payload(m.type, stat) = [Parsed(m.type) EXCEPT !.stats = <<stat>>]
      BY DEF Payload
    <2> QED BY <1>1, <2>1, Zenon
  <1> QED BY <1>q, <1>2, <1>3, <1>9, <1>10, <1>11 DEF ReadAs, HasRead

\* Whatever the reply, its payload is read as it was written.
LEMMA ReadPayload ==
  ASSUME NEW m, m.type \in ReplyNames, Content(m),
         NEW octets \in Seq(Octets), NEW p, NEW v, ReadTo(v, octets, p, <<>>),
         StandsAt(octets, p, EncodePayload(m))
  PROVE  ReadAs(m, octets, p, v)
  <1>1. CASE m.type \in {"RVersion", "RError"}
    BY <1>1, ReadVersionOrError
  <1>2. CASE m.type \in {"RAuth", "RAttach"}
    BY <1>2, ReadAuthOrAttach
  <1>3. CASE m.type = "ROpen"
    BY <1>3, ReadOpen
  <1>4. CASE m.type = "RClunk"
    BY <1>4, ReadClunk
  <1>5. CASE m.type = "RRead"
    BY <1>5, ReadRead
  <1>6. CASE m.type = "RWalk"
    BY <1>6, ReadWalk
  <1>7. CASE m.type = "RStat"
    BY <1>7, ReadStatReply
  <1> QED BY <1>1, <1>2, <1>3, <1>4, <1>5, <1>6, <1>7 DEF ReplyNames

\* Each reply has a code of its own, which an octet can hold.
LEMMA CodeIs ==
  ASSUME NEW type \in ReplyNames
  PROVE  /\ Code(type) \in DOMAIN TypeNames /\ TypeNames[Code(type)] = type
         /\ Code(type) \in 0 .. Limit("u8") - 1
  <1> PICK code : code = Code(type)
    OBVIOUS
  <1>1. \E c \in DOMAIN TypeNames : TypeNames[c] = type
    BY DEF ReplyNames, TypeNames
  <1>2. code \in DOMAIN TypeNames /\ TypeNames[code] = type
    BY <1>1 DEF Code
  <1>3. DOMAIN TypeNames = 1 .. 14 /\ Len(TypeNames) = 14
    BY DEF TypeNames
  <1> PICK one : one = Shift[0]
    OBVIOUS
  <1> PICK shift : shift = Shift[0 + 1]
    OBVIOUS
  <1>4. one = 1 /\ shift = Radix * one
    BY ShiftSteps
  <1>5. Limit("u8") = Radix
    <2>1. Limit("u8") = Shift[1]
      BY CodeAssumption DEF Limit
    <2>2. shift = Radix
      BY <1>4, RadixAssumption
    <2>3. 0 + 1 = 1
      OBVIOUS
    <2> QED BY <2>1, <2>2, <2>3
  <1>6. Radix > 14 /\ Radix \in Nat
    BY <1>3, CodeAssumption, RadixAssumption
  <1> QED BY <1>2, <1>3, <1>5, <1>6

\* A size in front of octets are octets.
LEMMA SizedIs ==
  ASSUME NEW kind \in Kinds, NEW s, SizeHolds(kind, s)
  PROVE  Sized(kind, s) \in Seq(Octets)
  <1> PICK size : size = LittleEndian(Len(s), Width[kind])
    OBVIOUS
  <1>1. s \in Seq(Octets) /\ Len(s) \in Nat /\ Width[kind] \in Nat
    BY LimitPositive DEF SizeHolds
  <1>2. size \in Seq(Octets)
    BY <1>1, LittleEndianType
  <1>3. Sized(kind, s) = size \o s
    BY DEF Sized
  <1> QED BY <1>1, <1>2, <1>3, ConcatProperties

\* What a payload is written as are octets.
LEMMA PayloadIs ==
  ASSUME NEW m, m.type \in ReplyNames, Content(m)
  PROVE  EncodePayload(m) \in Seq(Octets)
  <1>1. CASE m.type = "RVersion"
    <2>1. <<"u32", "string">> \in Seq(Kinds \cup {"string"})
      BY KindsAre
    <2> PICK values : values = <<m.n, m.text>>
      OBVIOUS
    <2>2. Hold(FixedFields("RVersion"), values)
      BY <1>1 DEF Content
    <2>3. EncodePayload(m) = Encode(FixedFields("RVersion"), values)
      BY <1>1 DEF EncodePayload
    <2> QED BY <2>1, <2>2, <2>3, FixedFieldsAre, EncodeIs
  <1>2. CASE m.type = "RError"
    <2>1. <<"string">> \in Seq(Kinds \cup {"string"})
      BY KindsAre
    <2> PICK values : values = <<m.text>>
      OBVIOUS
    <2>2. Hold(FixedFields("RError"), values)
      BY <1>2 DEF Content
    <2>3. EncodePayload(m) = Encode(FixedFields("RError"), values)
      BY <1>2 DEF EncodePayload
    <2> QED BY <2>1, <2>2, <2>3, FixedFieldsAre, EncodeIs
  <1> PICK qid : qid = Encode(Qid, AnyQid)
    OBVIOUS
  <1>3. qid \in Seq(Octets)
    BY QidKinds, QidHolds, EncodeIs
  <1>4. CASE m.type \in {"RAuth", "RAttach"}
    BY <1>3, <1>4 DEF EncodePayload
  <1>5. CASE m.type = "ROpen"
    <2> PICK zero : zero = LittleEndian(0, Width["u32"])
      OBVIOUS
    <2>1. zero \in Seq(Octets)
      BY KindsAre, LimitPositive, LittleEndianType
    <2>2. EncodePayload(m) = qid \o zero
      BY <1>5 DEF EncodePayload
    <2> QED BY <1>3, <2>1, <2>2, ConcatProperties
  <1>6. CASE m.type = "RWalk"
    <2> PICK size : size = LittleEndian(m.n, Width["u16"])
      OBVIOUS
    <2> PICK qids : qids = Qids(m.n)
      OBVIOUS
    <2>1. m.n \in Nat
      <3>1. m.n \in 0 .. Limit("u16") - 1
        BY <1>6 DEF Content, Holds
      <3> QED BY <3>1, KindsAre, LimitPositive
    <2>2. size \in Seq(Octets) /\ qids \in Seq(Octets)
      BY <2>1, KindsAre, LimitPositive, LittleEndianType, QidsAre
    <2>3. EncodePayload(m) = size \o qids
      BY <1>6 DEF EncodePayload, Qids
    <2> QED BY <2>2, <2>3, ConcatProperties
  <1>7. CASE m.type = "RRead"
    <2> PICK data : data = m.data
      OBVIOUS
    <2>1. SizeHolds("u32", data)
      BY <1>7 DEF Content
    <2>2. EncodePayload(m) = Sized("u32", data) /\ "u32" \in Kinds
      BY <1>7, KindsAre DEF EncodePayload
    <2> QED BY <2>1, <2>2, SizedIs
  <1>8. CASE m.type = "RStat"
    <2> PICK s : s = EncodeStat(m.stats[1], <<>>)
      OBVIOUS
    <2>1. SizeHolds("u16", s)
      BY <1>8 DEF Content
    <2>2. EncodePayload(m) = Sized("u16", s) /\ "u16" \in Kinds
      BY <1>8, KindsAre DEF EncodePayload
    <2> QED BY <2>1, <2>2, SizedIs
  <1>9. CASE m.type = "RClunk"
    BY <1>9 DEF EncodePayload
  <1> QED BY <1>1, <1>2, <1>4, <1>5, <1>6, <1>7, <1>8, <1>9 DEF ReplyNames

\* The kinds of a message's header: its length, type and tag.
HeaderKinds == <<"u32", "u8", "u16">>

\* The pieces of a frame: its length, code, tag and payload, each behind the other.
FrameIs(m, frame, size, code, tag, payload) ==
    /\ frame \in Seq(Octets) /\ payload \in Seq(Octets)
    /\ size = Len(frame) /\ size \in 0 .. Limit("u32") - 1
    /\ FieldAt(frame, 0, "u32", size, Width["u32"])
    /\ FieldAt(frame, Width["u32"], "u8", code, Width["u32"] + Width["u8"])
    /\ FieldAt(frame, Width["u32"] + Width["u8"], "u16", tag,
               Width["u32"] + Width["u8"] + Width["u16"])
    /\ StandsAt(frame, Width["u32"] + Width["u8"] + Width["u16"], payload)
    /\ size >= Width["u32"]
    /\ SubSeq(frame, 1, Width["u32"]) = LittleEndian(size, Width["u32"])

LaidOut(frame, le, ce, te, payload) == frame = le \o ((ce \o te) \o payload)

\* The rows joined into a frame, each at its place.
LEMMA Laid ==
  ASSUME NEW le \in Seq(Octets), NEW ce \in Seq(Octets), NEW te \in Seq(Octets),
         NEW payload \in Seq(Octets), NEW frame \in Seq(Octets),
         LaidOut(frame, le, ce, te, payload)
  PROVE  /\ StandsAt(frame, 0, le) /\ StandsAt(frame, Len(le), ce)
         /\ StandsAt(frame, Len(le) + Len(ce), te)
         /\ StandsAt(frame, Len(le) + Len(ce) + Len(te), payload)
  <1>1. PICK head : head = ce \o te
    OBVIOUS
  <1>2. PICK body : body = head \o payload
    OBVIOUS
  <1>3. head \in Seq(Octets) /\ Len(head) = Len(ce) + Len(te)
    BY <1>1, ConcatProperties
  <1>4. body \in Seq(Octets)
    BY <1>2, <1>3, ConcatProperties
  <1>5. Len(le) \in Nat /\ Len(ce) \in Nat /\ Len(te) \in Nat
    BY LenProperties
  <1>6. StandsAt(frame, 0, le) /\ StandsAt(frame, 0 + Len(le), body)
    <2>1. StandsAt(frame, 0, frame)
      BY DEF StandsAt
    <2>2. StandsAt(frame, 0, le \o body)
      BY <1>1, <1>2, <2>1, Zenon DEF LaidOut
    <2> QED BY <1>4, <2>2, StandsBehind
  <1>7. StandsAt(frame, Len(le), head) /\ StandsAt(frame, Len(le) + Len(head), payload)
    <2>1. 0 + Len(le) = Len(le)
      BY <1>5
    <2>2. StandsAt(frame, Len(le), head \o payload)
      BY <1>2, <1>6, <2>1, Zenon
    <2> QED BY <1>3, <1>5, <2>2, StandsBehind
  <1>8. StandsAt(frame, Len(le), ce) /\ StandsAt(frame, Len(le) + Len(ce), te)
    <2>1. StandsAt(frame, Len(le), ce \o te)
      BY <1>1, <1>7, Zenon
    <2> QED BY <1>5, <2>1, StandsBehind
  <1>9. Len(le) + Len(head) = Len(le) + Len(ce) + Len(te)
    <2> PICK a : a = Len(le)
      OBVIOUS
    <2> PICK b : b = Len(ce)
      OBVIOUS
    <2> PICK c : c = Len(te)
      OBVIOUS
    <2>1. a \in Nat /\ b \in Nat /\ c \in Nat /\ Len(head) = b + c
      BY <1>3, <1>5, Zenon
    <2>2. a + (b + c) = a + b + c
      BY <2>1
    <2> QED BY <2>1, <2>2, Zenon
  <1> QED BY <1>6, <1>7, <1>8, <1>9, Zenon

\* A frame has them.
LEMMA FramePieces ==
  ASSUME NEW m, m.type \in ReplyNames, Content(m), SizeHolds("u32", Frame(m))
  PROVE  FrameIs(m, Frame(m), Len(Frame(m)), Code(m.type), 0, EncodePayload(m))
  <1> PICK frame : frame = Frame(m)
    OBVIOUS
  <1> PICK payload : payload = EncodePayload(m)
    OBVIOUS
  <1> PICK code : code = Code(m.type)
    OBVIOUS
  <1> PICK w4 : w4 = Width["u32"]
    OBVIOUS
  <1> PICK w1 : w1 = Width["u8"]
    OBVIOUS
  <1> PICK w2 : w2 = Width["u16"]
    OBVIOUS
  <1> PICK ce : ce = LittleEndian(code, w1)
    OBVIOUS
  <1> PICK te : te = LittleEndian(0, w2)
    OBVIOUS
  <1>head. PICK head : head = ce \o te
    OBVIOUS
  <1>body. PICK body : body = head \o payload
    OBVIOUS
  <1> PICK l : l = w4 + Len(body)
    OBVIOUS
  <1> PICK le : le = LittleEndian(l, w4)
    OBVIOUS
  <1>1. frame = le \o body
    BY <1>head, <1>body, Zenon DEF Frame
  <1>2. /\ w4 \in Nat \ {0} /\ w1 \in Nat \ {0} /\ w2 \in Nat \ {0}
        /\ Limit("u32") \in Nat /\ Limit("u8") \in Nat /\ Limit("u16") \in Nat \ {0}
        /\ "u32" \in Kinds /\ "u8" \in Kinds /\ "u16" \in Kinds
    BY KindsAre, LimitPositive
  <1>3. code \in 0 .. Limit("u8") - 1 /\ code \in Nat /\ payload \in Seq(Octets)
    BY <1>2, CodeIs, PayloadIs
  <1>4. ce \in Seq(Octets) /\ Len(ce) = w1 /\ te \in Seq(Octets) /\ Len(te) = w2
    BY <1>2, <1>3, LittleEndianType
  <1>5. head \in Seq(Octets) /\ Len(head) = w1 + w2
    BY <1>4, <1>head, ConcatProperties
  <1>6. body \in Seq(Octets) /\ Len(body) \in Nat
    BY <1>3, <1>5, <1>body, ConcatProperties
  <1>7. l \in Nat /\ l >= w4
    BY <1>2, <1>6
  <1>8. le \in Seq(Octets) /\ Len(le) = w4
    BY <1>2, <1>7, LittleEndianType
  <1>9. /\ frame \in Seq(Octets) /\ Len(frame) = l /\ l < Limit("u32")
    <2>1. frame \in Seq(Octets) /\ Len(frame) = Len(le) + Len(body)
      BY <1>1, <1>6, <1>8, ConcatProperties
    <2>2. Len(frame) < Limit("u32")
      BY DEF SizeHolds
    <2> QED BY <1>8, <2>1, <2>2
  <1>10. l \in 0 .. Limit("u32") - 1 /\ 0 \in 0 .. Limit("u16") - 1
    BY <1>2, <1>7, <1>9
  <1> PICK p : p = w4 + w1
    OBVIOUS
  <1> PICK q : q = w4 + w1 + w2
    OBVIOUS
  <1>11. /\ StandsAt(frame, 0, le) /\ StandsAt(frame, w4, ce)
         /\ StandsAt(frame, p, te) /\ StandsAt(frame, q, payload)
    <2>1. LaidOut(frame, le, ce, te, payload)
      BY <1>1, <1>head, <1>body, Zenon DEF LaidOut
    <2>2. p = Len(le) + Len(ce) /\ q = Len(le) + Len(ce) + Len(te)
      BY <1>4, <1>8, Zenon
    <2>3. /\ StandsAt(frame, 0, le) /\ StandsAt(frame, Len(le), ce)
          /\ StandsAt(frame, Len(le) + Len(ce), te)
          /\ StandsAt(frame, Len(le) + Len(ce) + Len(te), payload)
      BY <1>3, <1>4, <1>8, <1>9, <2>1, Laid
    <2> QED BY <1>8, <2>2, <2>3, Zenon
  <1>14. FieldAt(frame, 0, "u32", l, w4)
    <2>1. w4 = 0 + w4
      BY <1>2
    <2> QED BY <1>2, <1>10, <1>11, <2>1 DEF FieldAt
  <1>15. FieldAt(frame, w4, "u8", code, p)
    BY <1>2, <1>3, <1>11 DEF FieldAt
  <1>16. FieldAt(frame, p, "u16", 0, q)
    BY <1>2, <1>10, <1>11 DEF FieldAt
  <1>17. SubSeq(frame, 1, w4) = le
    <2>1. 0 \in 0 .. Len(frame) /\ Rest(frame, 0) = frame
      <3>1. ReadTo(View(frame), frame, 0, <<>>)
        BY <1>9, ReadNothing
      <3>2. View(frame).rest = Rest(frame, 0)
        BY <3>1, ReadValues
      <3>3. View(frame).rest = frame
        BY DEF View
      <3> QED BY <1>7, <1>9, <3>2, <3>3
    <2>2. SubSeq(Rest(frame, 0), 1, Len(le)) = le
      BY <1>8, <1>9, <1>11, <2>1, RestBegins
    <2> QED BY <1>8, <2>1, <2>2
  <1> QED BY <1>3, <1>7, <1>9, <1>10, <1>11, <1>14, <1>15, <1>16, <1>17, Zenon DEF FrameIs

\* The header is read.
LEMMA ReadHeader ==
  ASSUME NEW m, NEW frame, NEW size, NEW code, NEW tag, NEW payload,
         FrameIs(m, frame, size, code, tag, payload)
  PROVE  ReadTo(ParseFields(View(frame), HeaderKinds), frame,
                Width["u32"] + Width["u8"] + Width["u16"], <<size, code, tag>>)
  <1> PICK w4 : w4 = Width["u32"]
    OBVIOUS
  <1> PICK p : p = w4 + Width["u8"]
    OBVIOUS
  <1> PICK q : q = w4 + Width["u8"] + Width["u16"]
    OBVIOUS
  <1> PICK at : at = [k \in 0 .. 3 |-> IF k = 0 THEN 0 ELSE IF k = 1 THEN w4
                                       ELSE IF k = 2 THEN p ELSE q]
    OBVIOUS
  <1> PICK values : values = <<size, code, tag>>
    OBVIOUS
  <1>1. /\ frame \in Seq(Octets) /\ FieldAt(frame, 0, "u32", size, w4)
        /\ FieldAt(frame, w4, "u8", code, p) /\ FieldAt(frame, p, "u16", tag, q)
    BY Zenon DEF FrameIs
  <1>2. at[0] = 0 /\ at[1] = w4 /\ at[2] = p /\ at[3] = q
    OBVIOUS
  <1>3. /\ DOMAIN HeaderKinds = 1 .. 3 /\ HeaderKinds[1] = "u32" /\ HeaderKinds[2] = "u8"
        /\ HeaderKinds[3] = "u16"
        /\ values[1] = size /\ values[2] = code /\ values[3] = tag
    BY DEF HeaderKinds
  <1>4. RowAt(frame, at, 3, HeaderKinds, values)
    <2>1. \A k \in 1 .. 3 : (k = 1 /\ k - 1 = 0) \/ (k = 2 /\ k - 1 = 1) \/ (k = 3 /\ k - 1 = 2)
      OBVIOUS
    <2>2. ASSUME NEW k \in 1 .. 3
          PROVE  FieldAt(frame, at[k - 1], HeaderKinds[k], values[k], at[k])
      <3>1. CASE k = 1 /\ k - 1 = 0
        BY <1>1, <1>2, <1>3, <3>1, Zenon
      <3>2. CASE k = 2 /\ k - 1 = 1
        BY <1>1, <1>2, <1>3, <3>2, Zenon
      <3>3. CASE k = 3 /\ k - 1 = 2
        BY <1>1, <1>2, <1>3, <3>3, Zenon
      <3> QED BY <2>1, <3>1, <3>2, <3>3
    <2> QED BY <2>2 DEF RowAt
  <1> PICK none : none = <<>>
    OBVIOUS
  <1> PICK v : v = View(frame)
    OBVIOUS
  <1>5. ReadTo(v, frame, at[0], none)
    BY <1>1, <1>2, ReadNothing
  <1> PICK n : n = 3
    OBVIOUS
  <1> PICK u : u = ParseFields(v, HeaderKinds)
    OBVIOUS
  <1>6. ReadTo(u, frame, at[n], none \o Until(values, n))
    <2>1. n \in Nat /\ DOMAIN HeaderKinds = 1 .. n /\ RowAt(frame, at, n, HeaderKinds, values)
      BY <1>3, <1>4
    <2> QED BY <1>1, <1>5, <2>1, ReadRow
  <1>7. none \o Until(values, n) = values
    <2>1. Until(values, 3) = values
      BY DEF Until
    <2> QED BY <2>1
  <1> QED BY <1>2, <1>6, <1>7

\* The frame of a reply is read as that reply.
THEOREM ReadFrame ==
  ASSUME NEW m, m.type \in ReplyNames, Content(m), SizeHolds("u32", Frame(m))
  PROVE  parseMessage(Frame(m)) = {m}
  <1> PICK frame : frame = Frame(m)
    OBVIOUS
  <1> PICK payload : payload = EncodePayload(m)
    OBVIOUS
  <1> PICK code : code = Code(m.type)
    OBVIOUS
  <1> PICK tag : tag = 0
    OBVIOUS
  <1> PICK size : size = Len(frame)
    OBVIOUS
  <1> PICK q : q = Width["u32"] + Width["u8"] + Width["u16"]
    OBVIOUS
  <1>1. FrameIs(m, frame, size, code, tag, payload)
    BY FramePieces
  <1>2. frame \in Seq(Octets) /\ StandsAt(frame, q, payload)
    BY <1>1, Zenon DEF FrameIs
  <1> PICK values : values = <<size, code, tag>>
    OBVIOUS
  <1> PICK head : head = ParseFields(View(frame), HeaderKinds)
    OBVIOUS
  <1>3. ReadTo(head, frame, q, values)
    BY <1>1, ReadHeader
  <1>4. head.thrown = FALSE /\ head.values = values
    BY <1>3, ReadWell
  <1>5. values[2] = code
    OBVIOUS
  <1> PICK r : r = WithoutValues(head)
    OBVIOUS
  <1>6. ReadTo(r, frame, q, <<>>)
    BY <1>2, <1>3, Emptied
  <1>7. ReadAs(m, frame, q, r)
    BY <1>2, <1>6, ReadPayload
  <1> PICK v : v = parseMessagePayload(m.type, r)
    OBVIOUS
  <1>8. v.thrown = FALSE /\ v.beyond = FALSE /\ Payload(m.type, v.values) = m
    BY <1>7 DEF ReadAs, HasRead
  <1>9. code \in DOMAIN TypeNames /\ TypeNames[code] = m.type
    BY CodeIs
  <1> DEFINE type == TypeNames[head.values[2]]
             u == parseMessagePayload(type, [head EXCEPT !.values = <<>>])
  <1>10. parseMessage(frame) =
           IF head.thrown \/ head.values[2] \notin DOMAIN TypeNames THEN {Thrown}
           ELSE (IF u.thrown \/ (u.beyond /\ type = "RStat") THEN {Thrown} ELSE {})
                \cup (IF u.beyond THEN {Crash} ELSE {})
                \cup (IF u.thrown THEN {} ELSE {Payload(type, u.values)})
    BY Zenon DEF parseMessage, HeaderKinds
  <1>11. head.values[2] = code /\ type = m.type
    BY <1>4, <1>5, <1>9, Zenon
  <1>12. u = v
    BY <1>11, Zenon DEF WithoutValues
  <1> HIDE DEF u, type
  <1>13. parseMessage(frame) = {} \cup {} \cup {m}
    <2>1. head.thrown = FALSE /\ head.values[2] \in DOMAIN TypeNames
      BY <1>4, <1>9, <1>11, Zenon
    <2>2. u.thrown = FALSE /\ u.beyond = FALSE /\ Payload(type, u.values) = m
      BY <1>8, <1>11, <1>12, Zenon
    <2> QED BY <1>10, <2>1, <2>2, Zenon
  <1> QED BY <1>13

-----------------------------------------------------------------------------
(* The octets on their way                                                  *)

\* The octets of whole frames, but for the front of the first and, when the
\* connection is lost, the end of the last.
IsQueue(q, c) ==
    /\ q \in Seq(Parts)
    /\ \A i \in 1 .. Len(q) : i > 1 => q[i].from = 0
    /\ \A i \in 1 .. Len(q) : q[i].to < Len(Frames[q[i].msg]) => i = Len(q) /\ c = FALSE

\* The parts of it.
LEMMA QueueIs ==
  ASSUME NEW q, NEW c, IsQueue(q, c)
  PROVE  /\ q \in Seq(Parts) /\ Len(q) \in Nat /\ DOMAIN q = 1 .. Len(q)
         /\ \A i \in 1 .. Len(q) : q[i] \in Parts /\ (i > 1 => q[i].from = 0)
         /\ \A i \in 1 .. Len(q) : q[i].to < Len(Frames[q[i].msg]) => i = Len(q) /\ c = FALSE
  <1>1. q \in Seq(Parts)
    BY DEF IsQueue
  <1>2. Len(q) \in Nat /\ DOMAIN q = 1 .. Len(q) /\ \A i \in 1 .. Len(q) : q[i] \in Parts
    BY <1>1, LenProperties, ElementOfSeq
  <1> QED BY <1>1, <1>2 DEF IsQueue

\* What is behind the first i of a row, and they.
IsBehind(s, old, i) == s = SubSeq(old, i + 1, Len(old))
IsFront(s, old, i) == s = SubSeq(old, 1, i)
LeavesBehind(s, S, old, i) ==
    /\ s \in Seq(S) /\ Len(s) = Len(old) - i
    /\ \A j \in 1 .. Len(old) - i : s[j] = old[i + j]

\* A row with one element replaced, and with one more.
IsReplaced(s, old, i, e) == s = [old EXCEPT ![i] = e]
IsOneMore(s, old, e) == s = old \o <<e>>

\* A part that begins, or ends, elsewhere.
BeginsAt(new, part, from) == new = [part EXCEPT !.from = from]
EndsAt(new, part, to) == new = [part EXCEPT !.to = to]

\* What is behind the first i of a row.
LEMMA BehindIs ==
  ASSUME NEW S, NEW old \in Seq(S), NEW i \in 0 .. Len(old), NEW s, IsBehind(s, old, i)
  PROVE  LeavesBehind(s, S, old, i)
  <1> SUFFICES /\ s \in Seq(S) /\ Len(s) = Len(old) - i
               /\ \A j \in 1 .. Len(old) - i : s[j] = old[i + j]
    BY Zenon DEF LeavesBehind
  <1> PICK n : n = Len(old)
    OBVIOUS
  <1>1. n \in Nat /\ i \in Nat /\ i <= n /\ \A j \in i + 1 .. n : old[j] \in S
    OBVIOUS
  <1>2. i + 1 \in Int
    BY <1>1
  <1> DEFINE t == SubSeq(old, i + 1, n)
  <1>3. /\ t \in Seq(S) /\ Len(t) = IF i + 1 <= n THEN n - (i + 1) + 1 ELSE 0
        /\ \A j \in 1 .. n - (i + 1) + 1 : t[j] = old[i + 1 + j - 1]
    BY <1>1, <1>2, SubSeqProperties
  <1>4. n - (i + 1) + 1 = n - i /\ \A j \in 1 .. n - i : i + 1 + j - 1 = i + j
    BY <1>1
  <1>5. s = t
    BY Zenon DEF IsBehind
  <1> HIDE DEF t
  <1>6. Len(t) = n - i
    BY <1>1, <1>3
  <1>7. \A j \in 1 .. n - i : t[j] = old[i + j]
    BY <1>3, <1>4
  <1> QED BY <1>3, <1>5, <1>6, <1>7, Zenon

\* The first i of a row.
LEMMA FrontIs ==
  ASSUME NEW S, NEW old \in Seq(S), NEW i \in 0 .. Len(old), NEW s, IsFront(s, old, i)
  PROVE  s \in Seq(S) /\ Len(s) = i /\ \A j \in 1 .. i : s[j] = old[j]
  <1>1. i \in Nat /\ i <= Len(old) /\ \A j \in 1 .. i : old[j] \in S
    OBVIOUS
  <1> DEFINE t == SubSeq(old, 1, i)
  <1>2. /\ t \in Seq(S) /\ Len(t) = IF 1 <= i THEN i - 1 + 1 ELSE 0
        /\ \A j \in 1 .. i - 1 + 1 : t[j] = old[1 + j - 1]
    BY <1>1, SubSeqProperties
  <1>3. s = t
    BY Zenon DEF IsFront
  <1> HIDE DEF t
  <1>4. Len(t) = i /\ \A j \in 1 .. i : t[j] = old[j]
    BY <1>1, <1>2
  <1> QED BY <1>2, <1>3, <1>4, Zenon

\* One element of a row is replaced,
LEMMA ReplacedIs ==
  ASSUME NEW S, NEW old \in Seq(S), NEW i \in 1 .. Len(old), NEW e \in S, NEW s,
         IsReplaced(s, old, i, e)
  PROVE  s \in Seq(S) /\ Len(s) = Len(old)
         /\ \A j \in 1 .. Len(old) : s[j] = IF j = i THEN e ELSE old[j]
  <1> DEFINE t == [old EXCEPT ![i] = e]
  <1>1. /\ t \in Seq(S) /\ Len(t) = Len(old)
        /\ \A j \in 1 .. Len(old) : t[j] = IF j = i THEN e ELSE old[j]
    BY ExceptSeq
  <1>2. s = t
    BY Zenon DEF IsReplaced
  <1> HIDE DEF t
  <1> QED BY <1>1, <1>2, Zenon

\* or put behind it.
LEMMA OneMoreIs ==
  ASSUME NEW S, NEW old \in Seq(S), NEW e \in S, NEW s, IsOneMore(s, old, e)
  PROVE  s \in Seq(S) /\ Len(s) = Len(old) + 1 /\ s[Len(old) + 1] = e
         /\ \A j \in 1 .. Len(old) : s[j] = old[j]
  <1> PICK one : one = <<e>>
    OBVIOUS
  <1>1. one \in Seq(S) /\ Len(one) = 1 /\ one[1] = e
    OBVIOUS
  <1>2. s = old \o one
    BY Zenon DEF IsOneMore
  <1>3. 1 \in 1 .. Len(one)
    BY <1>1
  <1>4. /\ s \in Seq(S) /\ Len(s) = Len(old) + Len(one)
        /\ \A j \in 1 .. Len(old) : s[j] = old[j]
        /\ \A j \in 1 .. Len(one) : s[Len(old) + j] = one[j]
    BY <1>1, <1>2, ConcatPlaces
  <1> QED BY <1>1, <1>3, <1>4, Zenon

\* A part is moved within its frame.
LEMMA MovedIs ==
  ASSUME NEW part \in Parts, NEW at \in Nat, NEW new
  PROVE  /\ BeginsAt(new, part, at) /\ at < part.to =>
              /\ new \in Parts /\ new.msg = part.msg /\ new.from = at /\ new.to = part.to
         /\ EndsAt(new, part, at) /\ part.from < at /\ at <= part.to =>
              /\ new \in Parts /\ new.msg = part.msg /\ new.from = part.from /\ new.to = at
  <1>1. /\ part \in [msg : ServerMessages, from : Nat, to : Nat]
        /\ part.from < part.to /\ part.to <= Len(Frames[part.msg])
    BY DEF Parts
  <1>2. Len(Frames[part.msg]) \in Nat
    BY <1>1, FramesAre
  <1>3. ASSUME BeginsAt(new, part, at), at < part.to
        PROVE  new \in Parts /\ new.msg = part.msg /\ new.from = at /\ new.to = part.to
    BY <1>1, <1>2, <1>3 DEF BeginsAt, Parts
  <1>4. ASSUME EndsAt(new, part, at), part.from < at, at <= part.to
        PROVE  new \in Parts /\ new.msg = part.msg /\ new.from = part.from /\ new.to = at
    BY <1>1, <1>2, <1>4 DEF EndsAt, Parts
  <1> QED BY <1>3, <1>4

\* A row of parts, shorter by the first i and by the front of the next.
IsAfter(q, old, i, from) ==
    /\ Len(q) = Len(old) - i
    /\ \A j \in 1 .. Len(q) : IF j = 1 THEN BeginsAt(q[1], old[i + 1], from)
                              ELSE q[j] = old[i + j]

\* A place in front of the end t.
StartsWithin(from, t) == from \in Nat /\ from < t

\* k octets, b of them in front of a part, are read off: what is left of it.
LEMMA StartMoved ==
  ASSUME NEW f \in Nat, NEW t \in Nat, NEW k \in Nat, NEW b \in Nat, b <= k, k < b + (t - f),
         NEW from, from = f + k - b
  PROVE  StartsWithin(from, t)
  BY DEF StartsWithin

\* Octets are read off the front of the queue.
LEMMA AfterIs ==
  ASSUME queue \in Seq(Parts), NEW k \in 0 .. Remaining
  PROVE  /\ After(k) \in Seq(Parts) /\ Whole(k) \in 0 .. Len(queue)
         /\ \E from \in Nat : /\ IsAfter(After(k), queue, Whole(k), from)
                              /\ Whole(k) < Len(queue) =>
                                   from = queue[Whole(k) + 1].from + k - Before(Whole(k))
  <1> PICK i : i = Whole(k)
    OBVIOUS
  <1> PICK n : n = Len(queue)
    OBVIOUS
  <1> PICK b : b = Before(i)
    OBVIOUS
  <1>1. /\ n \in Nat /\ i \in 0 .. n /\ b \in Nat /\ b <= k
        /\ i < n => k < Before(i + 1) /\ Before(i + 1) = b + Size(queue[i + 1])
        /\ k \in Nat /\ \A j \in 1 .. n : queue[j] \in Parts
    <2>1. /\ n \in Nat /\ \A l \in 0 .. n : Before(l) \in Nat
          /\ \A l \in 1 .. n : Before(l) = Before(l - 1) + Size(queue[l])
          /\ \A j \in 1 .. n : queue[j] \in Parts
      BY BeforeSteps
    <2>2. i \in 0 .. n /\ b <= k /\ (i < n => k < Before(i + 1))
      BY WholeIs
    <2>3. i < n => i + 1 \in 1 .. n /\ (i + 1) - 1 = i
      BY <2>1, <2>2
    <2>4. k \in Nat
      BY <2>1 DEF Remaining
    <2> QED BY <2>1, <2>2, <2>3, <2>4
  <1>2. CASE i = n
    <2>1. After(k) = <<>>
      BY <1>2, Zenon DEF After
    <2>2. IsAfter(<<>>, queue, i, 0)
      BY <1>1, <1>2 DEF IsAfter
    <2> QED BY <1>1, <1>2, <2>1, <2>2
  <1>3. CASE i < n
    <2> PICK s : IsBehind(s, queue, i)
      BY Zenon DEF IsBehind
    <2> PICK part : part = queue[i + 1]
      OBVIOUS
    <2> PICK from : from = part.from + k - b
      OBVIOUS
    <2>1. s \in Seq(Parts) /\ Len(s) = n - i /\ \A j \in 1 .. n - i : s[j] = queue[i + j]
      <3>1. i \in 0 .. Len(queue) /\ queue \in Seq(Parts)
        BY <1>1
      <3>2. /\ s \in Seq(Parts) /\ Len(s) = Len(queue) - i
            /\ \A j \in 1 .. Len(queue) - i : s[j] = queue[i + j]
        <4>1. LeavesBehind(s, Parts, queue, i)
          BY Zenon, <3>1, BehindIs
        <4> QED BY Zenon, <4>1 DEF LeavesBehind
      <3> QED BY <3>2, Zenon
    <2>2. part \in Parts /\ s[1] = part /\ 1 \in 1 .. Len(s)
      BY <1>1, <1>3, <2>1
    <2> PICK new : BeginsAt(new, part, from)
      BY Zenon DEF BeginsAt
    <2>3. IsReplaced(After(k), s, 1, new)
      <3>1. i # n
        BY <1>1, <1>3
      <3>2. After(k) = [s EXCEPT ![1].from = s[1].from + k - b]
        BY <3>1, Zenon DEF After, IsBehind
      <3>3. After(k) = [s EXCEPT ![1] = [s[1] EXCEPT !.from = s[1].from + k - b]]
        BY <3>2, Zenon
      <3> QED BY <2>2, <3>3, Zenon DEF BeginsAt, IsReplaced
    <2>4. /\ part.from \in Nat /\ part.to \in Nat /\ Size(part) = part.to - part.from
      BY <2>2, PartIs DEF Size
    <2>5. from \in Nat /\ from < part.to
      <3>f. PICK f : f = part.from
        OBVIOUS
      <3>t. PICK t : t = part.to
        OBVIOUS
      <3>1. k < b + Size(queue[i + 1])
        BY <1>1, <1>3
      <3>2. k < b + (t - f)
        BY Zenon, <2>4, <3>1, <3>f, <3>t
      <3>3. f \in Nat /\ t \in Nat /\ k \in Nat /\ b \in Nat /\ b <= k /\ from = f + k - b
        BY Zenon, <1>1, <2>4, <3>f, <3>t
      <3>4. StartsWithin(from, t)
        BY Zenon, <3>2, <3>3, StartMoved
      <3> QED BY Zenon, <3>4, <3>t DEF StartsWithin
    <2>6. new \in Parts
      BY <2>2, <2>5, MovedIs
    <2> PICK q : q = After(k)
      OBVIOUS
    <2>7. q \in Seq(Parts) /\ Len(q) = n - i
          /\ \A j \in 1 .. n - i : q[j] = IF j = 1 THEN new ELSE s[j]
      BY <2>1, <2>2, <2>3, <2>6, ReplacedIs
    <2>8. IsAfter(q, queue, i, from)
      BY <2>1, <2>7 DEF IsAfter
    <2> QED BY <1>1, <2>5, <2>7, <2>8
  <1> QED BY <1>1, <1>2, <1>3

\* What is left is a queue still,
LEMMA AfterQueue ==
  ASSUME IsQueue(queue, connected), NEW k \in 0 .. Remaining
  PROVE  IsQueue(After(k), connected)
  <1> PICK q : q = After(k)
    OBVIOUS
  <1> PICK i : i = Whole(k)
    OBVIOUS
  <1> PICK n : n = Len(queue)
    OBVIOUS
  <1>1. /\ queue \in Seq(Parts) /\ n \in Nat
        /\ \A j \in 1 .. n : queue[j] \in Parts /\ (j > 1 => queue[j].from = 0)
        /\ \A j \in 1 .. n : queue[j].to < Len(Frames[queue[j].msg]) => j = n /\ connected = FALSE
    BY QueueIs
  <1> PICK from \in Nat : IsAfter(q, queue, i, from)
    BY <1>1, AfterIs
  <1>2. q \in Seq(Parts) /\ i \in 0 .. n
    BY <1>1, AfterIs
  <1>3. /\ Len(q) = n - i /\ i \in Nat
        /\ \A j \in 1 .. Len(q) : IF j = 1 THEN BeginsAt(q[1], queue[i + 1], from)
                                  ELSE q[j] = queue[i + j]
    BY <1>1, <1>2 DEF IsAfter
  <1>4. ASSUME NEW j \in 1 .. Len(q)
        PROVE  /\ i + j \in 1 .. n /\ (i + j = n => j = Len(q))
               /\ q[j].to = queue[i + j].to /\ q[j].msg = queue[i + j].msg
               /\ j > 1 => q[j].from = queue[i + j].from
    <2>1. i + j \in 1 .. n /\ (i + j = n => j = Len(q))
      BY <1>1, <1>3
    <2>2. CASE j = 1
      <3> PICK part : part = queue[i + 1]
        OBVIOUS
      <3>1. part \in [msg : ServerMessages, from : Nat, to : Nat]
        BY <1>1, <2>1, <2>2 DEF Parts
      <3>2. BeginsAt(q[j], part, from)
        BY <1>3, <2>2
      <3>3. q[j].to = part.to /\ q[j].msg = part.msg
        BY <3>1, <3>2 DEF BeginsAt
      <3> QED BY <2>1, <2>2, <3>3
    <2>3. CASE j # 1
      BY <1>3, <2>1, <2>3
    <2> QED BY <2>1, <2>2, <2>3
  <1>5. \A j \in 1 .. Len(q) : j > 1 => q[j].from = 0
    <2> SUFFICES ASSUME NEW j \in 1 .. Len(q), j > 1 PROVE q[j].from = 0
      OBVIOUS
    <2>1. i + j \in 1 .. n /\ i + j > 1 /\ q[j].from = queue[i + j].from
      BY <1>3, <1>4
    <2> QED BY <1>1, <2>1
  <1>6. \A j \in 1 .. Len(q) :
          q[j].to < Len(Frames[q[j].msg]) => j = Len(q) /\ connected = FALSE
    BY <1>1, <1>4
  <1> QED BY <1>2, <1>5, <1>6, Zenon DEF IsQueue

\* A place within a stretch, counted from its beginning.
LEMMA CutPlace ==
  ASSUME NEW from \in Nat, NEW end \in Nat, NEW b \in Nat, NEW k \in Nat, k > b,
         k < b + (end - from), NEW to, to = from + k - b
  PROVE  to \in Nat /\ from < to /\ to < end
  OBVIOUS

\* and so is what comes when the connection is lost.
LEMMA FirstQueue ==
  ASSUME IsQueue(queue, connected), NEW k \in 0 .. Remaining
  PROVE  /\ IsQueue(First(k), FALSE) /\ Len(First(k)) <= Len(queue)
         /\ \A j \in 1 .. Len(First(k)) : First(k)[j].msg = queue[j].msg
                                          /\ First(k)[j].from = queue[j].from
         /\ k = Before(Whole(k)) => IsFront(First(k), queue, Whole(k))
         /\ Len(First(k)) \in {Whole(k), Whole(k) + 1}
  <1> PICK i : i = Whole(k)
    OBVIOUS
  <1> PICK n : n = Len(queue)
    OBVIOUS
  <1> PICK b : b = Before(i)
    OBVIOUS
  <1> PICK s : IsFront(s, queue, i)
    BY Zenon DEF IsFront
  <1>1. /\ queue \in Seq(Parts) /\ n \in Nat
        /\ \A j \in 1 .. n : queue[j] \in Parts /\ (j > 1 => queue[j].from = 0)
        /\ \A j \in 1 .. n : queue[j].to < Len(Frames[queue[j].msg]) => j = n /\ connected = FALSE
    BY QueueIs
  <1>2. /\ i \in 0 .. n /\ b \in Nat /\ b <= k /\ k \in Nat
        /\ i < n => k < Before(i + 1) /\ Before(i + 1) = b + Size(queue[i + 1])
        /\ i = n => k = b
    <2>1. /\ \A l \in 0 .. n : Before(l) \in Nat
          /\ \A l \in 1 .. n : Before(l) = Before(l - 1) + Size(queue[l])
      BY <1>1, BeforeSteps
    <2>2. i \in 0 .. n /\ b <= k /\ (i < n => k < Before(i + 1)) /\ (i = n => k = Remaining)
      BY <1>1, WholeIs
    <2>3. i < n => i + 1 \in 1 .. n /\ (i + 1) - 1 = i
      BY <1>1, <2>2
    <2>4. k \in Nat /\ Remaining = Before(n)
      BY <1>1, <2>1 DEF Remaining
    <2> QED BY <2>1, <2>2, <2>3, <2>4
  <1>3. s \in Seq(Parts) /\ Len(s) = i /\ \A j \in 1 .. i : s[j] = queue[j]
    BY <1>1, <1>2, FrontIs
  <1>4. CASE k = b
    <2>1. First(k) = s \o <<>>
      BY <1>4, Zenon DEF First, IsFront
    <2>2. First(k) = s
      BY <1>3, <2>1
    <2>3. IsQueue(s, FALSE)
      <3>1. \A j \in 1 .. Len(s) : j \in 1 .. n /\ s[j] = queue[j] /\ (j = n => j = Len(s))
        BY <1>1, <1>2, <1>3
      <3> QED BY <1>1, <1>3, <3>1 DEF IsQueue
    <2>4. i <= n /\ i \in {i, i + 1} /\ \A j \in 1 .. i : s[j].msg = queue[j].msg
                                                           /\ s[j].from = queue[j].from
      BY <1>1, <1>2, <1>3
    <2> QED BY <1>3, <2>2, <2>3, <2>4, Zenon
  <1>5. CASE k # b
    <2> PICK part : part = queue[i + 1]
      OBVIOUS
    <2> PICK to : to = part.from + k - b
      OBVIOUS
    <2> PICK new : EndsAt(new, part, to)
      BY Zenon DEF EndsAt
    <2> PICK f : f = First(k)
      OBVIOUS
    <2>1. i < n /\ k > b /\ i + 1 \in 1 .. n /\ part \in Parts
      BY <1>1, <1>2, <1>5
    <2>2. IsOneMore(f, s, new)
      BY <1>5, Zenon DEF First, IsFront, IsOneMore, EndsAt
    <2>3. /\ part.from \in Nat /\ part.to \in Nat /\ part.msg \in ServerMessages
          /\ part.from < part.to /\ part.to <= Len(Frames[part.msg])
          /\ Size(part) = part.to - part.from
      BY <2>1, PartIs DEF Size
    <2>4. to \in Nat /\ part.from < to /\ to < part.to
      <3>1. k < b + (part.to - part.from)
        BY <1>2, <2>1, <2>3, Zenon
      <3>2. k \in Nat /\ b \in Nat
        BY <1>2
      <3> QED BY <2>1, <2>3, <3>1, <3>2, CutPlace, Zenon
    <2>5. /\ new \in Parts /\ new.msg = part.msg /\ new.from = part.from
      BY <2>1, <2>3, <2>4, MovedIs
    <2>6. /\ f \in Seq(Parts) /\ Len(f) = i + 1 /\ f[i + 1] = new
          /\ \A j \in 1 .. i : f[j] = queue[j]
      <3>1. /\ f \in Seq(Parts) /\ Len(f) = Len(s) + 1 /\ f[Len(s) + 1] = new
            /\ \A j \in 1 .. Len(s) : f[j] = s[j]
        BY <1>3, <2>2, <2>5, OneMoreIs
      <3> QED BY <1>3, <3>1, Zenon
    <2>7. \A j \in 1 .. Len(f) : /\ j \in 1 .. n /\ f[j].msg = queue[j].msg
                                 /\ f[j].from = queue[j].from
                                 /\ j # i + 1 => f[j] = queue[j] /\ j # n
      <3> SUFFICES ASSUME NEW j \in 1 .. Len(f)
                   PROVE  /\ j \in 1 .. n /\ f[j].msg = queue[j].msg
                          /\ f[j].from = queue[j].from
                          /\ j # i + 1 => f[j] = queue[j] /\ j # n
        OBVIOUS
      <3>1. j \in 1 .. n /\ (j # i + 1 => j \in 1 .. i /\ j # n)
        BY <1>1, <1>2, <2>1, <2>6
      <3> QED BY <2>5, <2>6, <3>1
    <2>8. IsQueue(f, FALSE)
      <3>1. ASSUME NEW j \in 1 .. Len(f), j > 1 PROVE f[j].from = 0
        <4>1. j \in 1 .. n /\ f[j].from = queue[j].from
          BY <2>7, Zenon
        <4>2. queue[j].from = 0
          BY <1>1, <3>1, <4>1, Zenon
        <4> QED BY <4>1, <4>2, Zenon
      <3>2. \A j \in 1 .. Len(f) : f[j].to < Len(Frames[f[j].msg]) => j = Len(f)
        BY <1>1, <2>6, <2>7
      <3> QED BY <2>6, <3>1, <3>2 DEF IsQueue
    <2>9. i + 1 <= n /\ i + 1 \in {i, i + 1}
      BY <1>1, <1>2, <2>1
    <2> QED BY <1>5, <2>6, <2>7, <2>8, <2>9
  <1> QED BY <1>4, <1>5

\* A frame is what its length says, which stands in front.
LEMMA FrameHas ==
  ASSUME NEW m \in ServerMessages
  PROVE  /\ Width["u32"] \in Nat \ {0} /\ Width["u32"] <= Len(Frames[m])
         /\ Len(Frames[m]) \in Nat \ {0} /\ Len(Frames[m]) <= Allocatable
         /\ parseMessageLength(SubSeq(Frames[m], 1, Width["u32"])) = Len(Frames[m])
         /\ parseMessage(Frames[m]) = {m}
  <1> PICK frame : frame = Frames[m]
    OBVIOUS
  <1> PICK l : l = Len(frame)
    OBVIOUS
  <1> PICK w : w = Width["u32"]
    OBVIOUS
  <1>1. frame = Frame(m) /\ frame \in Seq(Octets) /\ l \in Nat /\ l <= Allocatable
    BY FramesAre
  <1>2. m.type \in ReplyNames /\ Content(m) /\ SizeHolds("u32", Frame(m))
    BY ServerAssumption, Zenon DEF ReplyNames
  <1>3. FrameIs(m, frame, l, Code(m.type), 0, EncodePayload(m))
    BY <1>1, <1>2, FramePieces, Zenon
  <1>4. /\ l \in 0 .. Limit("u32") - 1 /\ l >= w
        /\ SubSeq(frame, 1, w) = LittleEndian(l, w)
    BY <1>3, Zenon DEF FrameIs
  <1>5. w \in Nat \ {0} /\ Limit("u32") = Shift[w] /\ Limit("u32") \in Nat
    BY KindsAre, LimitPositive DEF Limit
  <1>6. LowEndianValue(LittleEndian(l, w)) = l
    <2>1. LowEndianValue(LittleEndian(l, w)) = l % Shift[w]
      BY <1>1, <1>5, IntegerRoundTrip
    <2> PICK limit : limit = Shift[w]
      OBVIOUS
    <2>2. limit \in Nat /\ l \in 0 .. limit - 1
      BY <1>4, <1>5
    <2>3. l % limit = l
      BY <2>2, WithinModulus
    <2> QED BY <2>1, <2>3
  <1>7. parseMessageLength(SubSeq(frame, 1, w)) = l
    BY <1>4, <1>6, Zenon DEF parseMessageLength
  <1>8. parseMessage(frame) = {m}
    BY <1>1, <1>2, ReadFrame, Zenon
  <1>9. l \in Nat \ {0} /\ w <= l
    BY <1>1, <1>4, <1>5
  <1> QED BY <1>1, <1>5, <1>7, <1>8, <1>9

\* The octets in front of the queue are those of the first frame.
LEMMA WireBegins ==
  ASSUME IsQueue(queue, connected), queue # <<>>, queue[1].from = 0,
         NEW n \in Nat, n <= Remaining, n <= Len(Frames[queue[1].msg])
  PROVE  /\ 1 \in 1 .. Len(queue) /\ queue[1].msg \in ServerMessages
         /\ \A j \in 1 .. n : Wire[j] = Frames[queue[1].msg][j]
         /\ n = Len(Frames[queue[1].msg]) => Before(1) = n
  <1> PICK part : part = queue[1]
    OBVIOUS
  <1> PICK frame : frame = Frames[part.msg]
    OBVIOUS
  <1> PICK l : l = Len(queue)
    OBVIOUS
  <1>1. /\ queue \in Seq(Parts) /\ l \in Nat
        /\ \A i \in 1 .. l : queue[i] \in Parts
        /\ \A i \in 1 .. l : queue[i].to < Len(Frames[queue[i].msg]) => i = l
    BY QueueIs
  <1>2. 1 \in 1 .. l
    <2>1. l # 0
      BY <1>1
    <2> QED BY <1>1, <2>1
  <1>3. /\ part \in Parts /\ part.msg \in ServerMessages /\ part.to \in Nat
        /\ part.to <= Len(frame) /\ Size(part) = part.to /\ Part(part) \in Seq(Octets)
        /\ Len(Part(part)) = part.to
        /\ \A j \in 1 .. part.to : Part(part)[j] = frame[j]
    <2>1. part \in Parts /\ part.from = 0
      BY <1>1, <1>2
    <2>2. /\ part.msg \in ServerMessages /\ part.from \in Nat /\ part.to \in Nat
          /\ part.to <= Len(frame)
          /\ Part(part) \in Seq(Octets) /\ Len(Part(part)) = Size(part)
          /\ \A j \in 1 .. Size(part) : Part(part)[j] = frame[part.from + j]
      BY <2>1, PartIs
    <2>3. Size(part) = part.to
      BY <2>1, <2>2 DEF Size
    <2>4. \A j \in 1 .. part.to : part.from + j = j
      BY <2>1, <2>2
    <2> QED BY <2>1, <2>2, <2>3, <2>4
  <1>4. /\ Before(0) = 0 /\ Before(1) = part.to /\ StandsAt(Wire, 0, Part(part))
        /\ Remaining = Before(l)
    <2>1. /\ Before(0) = 0 /\ \A i \in 1 .. l : Before(i) = Before(i - 1) + Size(queue[i])
          /\ Remaining = Before(l) /\ \A i \in 1 .. l : StandsAt(Wire, Before(i - 1), Part(queue[i]))
      BY <1>1, BeforeSteps, WireIs DEF Remaining
    <2>2. 1 - 1 = 0
      OBVIOUS
    <2>3. Before(1) = Before(0) + Size(part) /\ StandsAt(Wire, Before(0), Part(part))
      BY <1>2, <2>1, <2>2
    <2> QED BY <1>3, <2>1, <2>3
  <1>5. n <= part.to
    <2>1. CASE part.to < Len(frame)
      <3>1. l = 1
        BY <1>1, <1>2, <2>1
      <3> QED BY <1>4, <3>1
    <2>2. CASE ~(part.to < Len(frame))
      <3>1. Len(frame) \in Nat
        BY <1>3, FramesAre
      <3> QED BY <1>3, <2>2, <3>1
    <2> QED BY <2>1, <2>2
  <1>6. ASSUME NEW j \in 1 .. n PROVE Wire[j] = frame[j]
    <2>1. j \in 1 .. part.to /\ 0 + j = j
      BY <1>3, <1>5
    <2>2. Wire[0 + j] = Part(part)[j]
      BY <1>3, <1>4, <2>1 DEF StandsAt
    <2> QED BY <1>3, <2>1, <2>2
  <1>7. n = Len(frame) => Before(1) = n
    BY <1>3, <1>4, <1>5
  <1> QED BY <1>2, <1>3, <1>6, <1>7

\* Reading the whole of the first frame leaves the next, whole.
LEMMA AfterWhole ==
  ASSUME IsQueue(queue, connected), queue # <<>>, queue[1].from = 0,
         Len(Frames[queue[1].msg]) <= Remaining
  PROVE  /\ After(Len(Frames[queue[1].msg])) # <<>> =>
               After(Len(Frames[queue[1].msg]))[1].from = 0
         /\ Whole(Len(Frames[queue[1].msg])) = 1
  <1> PICK k : k = Len(Frames[queue[1].msg])
    OBVIOUS
  <1> PICK l : l = Len(queue)
    OBVIOUS
  <1>1. /\ queue \in Seq(Parts) /\ l \in Nat
        /\ \A i \in 1 .. l : queue[i] \in Parts /\ (i > 1 => queue[i].from = 0)
    BY QueueIs
  <1>2. 1 \in 1 .. l
    <2>1. l # 0
      BY <1>1
    <2> QED BY <1>1, <2>1
  <1>3. k \in Nat
    <2>1. queue[1].msg \in ServerMessages
      BY <1>1, <1>2, PartIs
    <2> QED BY <2>1, FramesAre
  <1>4. Before(1) = k /\ k \in 0 .. Remaining
    <2>1. Before(1) = k
      BY <1>3, WireBegins
    <2>2. Remaining \in Nat
      BY <1>1, WireIs
    <2> QED BY <1>3, <2>1, <2>2
  <1>5. Whole(k) = 1
    <2>1. 1 < l => k < Before(2)
      <3> SUFFICES ASSUME 1 < l PROVE k < Before(2)
        OBVIOUS
      <3>1. 1 \in 0 .. l /\ 2 \in 0 .. l
        BY <1>1
      <3> QED BY <1>1, <1>4, <3>1, BeforeGrows
    <2>2. 1 \in 0 .. l /\ 1 + 1 = 2 /\ Before(1) <= k
      BY <1>1, <1>2, <1>3, <1>4
    <2> QED BY <1>1, <1>3, <2>1, <2>2, WholeUnique
  <1> PICK q : q = After(k)
    OBVIOUS
  <1>6. q # <<>> => q[1].from = 0
    <2> SUFFICES ASSUME q # <<>> PROVE q[1].from = 0
      OBVIOUS
    <2> PICK from \in Nat : IsAfter(q, queue, 1, from) /\ (1 < l => from = queue[1 + 1].from + k - Before(1))
      BY <1>1, <1>4, <1>5, AfterIs
    <2>1. q \in Seq(Parts) /\ Len(q) = l - 1
      BY <1>1, <1>4, AfterIs DEF IsAfter
    <2>2. 1 < l /\ 1 \in 1 .. Len(q)
      BY <1>1, <1>2, <2>1
    <2>3. queue[2] \in Parts /\ queue[2].from = 0 /\ 1 + 1 = 2
      BY <1>1, <2>2
    <2>4. from = 0
      BY <1>3, <1>4, <2>2, <2>3
    <2>5. BeginsAt(q[1], queue[2], 0)
      BY <2>2, <2>3, <2>4 DEF IsAfter
    <2>6. queue[2].to \in Nat /\ 0 < queue[2].to
      BY <2>3, PartIs
    <2> QED BY <2>3, <2>5, <2>6, MovedIs
  <1> QED BY <1>5, <1>6

-----------------------------------------------------------------------------
(* While no recv has split a frame                                          *)

\* The octets are those of frames, which the client reads one by one, unless
\* some recv has split one.
WholeInv ==
    /\ connected \in BOOLEAN /\ shortRecv \in BOOLEAN /\ shortPeek \in BOOLEAN
    /\ phase \in {"peek", "read", "returned"}
    /\ IsQueue(queue, connected)
    /\ queue # <<>> /\ shortRecv = FALSE => queue[1].from = 0
    /\ phase = "read" /\ queue = <<>> => connected = FALSE
    /\ phase = "read" /\ queue # <<>> /\ shortPeek = FALSE /\ shortRecv = FALSE =>
         length = Len(Frames[queue[1].msg])
    /\ phase # "read" => shortPeek = FALSE
    /\ phase # "returned" => reply = Thrown
    /\ WholeFramesAreServers

\* It holds at first.
LEMMA WholeInit == Init => WholeInv
  <1> SUFFICES ASSUME Init PROVE WholeInv
    OBVIOUS
  <1>1. queue = <<>>
    BY DEF Init
  <1>2. IsQueue(queue, connected)
    BY <1>1 DEF IsQueue
  <1> QED BY <1>2 DEF Init, WholeInv, WholeFramesAreServers

\* The server appends a whole frame.
LEMMA WholeSends ==
  ASSUME WholeInv, NEW m \in ServerMessages, ServerSends(m)
  PROVE  WholeInv'
  <1> PICK part : part = [msg |-> m, from |-> 0, to |-> Len(Frames[m])]
    OBVIOUS
  <1> PICK n : n = Len(queue)
    OBVIOUS
  <1>1. part \in Parts /\ part.from = 0 /\ part.msg = m /\ part.to = Len(Frames[m])
    <2>1. Len(Frames[m]) \in Nat \ {0}
      BY FrameHas
    <2> QED BY <2>1 DEF Parts
  <1>2. /\ queue \in Seq(Parts) /\ n \in Nat /\ DOMAIN queue = 1 .. n
        /\ \A i \in 1 .. n : queue[i] \in Parts /\ (i > 1 => queue[i].from = 0)
        /\ \A i \in 1 .. n : queue[i].to < Len(Frames[queue[i].msg]) => i = n /\ connected = FALSE
    BY QueueIs DEF WholeInv
  <1>3. /\ connected = TRUE /\ connected' = connected /\ queue' = Append(queue, part)
        /\ UNCHANGED <<phase, length, shortPeek, reply, logged, shortRecv>>
    BY DEF ServerSends, readVars, WholeInv
  <1> PICK q : q = queue'
    OBVIOUS
  <1>4. /\ q \in Seq(Parts) /\ Len(q) = n + 1 /\ q[n + 1] = part
        /\ \A i \in 1 .. n : q[i] = queue[i]
    <2>1. q = Append(queue, part)
      BY <1>3
    <2> QED BY <1>1, <1>2, <2>1, AppendProperties
  <1>5. IsQueue(q, connected')
    <2>1. ASSUME NEW i \in 1 .. Len(q)
          PROVE  (i > 1 => q[i].from = 0) /\ ~(q[i].to < Len(Frames[q[i].msg]))
      <3>1. CASE i = n + 1
        <4>1. q[i] = part
          BY <1>4, <3>1
        <4>2. Len(Frames[m]) \in Nat
          BY FramesAre
        <4> QED BY <1>1, <4>1, <4>2
      <3>2. CASE i # n + 1
        <4>1. i \in 1 .. n
          BY <1>2, <1>4, <3>2
        <4>2. q[i] = queue[i]
          BY <1>4, <4>1
        <4> QED BY <1>2, <1>3, <4>1, <4>2
      <3> QED BY <3>1, <3>2
    <2> QED BY <1>4, <2>1 DEF IsQueue
  <1>6. q # <<>> /\ (queue # <<>> => q[1] = queue[1]) /\ (queue = <<>> => q[1].from = 0)
    <2>1. q # <<>>
      BY <1>2, <1>4
    <2>2. queue # <<>> => 1 \in 1 .. n
      BY <1>2
    <2>3. queue = <<>> => n + 1 = 1
      BY <1>2
    <2> QED BY <1>1, <1>4, <2>1, <2>2, <2>3
  <1> QED BY <1>3, <1>5, <1>6 DEF WholeInv, WholeFramesAreServers

\* The end of the queue is lost.
LEMMA WholeLoses ==
  ASSUME WholeInv, LoseOctets
  PROVE  WholeInv'
  <1>1. IsQueue(queue, connected)
    BY DEF WholeInv
  <1>2. PICK k \in 0 .. Remaining : queue' = First(k)
    BY DEF LoseOctets
  <1> PICK q : q = queue'
    OBVIOUS
  <1>3. connected' = FALSE /\ UNCHANGED <<phase, length, shortPeek, reply, logged, shortRecv>>
    BY DEF LoseOctets, readVars
  <1>4. /\ IsQueue(q, connected') /\ Len(q) <= Len(queue)
        /\ \A j \in 1 .. Len(q) : q[j].msg = queue[j].msg /\ q[j].from = queue[j].from
    BY <1>1, <1>2, <1>3, FirstQueue
  <1>5. q # <<>> => queue # <<>> /\ q[1].msg = queue[1].msg /\ q[1].from = queue[1].from
    <2>1. q \in Seq(Parts) /\ Len(q) \in Nat /\ queue \in Seq(Parts)
      BY <1>1, <1>4, QueueIs
    <2>2. q # <<>> => 1 \in 1 .. Len(q)
      BY <2>1
    <2>3. q # <<>> => queue # <<>>
      BY <1>4, <2>1
    <2> QED BY <1>4, <2>2, <2>3
  <1> QED BY <1>3, <1>4, <1>5 DEF WholeInv, WholeFramesAreServers

\* The length that is peeked is that of the first frame.
LEMMA WholePeeks ==
  ASSUME WholeInv, Peek
  PROVE  WholeInv'
  <1> PICK w : w = Width["u32"]
    OBVIOUS
  <1>1. /\ phase = "peek" /\ phase' = "read" /\ UNCHANGED <<connected, queue, reply, shortRecv>>
        /\ logged' = <<>>
    BY DEF Peek, netVars
  <1>2. PICK k \in (IF ShortRecvs THEN 1 .. w ELSE {w}), stale \in [1 .. w -> StaleOctets] :
             /\ k <= Remaining
             /\ length' = parseMessageLength(Filled(w, k, stale))
             /\ shortPeek' = (k < w)
    BY DEF Peek
  <1>3. w \in Nat \ {0} /\ k \in 1 .. w
    <2>1. w \in Nat \ {0}
      BY KindsAre, LimitPositive
    <2> QED BY <1>2, <2>1
  <1>4. IsQueue(queue, connected)
    BY DEF WholeInv
  <1>5. queue # <<>>
    <2> SUFFICES ASSUME queue = <<>> PROVE FALSE
      OBVIOUS
    <2>1. queue \in Seq(Parts)
      BY <1>4, QueueIs
    <2>2. Len(queue) = 0
      OBVIOUS
    <2>3. Remaining = 0
      BY <2>1, <2>2, BeforeSteps DEF Remaining
    <2> QED BY <1>2, <1>3, <2>3
  <1>6. ASSUME shortPeek' = FALSE, shortRecv' = FALSE
        PROVE  length' = Len(Frames[queue[1].msg])
    <2> PICK frame : frame = Frames[queue[1].msg]
      OBVIOUS
    <2>1. queue[1].from = 0 /\ k = w
      <3>1. ~(k < w)
        BY <1>2, <1>6, Zenon
      <3>2. k = w
        BY <1>3, <3>1
      <3>3. shortRecv = FALSE
        BY <1>1, <1>6, Zenon
      <3> QED BY <1>5, <3>2, <3>3 DEF WholeInv
    <2>2. queue[1].msg \in ServerMessages
      <3>1. queue \in Seq(Parts) /\ Len(queue) \in Nat /\ \A i \in 1 .. Len(queue) : queue[i] \in Parts
        BY <1>4, QueueIs
      <3>2. 1 \in 1 .. Len(queue)
        BY <1>5, <3>1
      <3> QED BY <3>1, <3>2, PartIs
    <2>3. w <= Len(frame) /\ parseMessageLength(SubSeq(frame, 1, w)) = Len(frame)
          /\ frame \in Seq(Octets)
      BY <2>2, FrameHas, FramesAre
    <2>4. \A j \in 1 .. w : Wire[j] = frame[j]
      BY <1>2, <1>3, <1>4, <1>5, <2>1, <2>3, WireBegins
    <2>5. Filled(w, w, stale) = SubSeq(frame, 1, w)
      <3> PICK s : IsFront(s, frame, w)
        BY Zenon DEF IsFront
      <3>1. w \in 0 .. Len(frame)
        BY <1>3, <2>3
      <3>2. s \in Seq(Octets) /\ Len(s) = w /\ \A j \in 1 .. w : s[j] = frame[j]
        BY <2>3, <3>1, FrontIs
      <3> PICK t : t = Filled(w, w, stale)
        OBVIOUS
      <3>3. t = [i \in 1 .. w |-> IF i <= w THEN Wire[i] ELSE stale[i]]
        BY DEF Filled
      <3>4. \A i \in 1 .. w : i <= w
        BY <1>3
      <3>5. t = [i \in 1 .. w |-> s[i]]
        BY <2>4, <3>2, <3>3, <3>4
      <3>6. s = [i \in 1 .. w |-> s[i]]
        BY <3>2
      <3> QED BY <3>5, <3>6, Zenon DEF IsFront
    <2> QED BY <1>2, <2>1, <2>3, <2>5
  <1>7. shortPeek' \in BOOLEAN
    BY <1>2
  <1> QED BY <1>1, <1>4, <1>5, <1>6, <1>7 DEF WholeInv, WholeFramesAreServers

\* What the whole of a frame is read as is what the server has sent.
LEMMA WholeReads ==
  ASSUME WholeInv, ReadData
  PROVE  /\ WholeInv'
         /\ shortRecv' = FALSE =>
              /\ queue # <<>> /\ queue[1].from = 0 /\ shortRecv = FALSE
              /\ length = Len(Frames[queue[1].msg]) /\ length <= Remaining
              /\ queue' = After(length) /\ reply' = queue[1].msg /\ Whole(length) = 1
  <1>1. /\ phase = "read" /\ length \in 1 .. Allocatable /\ phase' = "returned"
        /\ shortPeek' = FALSE /\ connected' = connected
    BY DEF ReadData
  <1>2. PICK k \in 1 .. length :
             /\ k <= Remaining
             /\ reply' \in parseMessage(Filled(length, k, [i \in 1 .. length |-> 0]))
             /\ queue' = After(k)
             /\ shortRecv' = (shortRecv \/ shortPeek \/ k < length)
    BY DEF ReadData
  <1>3. IsQueue(queue, connected) /\ shortRecv \in BOOLEAN /\ shortPeek \in BOOLEAN
    BY DEF WholeInv
  <1>4. length \in Nat /\ k \in Nat /\ k >= 1 /\ queue \in Seq(Parts) /\ Remaining \in Nat
    <2>1. queue \in Seq(Parts)
      BY <1>3, QueueIs
    <2>2. Remaining \in Nat
      BY <2>1, WireIs
    <2> QED BY <1>1, <1>2, <2>1, <2>2, AllocatableAssumption
  <1>5. queue # <<>>
    <2> SUFFICES ASSUME queue = <<>> PROVE FALSE
      OBVIOUS
    <2>1. Len(queue) = 0
      OBVIOUS
    <2>2. Remaining = 0
      BY <1>4, <2>1, BeforeSteps DEF Remaining
    <2> QED BY <1>2, <1>4, <2>2
  <1>6. IsQueue(After(k), connected)
    BY <1>2, <1>3, <1>4, AfterQueue
  <1>7. shortRecv' \in BOOLEAN
    BY <1>2, <1>3
  <1>8. ASSUME shortRecv' = FALSE
        PROVE  /\ queue[1].from = 0 /\ shortRecv = FALSE
               /\ length = Len(Frames[queue[1].msg]) /\ length <= Remaining
               /\ queue' = After(length) /\ reply' = queue[1].msg /\ Whole(length) = 1
               /\ queue[1].msg \in ServerMessages /\ (queue' # <<>> => queue'[1].from = 0)
    <2> PICK m : m = queue[1].msg
      OBVIOUS
    <2> PICK frame : frame = Frames[m]
      OBVIOUS
    <2>1. shortRecv = FALSE /\ shortPeek = FALSE /\ k = length
      <3>1. shortRecv = FALSE /\ shortPeek = FALSE /\ ~(k < length)
        BY <1>2, <1>3, <1>8, Zenon
      <3> QED BY <1>2, <1>4, <3>1
    <2>2. queue[1].from = 0 /\ length = Len(frame)
      BY <1>1, <1>5, <2>1 DEF WholeInv
    <2>3. /\ m \in ServerMessages /\ \A j \in 1 .. length : Wire[j] = frame[j]
      BY <1>2, <1>3, <1>4, <1>5, <2>1, <2>2, WireBegins
    <2>4. frame \in Seq(Octets) /\ parseMessage(frame) = {m}
      BY <2>3, FrameHas, FramesAre
    <2> PICK zeros : zeros = [i \in 1 .. length |-> 0]
      OBVIOUS
    <2>5. Filled(length, length, zeros) = frame
      <3>1. Filled(length, length, zeros) =
              [i \in 1 .. length |-> IF i <= length THEN Wire[i] ELSE zeros[i]]
        BY DEF Filled
      <3>2. \A i \in 1 .. length : i <= length
        BY <1>4
      <3>3. Filled(length, length, zeros) = [i \in 1 .. length |-> frame[i]]
        BY <2>3, <3>1, <3>2
      <3>4. frame = [i \in 1 .. length |-> frame[i]]
        BY <2>2, <2>4
      <3> QED BY <3>3, <3>4, Zenon
    <2>6. reply' = m
      BY <1>2, <2>1, <2>4, <2>5
    <2>7. (After(length) # <<>> => After(length)[1].from = 0) /\ Whole(length) = 1
      BY <1>2, <1>3, <1>5, <2>1, <2>2, AfterWhole
    <2> QED BY <1>2, <2>1, <2>2, <2>3, <2>6, <2>7
  <1>9. WholeInv'
    BY <1>1, <1>2, <1>3, <1>6, <1>7, <1>8 DEF WholeInv, WholeFramesAreServers
  <1> QED BY <1>5, <1>8, <1>9

\* A whole frame is never one that cannot be read.
LEMMA WholeFails ==
  ASSUME WholeInv, ReadFails
  PROVE  /\ WholeInv'
         /\ shortRecv' = FALSE => queue = <<>>
  <1>1. /\ phase = "read" /\ phase' = "returned" /\ reply' = Thrown /\ shortPeek' = FALSE
        /\ UNCHANGED <<connected, queue>>
        /\ shortRecv' = (shortRecv \/ (shortPeek /\ queue # <<>>))
        /\ length = 0 \/ length > Allocatable \/ (queue = <<>> /\ ~connected)
    BY DEF ReadFails, netVars
  <1>2. shortRecv \in BOOLEAN /\ shortPeek \in BOOLEAN
    BY DEF WholeInv
  <1>3. WholeInv'
    BY <1>1, <1>2 DEF WholeInv, WholeFramesAreServers
  <1>4. ASSUME shortRecv' = FALSE, queue # <<>> PROVE FALSE
    <2>1. shortRecv = FALSE /\ shortPeek = FALSE
      BY <1>1, <1>2, <1>4
    <2>2. length = Len(Frames[queue[1].msg])
      BY <1>1, <1>4, <2>1 DEF WholeInv
    <2>3. queue[1].msg \in ServerMessages
      <3>1. queue \in Seq(Parts) /\ Len(queue) \in Nat /\ \A i \in 1 .. Len(queue) : queue[i] \in Parts
        BY QueueIs DEF WholeInv
      <3>2. 1 \in 1 .. Len(queue)
        BY <1>4, <3>1
      <3> QED BY <3>1, <3>2, PartIs
    <2>4. length \in Nat \ {0} /\ length <= Allocatable
      BY <2>2, <2>3, FrameHas
    <2> QED BY <1>1, <1>4, <2>4, AllocatableAssumption
  <1> QED BY <1>3, <1>4

\* No step splits a frame without a trace.
LEMMA WholeStep == WholeInv /\ [Next]_vars => WholeInv'
  <1> SUFFICES ASSUME WholeInv, [Next]_vars PROVE WholeInv'
    OBVIOUS
  <1>1. ASSUME NEW m \in ServerMessages, ServerSends(m) PROVE WholeInv'
    BY <1>1, WholeSends
  <1>2. CASE LoseOctets
    BY <1>2, WholeLoses
  <1>3. CASE Peek
    BY <1>3, WholePeeks
  <1>4. CASE PeekFails
    BY <1>4 DEF PeekFails, netVars, WholeInv, WholeFramesAreServers
  <1>5. CASE ReadData
    BY <1>5, WholeReads
  <1>6. CASE ReadFails
    BY <1>6, WholeFails
  <1>7. CASE LogText
    BY <1>7 DEF LogText, netVars, WholeInv, WholeFramesAreServers
  <1>8. CASE UseReply
    BY <1>8 DEF UseReply, netVars, WholeInv, WholeFramesAreServers
  <1>9. CASE UNCHANGED vars
    BY <1>9 DEF vars, netVars, readVars, WholeInv, WholeFramesAreServers
  <1>10. CASE Crashed
    BY <1>9, <1>10 DEF Crashed
  <1> QED BY <1>1, <1>2, <1>3, <1>4, <1>5, <1>6, <1>7, <1>8, <1>9, <1>10 DEF Next

\* While no recv has split a frame, each message the client is given is one the
\* server has sent (readParseIncomingMessage, parseMessage).
THEOREM WholeFramesAreServersAlways == Spec => []WholeFramesAreServers
  <1>1. WholeInv => WholeFramesAreServers
    BY DEF WholeInv
  <1> QED BY <1>1, WholeInit, WholeStep, PTL DEF Spec

\* What a conforming server sends is not read where there is no memory, though
\* parseRRead, parseRStat and parseRawRStat check no size.
THEOREM OverrunNeedsShortRecvAlways == Spec => []OverrunNeedsShortRecv
  <1>1. WholeInv => OverrunNeedsShortRecv
    <2> SUFFICES ASSUME WholeInv, reply.type = "overrun", shortRecv = FALSE PROVE FALSE
      BY DEF WholeInv, OverrunNeedsShortRecv
    <2>1. reply \in ServerMessages \cup {Thrown}
      BY DEF WholeInv, WholeFramesAreServers
    <2>2. Thrown.type = "none"
      BY DEF Thrown, Parsed
    <2>3. \A m \in ServerMessages : m.type # "overrun"
      BY ServerAssumption, Zenon
    <2> QED BY <2>1, <2>2, <2>3
  <1> QED BY <1>1, WholeInit, WholeStep, PTL DEF Spec

-----------------------------------------------------------------------------
(* The stream of messages behind the octets                                 *)

\* The stream, while the client does not stand in a message.
LEMMA StreamIs ==
  ASSUME queue \in Seq(Parts), queue # <<>> => queue[1].from = 0
  PROVE  /\ Cut = FALSE /\ Len(Stream) = Len(queue) /\ Len(queue) \in Nat
         /\ Stream = [i \in 1 .. Len(queue) |-> Abstract(queue[i].msg)]
  <1>1. Len(queue) \in Nat /\ DOMAIN queue = 1 .. Len(queue)
    BY LenProperties
  <1>2. Cut = FALSE
    BY DEF Cut
  <1>3. Stream = [i \in 1 .. Len(queue) |-> Abstract(queue[i].msg)]
    BY <1>1, <1>2 DEF Stream
  <1> QED BY <1>1, <1>2, <1>3

\* The stream after a step, likewise.
LEMMA NextStreamIs ==
  ASSUME queue' \in Seq(Parts), queue' # <<>> => queue'[1].from = 0
  PROVE  /\ Cut' = FALSE /\ Len(Stream') = Len(queue') /\ Len(queue') \in Nat
         /\ Stream' = [i \in 1 .. Len(queue') |-> Abstract(queue'[i].msg)]
  <1>1. Len(queue') \in Nat /\ DOMAIN queue' = 1 .. Len(queue')
    BY LenProperties
  <1>2. Cut' = FALSE
    BY DEF Cut
  <1>3. Stream' = [i \in 1 .. Len(queue') |-> Abstract(queue'[i].msg)]
    BY <1>1, <1>2 DEF Stream
  <1> QED BY <1>1, <1>2, <1>3

\* The queue is what both need, before and after a step that splits no frame.
LEMMA WholeQueue ==
  ASSUME WholeInv, [Next]_vars, shortRecv' = FALSE
  PROVE  /\ WholeInv' /\ shortRecv = FALSE
         /\ queue \in Seq(Parts) /\ (queue # <<>> => queue[1].from = 0)
         /\ queue' \in Seq(Parts) /\ (queue' # <<>> => queue'[1].from = 0)
  <1>1. WholeInv'
    BY WholeStep
  <1>2. shortRecv = FALSE
    <2>1. shortRecv \in BOOLEAN
      BY DEF WholeInv
    <2>2. shortRecv => shortRecv'
      BY <2>1 DEF Next, ServerSends, LoseOctets, Peek, PeekFails, ReadData, ReadFails,
                  LogText, UseReply, Crashed, vars, netVars, readVars
    <2> QED BY <2>1, <2>2
  <1>3. queue \in Seq(Parts) /\ (queue # <<>> => queue[1].from = 0)
    BY <1>2, QueueIs DEF WholeInv
  <1>4. queue' \in Seq(Parts) /\ (queue' # <<>> => queue'[1].from = 0)
    BY <1>1 DEF WholeInv, IsQueue
  <1> QED BY <1>1, <1>2, <1>3, <1>4

\* A reply that stands for what was read.
LEMMA StandsForItself ==
  /\ \A m : m.type \in ReplyNames => StandsFor(Abstract(m), m)
  /\ StandsFor(C!Broken, Thrown)
  <1>1. ASSUME NEW m, m.type \in ReplyNames PROVE StandsFor(Abstract(m), m)
    <2> PICK a : a = Abstract(m)
      OBVIOUS
    <2>1. a.type = m.type
      BY DEF Abstract
    <2>2. m.type \in C!ReplyTypes /\ m.type # "none"
      BY <1>1 DEF ReplyNames, C!ReplyTypes
    <2> QED BY <2>1, <2>2, Zenon DEF StandsFor
  <1>2. StandsFor(C!Broken, Thrown)
    <2>1. Thrown.type = "none" /\ C!Broken.type = "none"
      BY DEF Thrown, Parsed, C!Broken
    <2> QED BY <2>1, Zenon DEF StandsFor
  <1> QED BY <1>1, <1>2

\* Reading a frame consumes the head of the stream.
LEMMA ReadsStep ==
  ASSUME WholeInv, ReadData, shortRecv' = FALSE
  PROVE  ReceiveStep
  <1>1. /\ queue \in Seq(Parts) /\ (queue # <<>> => queue[1].from = 0)
        /\ queue' \in Seq(Parts) /\ (queue' # <<>> => queue'[1].from = 0)
        /\ shortRecv = FALSE
    BY WholeQueue DEF Next
  <1> PICK n : n = Len(queue)
    OBVIOUS
  <1> PICK m : m = queue[1].msg
    OBVIOUS
  <1> PICK a : a = Abstract(m)
    OBVIOUS
  <1> PICK s : s = Stream
    OBVIOUS
  <1> PICK t : t = Stream'
    OBVIOUS
  <1>2. /\ queue # <<>> /\ length = Len(Frames[m]) /\ length <= Remaining
        /\ queue' = After(length) /\ reply' = m /\ Whole(length) = 1
    BY WholeReads
  <1>3. /\ Cut = FALSE /\ n \in Nat /\ s = [i \in 1 .. n |-> Abstract(queue[i].msg)]
        /\ Len(s) = n
    BY <1>1, StreamIs
  <1>4. /\ Cut' = FALSE /\ t = [i \in 1 .. Len(queue') |-> Abstract(queue'[i].msg)]
    BY <1>1, NextStreamIs
  <1>5. n # 0 /\ 1 \in 1 .. n /\ \A i \in 1 .. n : queue[i] \in Parts
    <2>1. n # 0
      BY <1>1, <1>2
    <2> QED BY <1>1, <1>3, <2>1, ElementOfSeq
  <1>6. m \in ServerMessages /\ m.type \in ReplyNames
    <2>1. m \in ServerMessages
      BY <1>5, PartIs
    <2> QED BY <2>1, ServerAssumption, Zenon DEF ReplyNames
  <1>7. /\ Len(queue') = n - 1 /\ \A j \in 1 .. n - 1 : queue'[j].msg = queue[1 + j].msg
    <2>1. length \in 0 .. Remaining
      <3>1. Remaining \in Nat /\ length \in Nat
        BY <1>1, <1>2, <1>6, WireIs, FramesAre
      <3> QED BY <1>2, <3>1
    <2> PICK from \in Nat : /\ IsAfter(queue', queue, 1, from)
                            /\ 1 < n => from = queue[1 + 1].from + length - Before(1)
      BY <1>1, <1>2, <2>1, AfterIs
    <2>2. Len(queue') = n - 1
      BY DEF IsAfter
    <2>3. ASSUME NEW j \in 1 .. n - 1 PROVE queue'[j].msg = queue[1 + j].msg
      <3>1. CASE j = 1
        <4>1. BeginsAt(queue'[1], queue[1 + 1], from)
          BY <2>2, <3>1 DEF IsAfter
        <4>2. 1 + 1 \in 1 .. n
          BY <1>3, <3>1
        <4>3. queue[1 + 1] \in Parts
          BY <1>5, <4>2
        <4>4. queue'[1].msg = queue[1 + 1].msg
          BY <4>1, <4>3 DEF BeginsAt, Parts
        <4> QED BY <3>1, <4>4
      <3>2. CASE j # 1
        <4>1. queue'[j] = queue[1 + j]
          BY <2>2, <3>2 DEF IsAfter
        <4> QED BY <4>1
      <3> QED BY <3>1, <3>2
    <2> QED BY <2>2, <2>3
  <1>8. Head(s) = a /\ s # <<>> /\ t = Tail(s)
    <2>1. s[1] = a
      BY <1>3, <1>5
    <2>2. Head(s) = s[1]
      OBVIOUS
    <2>3. Tail(s) = [j \in 1 .. n - 1 |-> s[1 + j]]
      <3>1. Tail(s) = [j \in 1 .. n - 1 |-> s[j + 1]]
        BY <1>3, <1>5
      <3>2. \A j \in 1 .. n - 1 : j + 1 = 1 + j
        BY <1>3
      <3> QED BY <3>1, <3>2
    <2>4. \A j \in 1 .. n - 1 : s[1 + j] = Abstract(queue[1 + j].msg)
      <3>1. \A j \in 1 .. n - 1 : 1 + j \in 1 .. n
        BY <1>3
      <3> QED BY <1>3, <3>1
    <2>5. t = [j \in 1 .. n - 1 |-> s[1 + j]]
      BY <1>4, <1>7, <2>4, Zenon
    <2>6. s # <<>>
      BY <1>3, <1>5
    <2> QED BY <2>1, <2>2, <2>3, <2>5, <2>6, Zenon
  <1>9. StandsFor(a, reply')
    BY <1>2, <1>6, StandsForItself, Zenon
  <1>10. a \in C!Readable
    BY <1>3, <1>8, Zenon DEF C!Readable
  <1>11. C!Consume(a)
    BY <1>1, <1>3, <1>4, <1>8, Zenon DEF C!Consume
  <1>12. Returns
    BY DEF Returns, ReadData
  <1> QED BY <1>9, <1>10, <1>11, <1>12, Zenon DEF ReceiveStep

\* The stream depends on the queue alone.
LEMMA StillStep ==
  ASSUME UNCHANGED <<queue, shortRecv, connected>>, ~Returns
  PROVE  ReceiveStep
  <1>1. UNCHANGED Cut
    BY DEF Cut
  <1>2. UNCHANGED Stream
    BY <1>1 DEF Stream
  <1> QED BY <1>1, <1>2, Zenon DEF ReceiveStep

-----------------------------------------------------------------------------
(* Whatever the octets are                                                  *)

\* What a field may be read as, from octets and from what is beyond them.
Loose == Nat \cup Seq(Octets \cup {Outside})

\* A view of octets.
LooseViews == [rest : Seq(Octets), values : Seq(Loose), thrown : BOOLEAN, beyond : BOOLEAN]

\* One value more has been read and the rest is what is behind so many octets.
HasTaken(u, v, x, count) ==
    /\ u \in LooseViews
    /\ u.thrown = v.thrown
    /\ u.values = Append(v.values, x)
    /\ count \in Nat
    /\ Len(u.rest) = IF count <= Len(v.rest) THEN Len(v.rest) - count ELSE 0

\* The row t is vs and, behind it, x.
IsExtended(t, vs, x) ==
    /\ Len(t) = Len(vs) + 1 /\ t[Len(vs) + 1] = x
    /\ \A i \in 1 .. Len(vs) : t[i] = vs[i]

\* Its last element and those before.
LEMMA ExtendedIs ==
  ASSUME NEW S, NEW vs \in Seq(S), NEW x, NEW t \in Seq(S), IsExtended(t, vs, x)
  PROVE  Last(t) = x /\ Front(t) = vs
  <1> PICK n : n = Len(vs)
    OBVIOUS
  <1>1. /\ n \in Nat /\ Len(t) = n + 1 /\ t[n + 1] = x /\ \A i \in 1 .. n : t[i] = vs[i]
    BY DEF IsExtended
  <1>2. Last(t) = x
    BY <1>1 DEF Last
  <1> PICK f : IsFront(f, t, n)
    BY Zenon DEF IsFront
  <1>3. n \in 0 .. Len(t)
    BY <1>1
  <1>4. f \in Seq(S) /\ Len(f) = n /\ \A j \in 1 .. n : f[j] = t[j]
    BY <1>3, FrontIs
  <1>5. f = vs
    BY <1>1, <1>4, SeqEqual
  <1>6. Len(t) - 1 = n
    BY <1>1
  <1>7. Front(t) = vs
    BY <1>5, <1>6, Zenon DEF Front, IsFront
  <1> QED BY <1>2, <1>7

\* The last value appended is the last one there is.
LEMMA AppendedIs ==
  ASSUME NEW S, NEW vs \in Seq(S), NEW x \in S
  PROVE  Append(vs, x) \in Seq(S) /\ Last(Append(vs, x)) = x /\ Front(Append(vs, x)) = vs
  <1> DEFINE t == Append(vs, x)
  <1>1. t \in Seq(S) /\ IsExtended(t, vs, x)
    BY AppendProperties DEF IsExtended
  <1> HIDE DEF t
  <1>2. Last(t) = x /\ Front(t) = vs
    BY <1>1, ExtendedIs
  <1> QED BY <1>1, <1>2 DEF t

\* The rest behind some octets, or none.
LEMMA LeftIs ==
  ASSUME NEW rest \in Seq(Octets), NEW count \in Nat, NEW left,
         left = SubSeq(rest, count + 1, Len(rest))
  PROVE  /\ left \in Seq(Octets)
         /\ Len(left) = IF count <= Len(rest) THEN Len(rest) - count ELSE 0
  <1> PICK n : n = Len(rest)
    OBVIOUS
  <1>1. n \in Nat /\ count + 1 \in Int /\ \A i \in count + 1 .. n : rest[i] \in Octets
    OBVIOUS
  <1> DEFINE t == SubSeq(rest, count + 1, n)
  <1>2. t \in Seq(Octets) /\ Len(t) = IF count + 1 <= n THEN n - (count + 1) + 1 ELSE 0
    BY <1>1, SubSeqProperties
  <1>3. left = t
    BY Zenon
  <1> HIDE DEF t
  <1>4. Len(t) = IF count <= n THEN n - count ELSE 0
    BY <1>1, <1>2
  <1> QED BY <1>2, <1>3, <1>4, Zenon

\* An integer is read, or the view has thrown.
LEMMA IntegerTaken ==
  ASSUME NEW v \in LooseViews, NEW kind \in Kinds
  PROVE  /\ parseInteger(v, kind) \in LooseViews
         /\ \/ parseInteger(v, kind).thrown = TRUE
            \/ \E x \in Nat : /\ HasTaken(parseInteger(v, kind), v, x, Width[kind])
                              /\ Width[kind] <= Len(v.rest)
  <1> PICK w : w = Width[kind]
    OBVIOUS
  <1> PICK rest : rest = v.rest
    OBVIOUS
  <1> PICK u : u = parseInteger(v, kind)
    OBVIOUS
  <1>1. w \in Nat \ {0} /\ rest \in Seq(Octets) /\ Len(rest) \in Nat
    BY LimitPositive DEF LooseViews
  <1>2. CASE Len(rest) < w
    <2>1. u = [v EXCEPT !.thrown = TRUE]
      BY <1>2, Zenon DEF parseInteger
    <2> QED BY <2>1 DEF LooseViews
  <1>3. CASE ~(Len(rest) < w)
    <2> PICK octets : IsFront(octets, rest, w)
      BY Zenon DEF IsFront
    <2>1. octets \in Seq(Octets) /\ Len(octets) = w
      <3>1. w \in 0 .. Len(rest)
        BY <1>1, <1>3
      <3> QED BY <1>1, <3>1, FrontIs
    <2>2. Outside \notin ToSet(octets)
      <3>1. ASSUME NEW i \in DOMAIN octets PROVE octets[i] # Outside
        <4>1. octets[i] \in Octets
          BY <2>1
        <4> QED BY <4>1, RadixAssumption DEF Octets, Outside
      <3> QED BY <3>1 DEF ToSet
    <2> PICK x : x = LowEndianValue(octets)
      OBVIOUS
    <2>3. x \in Nat /\ x \in Loose
      <3> PICK value : value \in [0 .. Len(octets) -> Nat] /\ x = value[Len(octets)]
        BY <2>1, ValueSteps
      <3> QED BY <1>1, <2>1 DEF Loose
    <2> PICK left : left = SubSeq(rest, w + 1, Len(rest))
      OBVIOUS
    <2> PICK vs : vs = Append(v.values, x)
      OBVIOUS
    <2>4. left \in Seq(Octets) /\ Len(left) = IF w <= Len(rest) THEN Len(rest) - w ELSE 0
      BY <1>1, LeftIs
    <2>5. vs \in Seq(Loose)
      <3>1. v.values \in Seq(Loose)
        BY DEF LooseViews
      <3> QED BY <2>3, <3>1, AppendedIs
    <2>6. u = [v EXCEPT !.values = vs, !.rest = left]
      BY <1>3, <2>2, Zenon DEF parseInteger, IsFront
    <2>7. u \in LooseViews /\ u.rest = left /\ u.values = vs /\ u.thrown = v.thrown
      BY <2>4, <2>5, <2>6 DEF LooseViews
    <2>8. HasTaken(u, v, x, w)
      BY <1>1, <2>4, <2>7 DEF HasTaken
    <2>9. w <= Len(rest)
      BY <1>1, <1>3
    <2> QED BY <2>3, <2>7, <2>8, <2>9
  <1> QED BY <1>2, <1>3

\* Octets are taken, as many as there are and others.
LEMMA DataTaken ==
  ASSUME NEW v \in LooseViews, NEW count \in Nat
  PROVE  /\ extractDataView(v, count) \in LooseViews
         /\ \E x \in Seq(Octets \cup {Outside}) :
              /\ HasTaken(extractDataView(v, count), v, x, count)
              /\ count <= Len(v.rest) => x \in Seq(Octets)
  <1> PICK rest : rest = v.rest
    OBVIOUS
  <1>1. rest \in Seq(Octets) /\ Len(rest) \in Nat
    BY DEF LooseViews
  <1> PICK x : x = [i \in 1 .. count |-> IF i <= Len(rest) THEN rest[i] ELSE Outside]
    OBVIOUS
  <1>2. /\ x \in Seq(Octets \cup {Outside})
        /\ count <= Len(rest) => x \in Seq(Octets)
    <2>1. \A i \in 1 .. count : i <= Len(rest) => rest[i] \in Octets
      BY <1>1
    <2> QED BY <1>1, <2>1
  <1>3. x \in Loose
    BY <1>2 DEF Loose
  <1> PICK left : left = SubSeq(rest, count + 1, Len(rest))
    OBVIOUS
  <1> PICK vs : vs = Append(v.values, x)
    OBVIOUS
  <1> PICK beyond : beyond = (v.beyond \/ count > Len(rest))
    OBVIOUS
  <1>4. left \in Seq(Octets) /\ Len(left) = IF count <= Len(rest) THEN Len(rest) - count ELSE 0
    BY <1>1, LeftIs
  <1>5. vs \in Seq(Loose)
    <2>1. v.values \in Seq(Loose)
      BY DEF LooseViews
    <2> QED BY <1>3, <2>1, AppendedIs
  <1> PICK u : u = extractDataView(v, count)
    OBVIOUS
  <1>6. u = [v EXCEPT !.values = vs, !.rest = left, !.beyond = beyond]
    BY Zenon DEF extractDataView
  <1>7. beyond \in BOOLEAN
    OBVIOUS
  <1>8. u \in LooseViews /\ u.rest = left /\ u.values = vs /\ u.thrown = v.thrown
    BY <1>4, <1>5, <1>6, <1>7 DEF LooseViews
  <1>9. HasTaken(u, v, x, count)
    BY <1>4, <1>8 DEF HasTaken
  <1> QED BY <1>2, <1>8, <1>9

\* A view with other values.
WithValues(v, vs) == [v EXCEPT !.values = vs]

\* Only its values are others.
LEMMA WithValuesIs ==
  ASSUME NEW v \in LooseViews, NEW vs \in Seq(Loose)
  PROVE  /\ WithValues(v, vs) \in LooseViews /\ WithValues(v, vs).values = vs
         /\ WithValues(v, vs).rest = v.rest /\ WithValues(v, vs).thrown = v.thrown
  BY DEF WithValues, LooseViews

\* Octets are read by a size in front of them.
LEMMA SizedTaken ==
  ASSUME NEW v \in LooseViews, v.thrown = FALSE, NEW kind \in Kinds
  PROVE  /\ SizedView(v, kind) \in LooseViews
         /\ \/ SizedView(v, kind).thrown = TRUE
            \/ \E x \in Seq(Octets \cup {Outside}) :
                 /\ SizedView(v, kind).thrown = FALSE
                 /\ SizedView(v, kind).values = Append(v.values, x)
                 /\ Len(SizedView(v, kind).rest) < Len(v.rest)
  <1> PICK w : w = parseInteger(v, kind)
    OBVIOUS
  <1> PICK u : u = SizedView(v, kind)
    OBVIOUS
  <1>1. w \in LooseViews
    BY IntegerTaken
  <1>2. CASE w.thrown = TRUE
    <2>1. u = w
      BY <1>2, Zenon DEF SizedView
    <2> QED BY <1>1, <1>2, <2>1
  <1>3. CASE w.thrown # TRUE
    <2> PICK x \in Nat : HasTaken(w, v, x, Width[kind]) /\ Width[kind] <= Len(v.rest)
      BY <1>3, IntegerTaken
    <2> PICK vs : vs = v.values
      OBVIOUS
    <2>1. vs \in Seq(Loose) /\ x \in Loose /\ v.rest \in Seq(Octets) /\ x # Outside
      BY DEF LooseViews, Loose, Outside
    <2>2. /\ w.thrown = FALSE /\ w.values = Append(vs, x)
          /\ Len(w.rest) = Len(v.rest) - Width[kind]
      BY DEF HasTaken
    <2>3. Last(w.values) = x /\ Front(w.values) = vs
      <3>1. Last(Append(vs, x)) = x /\ Front(Append(vs, x)) = vs
        BY <2>1, AppendedIs
      <3> QED BY <2>2, <3>1, Zenon
    <2> PICK s : s = WithValues(w, vs)
      OBVIOUS
    <2>4. s \in LooseViews /\ s.values = vs /\ s.rest = w.rest /\ s.thrown = FALSE
      BY <1>1, <2>1, <2>2, WithValuesIs
    <2>5. u = extractDataView(s, x)
      BY <2>1, <2>2, <2>3, Zenon DEF SizedView, WithValues
    <2> PICK d \in Seq(Octets \cup {Outside}) : HasTaken(u, s, d, x)
      BY <2>4, <2>5, DataTaken
    <2>6. /\ u \in LooseViews /\ u.thrown = FALSE /\ u.values = Append(vs, d)
          /\ Len(u.rest) <= Len(w.rest)
      <3>1. Len(w.rest) \in Nat
        BY <1>1 DEF LooseViews
      <3> QED BY <2>4, <3>1 DEF HasTaken
    <2>7. Len(w.rest) < Len(v.rest)
      <3>1. Width[kind] \in Nat \ {0} /\ Len(v.rest) \in Nat
        BY <2>1, LimitPositive
      <3> QED BY <2>2, <3>1
    <2>8. Len(u.rest) < Len(v.rest)
      <3>1. Len(u.rest) \in Nat /\ Len(w.rest) \in Nat /\ Len(v.rest) \in Nat
        BY <1>1, <2>6 DEF LooseViews
      <3> QED BY <2>6, <2>7, <3>1
    <2> QED BY <2>6, <2>8
  <1> QED BY <1>2, <1>3

\* What the field of a kind may be read as.
KindHolds(kind, x) == IF kind = "string" THEN x \in Seq(Octets) ELSE x \in Nat

\* A string is read, or the view has thrown.
LEMMA StringTaken ==
  ASSUME NEW v \in LooseViews, v.thrown = FALSE
  PROVE  /\ parseString(v) \in LooseViews
         /\ \/ parseString(v).thrown = TRUE
            \/ \E x \in Seq(Octets) : /\ parseString(v).thrown = FALSE
                                      /\ parseString(v).values = Append(v.values, x)
  <1> PICK w : w = parseInteger(v, "u16")
    OBVIOUS
  <1> PICK u : u = parseString(v)
    OBVIOUS
  <1>1. w \in LooseViews /\ "u16" \in Kinds
    BY KindsAre, IntegerTaken
  <1>2. CASE w.thrown = TRUE
    <2>1. u = w
      BY <1>2, Zenon DEF parseString
    <2> QED BY <1>1, <1>2, <2>1
  <1>3. CASE w.thrown # TRUE
    <2> PICK size \in Nat : HasTaken(w, v, size, Width["u16"])
      BY <1>1, <1>3, IntegerTaken
    <2> PICK vs : vs = v.values
      OBVIOUS
    <2>1. vs \in Seq(Loose) /\ size \in Loose /\ size # Outside
      BY DEF LooseViews, Loose, Outside
    <2>2. w.thrown = FALSE /\ w.values = Append(vs, size)
      BY DEF HasTaken
    <2>3. Last(w.values) = size /\ Front(w.values) = vs
      <3>1. Last(Append(vs, size)) = size /\ Front(Append(vs, size)) = vs
        BY <2>1, AppendedIs
      <3> QED BY <2>2, <3>1, Zenon
    <2>4. CASE size > Len(w.rest)
      <3>1. u = [w EXCEPT !.thrown = TRUE]
        BY <2>1, <2>2, <2>3, <2>4, Zenon DEF parseString
      <3> QED BY <1>1, <3>1 DEF LooseViews
    <2>5. CASE ~(size > Len(w.rest))
      <3> PICK s : s = WithValues(w, vs)
        OBVIOUS
      <3>1. s \in LooseViews /\ s.values = vs /\ s.rest = w.rest /\ s.thrown = FALSE
        BY <1>1, <2>1, <2>2, WithValuesIs
      <3>2. u = extractDataView(s, size)
        BY <2>1, <2>2, <2>3, <2>5, Zenon DEF parseString, WithValues
      <3>3. size <= Len(s.rest)
        <4>1. Len(w.rest) \in Nat
          BY <1>1 DEF LooseViews
        <4> QED BY <2>5, <3>1, <4>1
      <3> PICK x : x \in Seq(Octets) /\ HasTaken(u, s, x, size)
        BY <3>1, <3>2, <3>3, DataTaken
      <3>4. u \in LooseViews /\ u.thrown = FALSE /\ u.values = Append(vs, x)
        BY <3>1 DEF HasTaken
      <3> QED BY <3>4
    <2> QED BY <2>4, <2>5
  <1> QED BY <1>2, <1>3

\* A field is read, or the view has thrown.
LEMMA FieldTaken ==
  ASSUME NEW v \in LooseViews, v.thrown = FALSE, NEW kind \in Kinds \cup {"string"}
  PROVE  /\ ReadField(v, kind) \in LooseViews
         /\ \/ ReadField(v, kind).thrown = TRUE
            \/ \E x : /\ ReadField(v, kind).thrown = FALSE /\ KindHolds(kind, x)
                      /\ ReadField(v, kind).values = Append(v.values, x) /\ x \in Loose
  <1> PICK u : u = ReadField(v, kind)
    OBVIOUS
  <1>1. CASE kind = "string"
    <2>1. u = parseString(v)
      BY <1>1, Zenon DEF ReadField
    <2>2. \A x \in Seq(Octets) : KindHolds(kind, x) /\ x \in Loose
      BY <1>1 DEF KindHolds, Loose
    <2> QED BY <2>1, <2>2, StringTaken
  <1>2. CASE kind # "string"
    <2>1. u = parseInteger(v, kind) /\ kind \in Kinds
      BY <1>2, Zenon DEF ReadField
    <2>2. \A x \in Nat : KindHolds(kind, x) /\ x \in Loose
      BY <1>2 DEF KindHolds, Loose
    <2>3. u \in LooseViews
      BY <2>1, IntegerTaken
    <2>4. CASE u.thrown # TRUE
      <3> PICK x \in Nat : HasTaken(u, v, x, Width[kind])
        BY <2>1, <2>4, IntegerTaken
      <3>1. u.thrown = FALSE /\ u.values = Append(v.values, x)
        BY Zenon DEF HasTaken
      <3> QED BY <2>2, <2>3, <3>1, Zenon
    <2> QED BY <2>3, <2>4, Zenon
  <1> QED BY <1>1, <1>2

\* A row of fields is read, or the view has thrown.
LEMMA FieldsTaken ==
  ASSUME NEW v \in LooseViews, v.thrown = FALSE, v.values = <<>>,
         NEW n \in Nat, NEW kinds, DOMAIN kinds = 1 .. n,
         \A k \in 1 .. n : kinds[k] \in Kinds \cup {"string"}
  PROVE  /\ ParseFields(v, kinds) \in LooseViews
         /\ ParseFields(v, kinds).thrown = FALSE =>
              \A k \in 1 .. n : KindHolds(kinds[k], ParseFields(v, kinds).values[k])
  <1> PICK views : /\ views[0] = v
                   /\ \A k \in 1 .. n : views[k] = ReadField(views[k - 1], kinds[k])
                   /\ ParseFields(v, kinds) = views[n]
    BY ParseSteps
  <1> DEFINE IsRead(k) ==
        /\ views[k] \in LooseViews
        /\ views[k].thrown = FALSE =>
             /\ Len(views[k].values) = k
             /\ \A j \in 1 .. k : KindHolds(kinds[j], views[k].values[j])
      S == {k \in 0 .. n : IsRead(k)}
  <1>1. 0 \in S
    BY DEF KindHolds
  <1>2. ASSUME NEW k \in 0 .. n - 1, k \in S PROVE k + 1 \in S
    <2> PICK m : m = k + 1
      OBVIOUS
    <2> PICK u : u = views[m]
      OBVIOUS
    <2> PICK w : w = views[k]
      OBVIOUS
    <2>1. m \in 1 .. n /\ m - 1 = k /\ m \in 0 .. n
      OBVIOUS
    <2>2. IsRead(k)
      BY <1>2
    <2>3. u = ReadField(w, kinds[m]) /\ kinds[m] \in Kinds \cup {"string"} /\ w \in LooseViews
      BY <2>1, <2>2
    <2>4. CASE w.thrown = TRUE
      <3>1. u = w
        BY <2>3, <2>4, Zenon DEF ReadField
      <3> QED BY <2>1, <2>3, <2>4, <3>1
    <2>5. CASE w.thrown = FALSE
      <3>1. u \in LooseViews
        BY <2>3, <2>5, FieldTaken
      <3>2. ASSUME u.thrown = FALSE
            PROVE  Len(u.values) = m /\ \A j \in 1 .. m : KindHolds(kinds[j], u.values[j])
        <4>0. \/ ReadField(w, kinds[m]).thrown = TRUE
              \/ \E x : /\ ReadField(w, kinds[m]).thrown = FALSE /\ KindHolds(kinds[m], x)
                        /\ ReadField(w, kinds[m]).values = Append(w.values, x) /\ x \in Loose
          BY <2>3, <2>5, FieldTaken, Zenon
        <4> PICK x : KindHolds(kinds[m], x) /\ u.values = Append(w.values, x) /\ x \in Loose
          BY <2>3, <3>2, <4>0, Zenon
        <4>1. /\ w.values \in Seq(Loose) /\ Len(w.values) = k
              /\ \A j \in 1 .. k : KindHolds(kinds[j], w.values[j])
          BY <2>2, <2>3, <2>5 DEF LooseViews
        <4>2. /\ Len(u.values) = m /\ u.values[m] = x
              /\ \A j \in 1 .. k : u.values[j] = w.values[j]
          BY <4>1, AppendProperties
        <4>3. \A j \in 1 .. m : j = m \/ j \in 1 .. k
          OBVIOUS
        <4> QED BY <4>1, <4>2, <4>3, Zenon
      <3> QED BY <2>1, <3>1, <3>2
    <2>6. w.thrown \in BOOLEAN
      BY <2>3 DEF LooseViews
    <2> QED BY <2>4, <2>5, <2>6
  <1>3. n \in S
    <2>1. 0 .. n \subseteq S
      <3> HIDE DEF S
      <3> QED BY <1>1, <1>2, UpTo
    <2> QED BY <2>1
  <1> QED BY <1>3

-----------------------------------------------------------------------------
(* Types                                                                    *)

\* An octet more leaves the value below the next shift.
LEMMA CarryFits ==
  ASSUME NEW r \in Nat, r > 1, NEW a \in Nat \ {0}, NEW x \in 0 .. r - 1, NEW b \in Nat, b < a
  PROVE  b + x * a < r * a
  <1>1. x * a <= (r - 1) * a
    OBVIOUS
  <1>2. (r - 1) * a = r * a - a
    OBVIOUS
  <1>3. x * a \in Nat /\ r * a \in Nat
    OBVIOUS
  <1> QED BY <1>1, <1>2, <1>3

\* An integer that octets stand for is one of their number.
LEMMA ValueBound ==
  ASSUME NEW s \in Seq(Octets)
  PROVE  LowEndianValue(s) \in 0 .. Shift[Len(s)] - 1
  <1> PICK n : n = Len(s)
    OBVIOUS
  <1> PICK value : /\ value \in [0 .. n -> Nat] /\ value[0] = 0
                   /\ \A k \in 1 .. n : value[k] = value[k - 1] + s[k] * Shift[k - 1]
                   /\ LowEndianValue(s) = value[n]
    BY ValueSteps
  <1>1. n \in Nat /\ \A k \in 1 .. n : s[k] \in 0 .. Radix - 1
    BY DEF Octets
  <1> DEFINE S == {k \in 0 .. n : value[k] < Shift[k]}
  <1>2. 0 \in S
    <2>1. value[0] = 0 /\ 0 \in 0 .. n
      BY <1>1
    <2>2. Shift[0] \in Nat /\ 0 < Shift[0]
      BY ShiftSteps
    <2> QED BY <2>1, <2>2
  <1>3. ASSUME NEW k \in 0 .. n - 1, k \in S PROVE k + 1 \in S
    <2> PICK m : m = k + 1
      OBVIOUS
    <2> PICK x : x = s[m]
      OBVIOUS
    <2> PICK a : a = Shift[k]
      OBVIOUS
    <2> PICK b : b = value[k]
      OBVIOUS
    <2>1. m \in 1 .. n /\ m - 1 = k /\ k \in Nat /\ k \in 0 .. n
      BY <1>1
    <2>2. a \in Nat \ {0} /\ Shift[m] = Radix * a
      BY <2>1, ShiftSteps
    <2>3. value[m] = b + x * a /\ b \in Nat /\ b < a /\ x \in 0 .. Radix - 1
      BY <1>1, <1>3, <2>1
    <2>4. b + x * a < Radix * a
      BY <2>2, <2>3, RadixAssumption, CarryFits
    <2>5. value[m] < Shift[m]
      BY <2>2, <2>3, <2>4
    <2> QED BY <2>1, <2>5
  <1>4. value[n] < Shift[n]
    <2>1. 0 .. n \subseteq S
      <3> HIDE DEF S
      <3> QED BY <1>1, <1>2, <1>3, UpTo
    <2> QED BY <1>1, <2>1
  <1>5. value[n] \in Nat /\ Shift[n] \in Nat
    <2>1. n \in 0 .. n
      BY <1>1
    <2> QED BY <1>1, <2>1, ShiftSteps
  <1> QED BY <1>4, <1>5

\* Whatever fields are read of octets, the rest is octets.
LEMMA FieldsLoose ==
  ASSUME NEW v \in LooseViews, NEW n \in Nat, NEW kinds, DOMAIN kinds = 1 .. n,
         \A k \in 1 .. n : kinds[k] \in Kinds \cup {"string"}
  PROVE  ParseFields(v, kinds) \in LooseViews
  <1> PICK views : /\ views[0] = v
                   /\ \A k \in 1 .. n : views[k] = ReadField(views[k - 1], kinds[k])
                   /\ ParseFields(v, kinds) = views[n]
    BY ParseSteps
  <1> DEFINE S == {k \in 0 .. n : views[k] \in LooseViews}
  <1>1. 0 \in S
    OBVIOUS
  <1>2. ASSUME NEW k \in 0 .. n - 1, k \in S PROVE k + 1 \in S
    <2> PICK m : m = k + 1
      OBVIOUS
    <2> PICK u : u = views[m]
      OBVIOUS
    <2> PICK w : w = views[k]
      OBVIOUS
    <2>1. m \in 1 .. n /\ m - 1 = k /\ m \in 0 .. n
      OBVIOUS
    <2>2. u = ReadField(w, kinds[m]) /\ kinds[m] \in Kinds \cup {"string"} /\ w \in LooseViews
      BY <1>2, <2>1
    <2>3. CASE w.thrown = TRUE
      <3>1. u = w
        BY <2>2, <2>3, Zenon DEF ReadField
      <3> QED BY <2>1, <2>2, <3>1
    <2>4. CASE w.thrown = FALSE
      <3>1. u \in LooseViews
        BY <2>2, <2>4, FieldTaken
      <3> QED BY <2>1, <3>1
    <2>5. w.thrown \in BOOLEAN
      BY <2>2 DEF LooseViews
    <2> QED BY <2>3, <2>4, <2>5
  <1>3. n \in S
    <2>1. 0 .. n \subseteq S
      <3> HIDE DEF S
      <3> QED BY <1>1, <1>2, UpTo
    <2> QED BY <2>1
  <1> QED BY <1>3

\* A reply of the type it has, as TypeOK says.
ReplyTyped(m) ==
    /\ m.type \in ToSet(TypeNames) \cup {"none", "overrun"}
    /\ m.n \in Nat
    /\ m.data \in Seq(Octets \cup {Outside})
    /\ m.text \in Seq(Octets)

\* A view from which a payload of the type is read.
PayloadTyped(type, u) ==
    CASE type = "RVersion" -> u.values[1] \in Nat /\ u.values[2] \in Seq(Octets)
      [] type = "RError" -> u.values[1] \in Seq(Octets)
      [] type = "RWalk" -> u.values[1] \in Nat
      [] type = "RRead" -> u.values[1] \in Seq(Octets \cup {Outside})
      [] OTHER -> TRUE

\* A reply without values is typed.
LEMMA ParsedTyped ==
  \A type \in ToSet(TypeNames) \cup {"none", "overrun"} : ReplyTyped(Parsed(type))
  <1> TAKE type \in ToSet(TypeNames) \cup {"none", "overrun"}
  <1>1. <<>> \in Seq(Octets) /\ <<>> \in Seq(Octets \cup {Outside})
    OBVIOUS
  <1> QED BY <1>1 DEF ReplyTyped, Parsed

\* A reply of typed values is typed.
LEMMA PayloadIsTyped ==
  ASSUME NEW type \in ToSet(TypeNames), NEW u, PayloadTyped(type, u)
  PROVE  ReplyTyped(Payload(type, u.values))
  <1> PICK vs : vs = u.values
    OBVIOUS
  <1> PICK m : m = Payload(type, vs)
    OBVIOUS
  <1> PICK empty : empty = Parsed(type)
    OBVIOUS
  <1>1. /\ ReplyTyped(empty)
        /\ empty = [type |-> type, n |-> 0, data |-> <<>>, text |-> <<>>, stats |-> <<>>]
    BY ParsedTyped DEF Parsed
  <1>2. CASE type = "RVersion"
    <2>1. m = [empty EXCEPT !.n = vs[1], !.text = vs[2]] /\ vs[1] \in Nat /\ vs[2] \in Seq(Octets)
      BY <1>2, Zenon DEF Payload, PayloadTyped
    <2> QED BY <1>1, <2>1 DEF ReplyTyped
  <1>3. CASE type = "RError"
    <2>1. m = [empty EXCEPT !.text = vs[1]] /\ vs[1] \in Seq(Octets)
      BY <1>3 DEF Payload, PayloadTyped
    <2> QED BY <1>1, <2>1 DEF ReplyTyped
  <1>4. CASE type = "RWalk"
    <2>1. m = [empty EXCEPT !.n = vs[1]] /\ vs[1] \in Nat
      BY <1>4 DEF Payload, PayloadTyped
    <2> QED BY <1>1, <2>1 DEF ReplyTyped
  <1>5. CASE type = "RRead"
    <2>1. m = [empty EXCEPT !.data = vs[1]] /\ vs[1] \in Seq(Octets \cup {Outside})
      BY <1>5 DEF Payload, PayloadTyped
    <2> QED BY <1>1, <2>1 DEF ReplyTyped
  <1>6. CASE type = "RStat"
    <2>1. m = [empty EXCEPT !.stats = <<vs>>]
      BY <1>6 DEF Payload
    <2> QED BY <1>1, <2>1 DEF ReplyTyped
  <1>7. CASE type \notin {"RVersion", "RError", "RWalk", "RRead", "RStat"}
    <2>1. m = empty
      BY <1>7 DEF Payload
    <2> QED BY <1>1, <2>1
  <1> QED BY <1>2, <1>3, <1>4, <1>5, <1>6, <1>7

\* What is read of a payload has the type it should have, unless it throws.
LEMMA PayloadRead ==
  ASSUME NEW type, NEW v \in LooseViews, v.thrown = FALSE, v.values = <<>>,
         NEW u, u = parseMessagePayload(type, v), ~u.thrown
  PROVE  PayloadTyped(type, u)
  <1>1. "u16" \in Kinds /\ "u32" \in Kinds
    BY KindsAre
  <1>2. CASE type = "RVersion"
    <2> PICK kinds : kinds = <<"u32", "string">>
      OBVIOUS
    <2>1. u = ParseFields(v, kinds)
      BY <1>2 DEF parseMessagePayload, FixedFields
    <2>2. DOMAIN kinds = 1 .. 2 /\ \A k \in 1 .. 2 : kinds[k] \in Kinds \cup {"string"}
      BY <1>1
    <2>3. u \in LooseViews /\ (u.thrown = FALSE => \A k \in 1 .. 2 : KindHolds(kinds[k], u.values[k]))
      BY <2>1, <2>2, FieldsTaken
    <2>4. u.thrown = FALSE
      BY <2>3 DEF LooseViews
    <2>5. KindHolds("u32", u.values[1]) /\ KindHolds("string", u.values[2])
      BY <2>3, <2>4
    <2> QED BY <1>2, <2>5 DEF PayloadTyped, KindHolds
  <1>3. CASE type = "RError"
    <2> PICK kinds : kinds = <<"string">>
      OBVIOUS
    <2>1. u = ParseFields(v, kinds)
      BY <1>3 DEF parseMessagePayload, FixedFields
    <2>2. DOMAIN kinds = 1 .. 1 /\ \A k \in 1 .. 1 : kinds[k] \in Kinds \cup {"string"}
      OBVIOUS
    <2>3. u \in LooseViews /\ (u.thrown = FALSE => \A k \in 1 .. 1 : KindHolds(kinds[k], u.values[k]))
      BY <2>1, <2>2, FieldsTaken
    <2>4. u.thrown = FALSE
      BY <2>3 DEF LooseViews
    <2>5. KindHolds("string", u.values[1])
      BY <2>3, <2>4
    <2> QED BY <1>3, <2>5 DEF PayloadTyped, KindHolds
  <1>4. CASE type = "RWalk"
    <2> PICK w : w = parseInteger(v, "u16")
      OBVIOUS
    <2>1. u = parseRWalk(v)
      BY <1>4 DEF parseMessagePayload
    <2>2. w \in LooseViews /\ ~w.thrown
      <3>1. w.thrown => u = w
        BY <2>1, Zenon DEF parseRWalk
      <3>2. w \in LooseViews
        BY <1>1, IntegerTaken
      <3> QED BY <3>1, <3>2
    <2>3. w.thrown = FALSE
      BY <2>2 DEF LooseViews
    <2> PICK x \in Nat : HasTaken(w, v, x, Width["u16"])
      BY <1>1, <2>3, IntegerTaken
    <2>4. w.values = Append(v.values, x) /\ <<>> \in Seq(Nat)
      BY DEF HasTaken
    <2>5. Last(w.values) = x
      <3>1. Last(Append(<<>>, x)) = x
        BY <2>4, AppendedIs
      <3> QED BY <2>4, <3>1, Zenon
    <2> PICK kinds : kinds = QidKindsOf(x)
      OBVIOUS
    <2> PICK f : f = ParseFields(w, kinds)
      OBVIOUS
    <2>6. u = [f EXCEPT !.values = <<x>>]
      BY <2>1, <2>2, <2>5, Zenon DEF parseRWalk, QidKindsOf
    <2>7. f \in LooseViews
      <3> PICK rows : rows = [i \in 1 .. x |-> Qid]
        OBVIOUS
      <3>1. rows \in Seq(Seq(Kinds \cup {"string"}))
        BY QidKinds
      <3>2. kinds = FlattenSeq(rows)
        BY Zenon DEF QidKindsOf
      <3>3. kinds \in Seq(Kinds \cup {"string"})
        BY <3>1, <3>2, FlattenPlaces
      <3>4. DOMAIN kinds = 1 .. Len(kinds) /\ Len(kinds) \in Nat
            /\ \A k \in 1 .. Len(kinds) : kinds[k] \in Kinds \cup {"string"}
        BY <3>3, LenProperties, ElementOfSeq
      <3> QED BY <2>2, <3>4, FieldsLoose
    <2>8. u.values = <<x>>
      BY <2>6, <2>7 DEF LooseViews
    <2> QED BY <1>4, <2>8 DEF PayloadTyped
  <1>5. CASE type = "RRead"
    <2>1. u = SizedView(v, "u32")
      BY <1>5 DEF parseMessagePayload, parseRRead
    <2>2. u \in LooseViews
      BY <1>1, <2>1, SizedTaken
    <2>3. u.thrown = FALSE
      BY <2>2 DEF LooseViews
    <2> PICK x \in Seq(Octets \cup {Outside}) : u.values = Append(v.values, x)
      BY <1>1, <2>1, <2>3, SizedTaken
    <2>4. u.values[1] = x
      OBVIOUS
    <2> QED BY <1>5, <2>4 DEF PayloadTyped
  <1>6. CASE type \notin {"RVersion", "RError", "RWalk", "RRead"}
    BY <1>6 DEF PayloadTyped
  <1> QED BY <1>2, <1>3, <1>4, <1>5, <1>6

\* Whatever octets are parsed, what is returned or thrown is a reply
\* (parseMessage).
LEMMA MessageTyped ==
  ASSUME NEW buffer \in Seq(Octets), NEW m \in parseMessage(buffer)
  PROVE  ReplyTyped(m)
  <1> PICK v : v = View(buffer)
    OBVIOUS
  <1> PICK head : head = ParseFields(v, HeaderKinds)
    OBVIOUS
  <1>1. v \in LooseViews /\ v.thrown = FALSE /\ v.values = <<>>
    BY DEF View, LooseViews
  <1>2. /\ head \in LooseViews
        /\ head.thrown = FALSE => \A k \in 1 .. 3 : KindHolds(HeaderKinds[k], head.values[k])
    <2>1. DOMAIN HeaderKinds = 1 .. 3 /\ \A k \in 1 .. 3 : HeaderKinds[k] \in Kinds \cup {"string"}
      BY KindsAre DEF HeaderKinds
    <2> QED BY <1>1, <2>1, FieldsTaken
  <1> DEFINE code == head.values[2]
             type == TypeNames[code]
             w == [head EXCEPT !.values = <<>>]
             u == parseMessagePayload(type, w)
  <1>3. parseMessage(buffer) =
           IF head.thrown \/ code \notin DOMAIN TypeNames THEN {Thrown}
           ELSE (IF u.thrown \/ (u.beyond /\ type = "RStat") THEN {Thrown} ELSE {})
                \cup (IF u.beyond THEN {Crash} ELSE {})
                \cup (IF u.thrown THEN {} ELSE {Payload(type, u.values)})
    BY Zenon DEF parseMessage, HeaderKinds
  <1>4. ReplyTyped(Thrown) /\ ReplyTyped(Crash)
    BY ParsedTyped DEF Thrown, Crash
  <1>5. CASE m = Thrown \/ m = Crash
    BY <1>4, <1>5
  <1>6. CASE ~(m = Thrown \/ m = Crash)
    <2>1. ~head.thrown /\ code \in DOMAIN TypeNames /\ ~u.thrown /\ m = Payload(type, u.values)
      <3> HIDE DEF u, type, code
      <3> QED BY <1>3, <1>6
    <2>2. w \in LooseViews /\ w.thrown = FALSE /\ w.values = <<>>
      <3>1. head.thrown = FALSE /\ <<>> \in Seq(Loose)
        BY <1>2, <2>1 DEF LooseViews
      <3> QED BY <1>2, <3>1, WithValuesIs DEF WithValues
    <2>3. type \in ToSet(TypeNames)
      BY <2>1, Zenon DEF ToSet
    <2> HIDE DEF w, type, code
    <2>4. PayloadTyped(type, u)
      BY <2>1, <2>2, PayloadRead
    <2> HIDE DEF u
    <2> QED BY <2>1, <2>3, <2>4, PayloadIsTyped
  <1> QED BY <1>5, <1>6

\* What a recv has put over what was there.
LEMMA FilledIs ==
  ASSUME WholeInv, NEW n \in Nat, NEW k \in Nat, k <= Remaining,
         NEW old, \A i \in 1 .. n : old[i] \in Octets
  PROVE  Filled(n, k, old) \in Seq(Octets) /\ Len(Filled(n, k, old)) = n
  <1>1. Wire \in Seq(Octets) /\ Len(Wire) = Remaining /\ Remaining \in Nat
    <2>1. queue \in Seq(Parts)
      BY QueueIs DEF WholeInv
    <2> QED BY <2>1, WireIs
  <1> PICK t : t = Filled(n, k, old)
    OBVIOUS
  <1>2. t = [i \in 1 .. n |-> IF i <= k THEN Wire[i] ELSE old[i]]
    BY Zenon DEF Filled
  <1>3. ASSUME NEW i \in 1 .. n PROVE (IF i <= k THEN Wire[i] ELSE old[i]) \in Octets
    <2>1. i <= k => i \in 1 .. Len(Wire)
      BY <1>1
    <2> QED BY <1>1, <2>1
  <1>4. t \in Seq(Octets) /\ Len(t) = n
    BY <1>2, <1>3
  <1> QED BY <1>4

\* The queue is what TypeOK says.
QueueTyped(q) ==
    \A i \in DOMAIN q :
       /\ q[i].msg \in ServerMessages
       /\ q[i].to \in 1 .. Len(Frames[q[i].msg])
       /\ q[i].from \in 0 .. q[i].to - 1

\* IsQueue says more.
LEMMA QueueIsTyped ==
  ASSUME NEW q, NEW c, IsQueue(q, c)
  PROVE  QueueTyped(q)
  <1> SUFFICES ASSUME NEW i \in DOMAIN q
               PROVE  /\ q[i].msg \in ServerMessages
                      /\ q[i].to \in 1 .. Len(Frames[q[i].msg])
                      /\ q[i].from \in 0 .. q[i].to - 1
    BY DEF QueueTyped
  <1> PICK p : p = q[i]
    OBVIOUS
  <1>1. p \in Parts
    BY QueueIs
  <1>2. p.msg \in ServerMessages /\ p.from \in Nat /\ p.to \in Nat /\ p.from < p.to
        /\ p.to <= Len(Frames[p.msg])
    BY <1>1, PartIs
  <1>3. Len(Frames[p.msg]) \in Nat
    BY <1>2, FramesAre
  <1> QED BY <1>2, <1>3

\* What is typed besides the queue.
Typed ==
    /\ sends \in 0 .. MaxMessages
    /\ length \in 0 .. Limit("u32") - 1
    /\ ReplyTyped(reply)

\* Each step keeps the types.
LEMMA TypedStep == WholeInv /\ Typed /\ [Next]_vars => Typed'
  <1> SUFFICES ASSUME WholeInv, Typed, [Next]_vars PROVE Typed'
    OBVIOUS
  <1>1. 0 \in 0 .. Limit("u32") - 1 /\ ReplyTyped(Thrown)
    <2>1. Limit("u32") \in Nat \ {0}
      BY KindsAre, LimitPositive
    <2> QED BY <2>1, ParsedTyped DEF Thrown
  <1>2. ASSUME NEW m \in ServerMessages, ServerSends(m) PROVE Typed'
    <2>1. sends < MaxMessages /\ sends' = sends + 1 /\ UNCHANGED <<length, reply>>
      BY <1>2 DEF ServerSends, readVars
    <2>2. sends' \in 0 .. MaxMessages
      BY <2>1, MaxMessagesAssumption DEF Typed
    <2> QED BY <2>1, <2>2 DEF Typed, ReplyTyped
  <1>3. CASE LoseOctets
    BY <1>3 DEF LoseOctets, readVars, Typed, ReplyTyped
  <1>4. CASE Peek
    <2> PICK w : w = Width["u32"]
      OBVIOUS
    <2>1. PICK k \in (IF ShortRecvs THEN 1 .. w ELSE {w}), stale \in [1 .. w -> StaleOctets] :
               k <= Remaining /\ length' = parseMessageLength(Filled(w, k, stale))
      BY <1>4 DEF Peek
    <2>2. w \in Nat /\ k \in Nat
      <3>1. w \in Nat
        BY KindsAre, LimitPositive
      <3> QED BY <2>1, <3>1
    <2>3. \A i \in 1 .. w : stale[i] \in Octets
      BY <2>1, StaleAssumption
    <2>4. Filled(w, k, stale) \in Seq(Octets) /\ Len(Filled(w, k, stale)) = w
      BY <2>1, <2>2, <2>3, FilledIs
    <2>5. length' \in 0 .. Limit("u32") - 1
      BY <2>1, <2>4, ValueBound DEF parseMessageLength, Limit
    <2>6. UNCHANGED <<sends, reply>>
      BY <1>4 DEF Peek, netVars
    <2> QED BY <2>5, <2>6 DEF Typed, ReplyTyped
  <1>5. CASE PeekFails
    BY <1>1, <1>5 DEF PeekFails, netVars, Typed, ReplyTyped
  <1>6. CASE ReadData
    <2> PICK zeros : zeros = [i \in 1 .. length |-> 0]
      OBVIOUS
    <2>1. PICK k \in 1 .. length : /\ k <= Remaining
                                  /\ reply' \in parseMessage(Filled(length, k, zeros))
      BY <1>6, Zenon DEF ReadData
    <2>2. length \in Nat /\ k \in Nat /\ length' = 0 /\ sends' = sends
      BY <1>6, <2>1, AllocatableAssumption DEF ReadData
    <2>3. \A i \in 1 .. length : zeros[i] \in Octets
      BY RadixAssumption DEF Octets
    <2>4. Filled(length, k, zeros) \in Seq(Octets)
      BY <2>1, <2>2, <2>3, FilledIs
    <2>5. ReplyTyped(reply')
      BY <2>1, <2>4, MessageTyped
    <2> QED BY <1>1, <2>2, <2>5 DEF Typed, ReplyTyped
  <1>7. CASE ReadFails
    BY <1>1, <1>7 DEF ReadFails, netVars, Typed, ReplyTyped
  <1>8. CASE LogText
    BY <1>1, <1>8 DEF LogText, netVars, Typed, ReplyTyped
  <1>9. CASE UseReply
    BY <1>1, <1>9 DEF UseReply, netVars, Typed, ReplyTyped
  <1>10. CASE UNCHANGED vars
    BY <1>10 DEF vars, netVars, readVars, Typed, ReplyTyped
  <1>11. CASE Crashed
    BY <1>10, <1>11 DEF Crashed
  <1> QED BY <1>2, <1>3, <1>4, <1>5, <1>6, <1>7, <1>8, <1>9, <1>10, <1>11 DEF Next

\* The variables have their types, whatever octets arrive and however recv
\* splits them: a length is one that four octets can say, and a reply, read from
\* a whole frame or from pieces, has the type of its parser's result.
THEOREM TypeCorrect == Spec => []TypeOK
  <1>1. Init => Typed
    <2>1. Limit("u32") \in Nat \ {0}
      BY KindsAre, LimitPositive
    <2>2. ReplyTyped(Thrown)
      BY ParsedTyped DEF Thrown
    <2> QED BY <2>1, <2>2, MaxMessagesAssumption DEF Init, Typed
  <1>2. WholeInv /\ Typed => TypeOK
    <2> SUFFICES ASSUME WholeInv, Typed PROVE TypeOK
      OBVIOUS
    <2>1. QueueTyped(queue)
      BY QueueIsTyped DEF WholeInv
    <2> QED BY <2>1, Zenon DEF WholeInv, Typed, ReplyTyped, QueueTyped, TypeOK
  <1> QED BY <1>1, <1>2, WholeInit, WholeStep, TypedStep, PTL DEF Spec

-----------------------------------------------------------------------------
(* A buffer that is part of a frame                                         *)

\* The view stands at place p of the buffer and has not been read past its end.
Tracks(v, buffer, p) ==
    /\ v \in LooseViews /\ v.beyond = FALSE /\ v.thrown = FALSE
    /\ p \in 0 .. Len(buffer) /\ Len(v.rest) = Len(buffer) - p
    /\ \A i \in 1 .. Len(v.rest) : v.rest[i] = buffer[p + i]

\* The octets s are the w behind place p.
IsPiece(s, buffer, p, w) ==
    s \in Seq(Octets) /\ Len(s) = w /\ \A i \in 1 .. w : s[i] = buffer[p + i]

\* A number is read from the w octets behind place p.
IsNumber(x, buffer, p, w) ==
    x \in Nat /\ \E s : IsPiece(s, buffer, p, w) /\ x = LowEndianValue(s)

\* Such a number is what u has in addition to v.
TakesNumber(u, v, buffer, p, w) ==
    \E x : IsNumber(x, buffer, p, w) /\ u.values = Append(v.values, x)

\* A row of one with one more.
EndsSecond(t, x) == Len(t) = 2 /\ t[2] = x

\* It ends with it.
LEMMA SecondOf ==
  ASSUME NEW S, NEW s \in Seq(S), Len(s) = 1, NEW x \in S, NEW t, t = Append(s, x)
  PROVE  EndsSecond(t, x)
  <1>1. Len(t) = Len(s) + 1 /\ t[Len(s) + 1] = x
    BY AppendKeeps
  <1>2. Len(s) + 1 = 2
    OBVIOUS
  <1> QED BY Zenon, <1>1, <1>2 DEF EndsSecond

\* What is behind the first i of some octets.
LEMMA OctetsBehind ==
  ASSUME NEW s \in Seq(Octets), NEW i \in 0 .. Len(s), NEW t, IsBehind(t, s, i)
  PROVE  /\ t \in Seq(Octets) /\ Len(t) = Len(s) - i
         /\ \A j \in 1 .. Len(s) - i : t[j] = s[i + j]
  <1>1. LeavesBehind(t, Octets, s, i)
    BY Zenon, BehindIs
  <1> QED BY Zenon, <1>1 DEF LeavesBehind

\* A place w octets further on.
LEMMA PlaceMoved ==
  ASSUME NEW l \in Nat, NEW p \in 0 .. l, NEW n \in Nat, n = l - p, NEW w \in Nat, ~(n < w),
         NEW e, e = n - w, NEW q, q = p + w
  PROVE  q \in 0 .. l /\ e = l - q /\ \A i \in 1 .. e : w + i \in 1 .. n /\ p + (w + i) = q + i
  OBVIOUS

\* An integer is read where the view stands, if there are octets enough.
LEMMA IntegerTracked ==
  ASSUME NEW buffer \in Seq(Octets), NEW p, NEW v, Tracks(v, buffer, p), NEW kind \in Kinds,
         parseInteger(v, kind).thrown = FALSE
  PROVE  /\ Tracks(parseInteger(v, kind), buffer, p + Width[kind])
         /\ TakesNumber(parseInteger(v, kind), v, buffer, p, Width[kind])
  <1>w. PICK w : w = Width[kind]
    OBVIOUS
  <1>rest. PICK rest : rest = v.rest
    OBVIOUS
  <1>u. PICK u : u = parseInteger(v, kind)
    OBVIOUS
  <1>l. PICK l : l = Len(buffer)
    OBVIOUS
  <1>1. /\ w \in Nat \ {0} /\ rest \in Seq(Octets) /\ Len(rest) \in Nat
        /\ v \in LooseViews /\ v.beyond = FALSE /\ v.thrown = FALSE /\ l \in Nat
        /\ p \in 0 .. l /\ Len(rest) = l - p /\ \A i \in 1 .. Len(rest) : rest[i] = buffer[p + i]
    BY <1>w, <1>rest, <1>l, LimitPositive DEF Tracks, LooseViews
  <1>2. ~(Len(rest) < w)
    <2> SUFFICES ASSUME Len(rest) < w PROVE FALSE
      OBVIOUS
    <2>1. u = [v EXCEPT !.thrown = TRUE]
      BY <1>w, <1>rest, <1>u, Zenon DEF parseInteger
    <2>2. u.thrown = TRUE
      BY <1>1, <2>1 DEF LooseViews
    <2> QED BY <1>u, <2>2
  <1>octets. PICK octets : IsFront(octets, rest, w)
    BY Zenon DEF IsFront
  <1>3. octets \in Seq(Octets) /\ Len(octets) = w /\ \A j \in 1 .. w : octets[j] = rest[j]
    <2>1. w \in 0 .. Len(rest)
      BY <1>1, <1>2
    <2>2. rest \in Seq(Octets)
      BY <1>1, Zenon
    <2> QED BY <1>octets, <2>1, <2>2, FrontIs, SMT
  <1>4. IsPiece(octets, buffer, p, w)
    <2>1. ASSUME NEW j \in 1 .. w PROVE octets[j] = buffer[p + j]
      <3>1. j \in 1 .. Len(rest)
        BY <1>1, <1>2
      <3>2. rest[j] = buffer[p + j]
        BY <1>1, <3>1, Zenon
      <3>3. octets[j] = rest[j]
        BY <1>3
      <3> QED BY <3>2, <3>3, Zenon
    <2> QED BY <1>3, <2>1, Zenon DEF IsPiece
  <1>5. Outside \notin ToSet(octets)
    <2>1. ASSUME NEW i \in DOMAIN octets PROVE octets[i] # Outside
      <3>1. octets[i] \in Octets
        BY <1>3
      <3> QED BY <3>1, RadixAssumption DEF Octets, Outside
    <2> QED BY <2>1 DEF ToSet
  <1>x. PICK x : x = LowEndianValue(octets)
    OBVIOUS
  <1>6. x \in Nat
    <2> PICK value : value \in [0 .. Len(octets) -> Nat] /\ x = value[Len(octets)]
      BY <1>x, <1>3, ValueSteps
    <2> QED BY <1>1, <1>3
  <1>left. PICK left : IsBehind(left, rest, w)
    BY Zenon DEF IsBehind
  <1>7. left \in Seq(Octets) /\ Len(left) = Len(rest) - w
        /\ \A j \in 1 .. Len(rest) - w : left[j] = rest[w + j]
    <2>1. w \in 0 .. Len(rest)
      BY <1>1, <1>2
    <2>2. rest \in Seq(Octets) /\ IsBehind(left, rest, w)
      BY <1>left, <1>1, Zenon
    <2> QED BY <2>1, <2>2, OctetsBehind
  <1>vs. PICK vs : vs = Append(v.values, x)
    OBVIOUS
  <1>8. vs \in Seq(Loose)
    <2>1. v.values \in Seq(Loose) /\ x \in Loose
      BY <1>1, <1>6 DEF LooseViews, Loose
    <2> QED BY <1>vs, <2>1, AppendedIs
  <1>9. u = [v EXCEPT !.values = vs, !.rest = left]
    BY <1>w, <1>rest, <1>u, <1>octets, <1>left, <1>x, <1>2, <1>5, <1>vs, Zenon DEF parseInteger, IsFront, IsBehind
  <1>10. /\ u \in LooseViews /\ u.rest = left /\ u.values = vs /\ u.thrown = FALSE
         /\ u.beyond = FALSE
    BY <1>1, <1>7, <1>8, <1>9 DEF LooseViews
  <1>q. PICK q : q = p + w
    OBVIOUS
  <1>11. q \in 0 .. l /\ Len(left) = l - q /\ \A i \in 1 .. Len(left) : left[i] = buffer[q + i]
    <2>n. PICK n : n = Len(rest)
      OBVIOUS
    <2>e. PICK e : e = Len(left)
      OBVIOUS
    <2>1. /\ n \in Nat /\ l \in Nat /\ p \in 0 .. l /\ w \in Nat /\ n = l - p /\ ~(n < w)
          /\ e = n - w
      BY <2>n, <2>e, <1>1, <1>2, <1>7
    <2>2. q \in 0 .. l /\ e = l - q /\ \A i \in 1 .. e : w + i \in 1 .. n /\ p + (w + i) = q + i
      BY <1>q, <2>1, PlaceMoved
    <2>3. ASSUME NEW i \in 1 .. e PROVE left[i] = buffer[q + i]
      <3>1. w + i \in 1 .. n /\ p + (w + i) = q + i
        BY <2>2
      <3>2. left[i] = rest[w + i]
        BY <1>7, <2>1, <2>n, <2>e
      <3>3. rest[w + i] = buffer[p + (w + i)]
        BY <1>1, <3>1, <2>n, Zenon
      <3> QED BY <3>1, <3>2, <3>3, Zenon
    <2> QED BY <2>2, <2>3, <2>e, Zenon
  <1>12. Tracks(u, buffer, q)
    BY <1>10, <1>11, <1>l, Zenon DEF Tracks
  <1>13. IsNumber(x, buffer, p, w)
    BY <1>x, <1>4, <1>6, Zenon DEF IsNumber
  <1>14. TakesNumber(u, v, buffer, p, w)
    BY <1>10, <1>13, <1>vs, Zenon DEF TakesNumber
  <1> QED BY <1>12, <1>14, <1>u, <1>q, <1>w, Zenon

\* A sum is no greater whose parts are not.
LEMMA SumsGrow ==
  ASSUME NEW a \in Nat, NEW x \in Nat, NEW y \in Nat, x <= y, NEW b \in Nat, NEW c \in Nat, b <= c
  PROVE  b + x * a <= c + y * a
  <1>1. x * a <= y * a /\ x * a \in Nat /\ y * a \in Nat
    OBVIOUS
  <1> QED BY <1>1

\* Octets that are no greater stand for a number that is no greater.
LEMMA ValueMonotone ==
  ASSUME NEW s \in Seq(Octets), NEW t \in Seq(Octets), Len(s) = Len(t),
         \A i \in 1 .. Len(s) : s[i] <= t[i]
  PROVE  LowEndianValue(s) <= LowEndianValue(t)
  <1> PICK n : n = Len(s)
    OBVIOUS
  <1> PICK f : /\ f \in [0 .. n -> Nat] /\ f[0] = 0
               /\ \A k \in 1 .. n : f[k] = f[k - 1] + s[k] * Shift[k - 1]
               /\ LowEndianValue(s) = f[n]
    BY ValueSteps
  <1> PICK g : /\ g \in [0 .. n -> Nat] /\ g[0] = 0
               /\ \A k \in 1 .. n : g[k] = g[k - 1] + t[k] * Shift[k - 1]
               /\ LowEndianValue(t) = g[n]
    BY ValueSteps
  <1>1. n \in Nat /\ \A k \in 1 .. n : s[k] \in Nat /\ t[k] \in Nat /\ s[k] <= t[k]
    BY RadixAssumption DEF Octets
  <1> DEFINE S == {k \in 0 .. n : f[k] <= g[k]}
  <1>2. 0 \in S
    <2>1. f[0] = 0 /\ g[0] = 0 /\ 0 \in 0 .. n
      BY <1>1
    <2> QED BY <2>1
  <1>3. ASSUME NEW k \in 0 .. n - 1, k \in S PROVE k + 1 \in S
    <2> PICK m : m = k + 1
      OBVIOUS
    <2> PICK a : a = Shift[k]
      OBVIOUS
    <2> PICK x : x = s[m]
      OBVIOUS
    <2> PICK y : y = t[m]
      OBVIOUS
    <2>1. m \in 1 .. n /\ m - 1 = k /\ k \in Nat /\ k \in 0 .. n /\ m \in 0 .. n
      BY <1>1
    <2>2. a \in Nat
      BY <2>1, ShiftSteps
    <2>3. x \in Nat /\ y \in Nat /\ x <= y
      BY <1>1, <2>1
    <2>4. f[m] = f[k] + x * a /\ g[m] = g[k] + y * a
      BY <2>1
    <2>5. f[k] \in Nat /\ g[k] \in Nat /\ f[k] <= g[k]
      BY <1>3, <2>1
    <2>6. f[k] + x * a <= g[k] + y * a
      <3> HIDE DEF S
      <3> QED BY <2>2, <2>3, <2>5, SumsGrow
    <2>7. f[m] <= g[m]
      BY <2>4, <2>6, Zenon
    <2> QED BY <2>1, <2>7
  <1>4. n \in S
    <2>1. 0 .. n \subseteq S
      <3> HIDE DEF S
      <3> QED BY <1>1, <1>2, <1>3, UpTo
    <2> QED BY <1>1, <2>1
  <1> QED BY <1>4

\* Values and the rest are other fields of a view.
LEMMA ViewKeeps ==
  ASSUME NEW v \in LooseViews, NEW vs, NEW left
  PROVE  [v EXCEPT !.values = vs, !.rest = left].beyond = v.beyond
  BY DEF LooseViews

\* One of them is whether it has been read past its end.
LEMMA ViewBeyond ==
  ASSUME NEW v \in LooseViews, NEW vs, NEW left, NEW beyond
  PROVE  [v EXCEPT !.values = vs, !.rest = left, !.beyond = beyond].beyond = beyond
  BY DEF LooseViews

\* Octets taken past the end leave a trace.
LEMMA ViewEnds ==
  ASSUME NEW v \in LooseViews, NEW count \in Nat
  PROVE  extractDataView(v, count).beyond = (v.beyond \/ count > Len(v.rest))
  <1> PICK vs : vs = Append(v.values, [i \in 1 .. count |->
                                          IF i <= Len(v.rest) THEN v.rest[i] ELSE Outside])
    OBVIOUS
  <1> PICK left : left = SubSeq(v.rest, count + 1, Len(v.rest))
    OBVIOUS
  <1> PICK beyond : beyond = (v.beyond \/ count > Len(v.rest))
    OBVIOUS
  <1>1. extractDataView(v, count) = [v EXCEPT !.values = vs, !.rest = left, !.beyond = beyond]
    BY Zenon DEF extractDataView
  <1>2. [v EXCEPT !.values = vs, !.rest = left, !.beyond = beyond].beyond = beyond
    BY ViewBeyond
  <1> QED BY <1>1, <1>2, Zenon

\* A string whose size is checked is in the buffer.
LEMMA StringWithin ==
  ASSUME NEW v \in LooseViews, v.thrown = FALSE, v.beyond = FALSE,
         parseInteger(v, "u16").beyond = FALSE
  PROVE  parseString(v).beyond = FALSE
  <1> PICK w : w = parseInteger(v, "u16")
    OBVIOUS
  <1> PICK u : u = parseString(v)
    OBVIOUS
  <1>1. w \in LooseViews /\ w.beyond = FALSE
    BY KindsAre, IntegerTaken
  <1>2. CASE w.thrown = TRUE
    <2>1. u = w
      BY <1>2, Zenon DEF parseString
    <2> QED BY <1>1, <2>1
  <1>3. CASE w.thrown # TRUE
    <2> PICK size \in Nat : HasTaken(w, v, size, Width["u16"])
      BY <1>3, KindsAre, IntegerTaken
    <2> PICK vs : vs = v.values
      OBVIOUS
    <2>1. vs \in Seq(Loose) /\ size \in Loose /\ size # Outside
      BY DEF LooseViews, Loose, Outside
    <2>2. w.thrown = FALSE /\ w.values = Append(vs, size)
      BY DEF HasTaken
    <2>3. Last(w.values) = size /\ Front(w.values) = vs
      <3>1. Last(Append(vs, size)) = size /\ Front(Append(vs, size)) = vs
        BY <2>1, AppendedIs
      <3> QED BY <2>2, <3>1, Zenon
    <2>4. CASE size > Len(w.rest)
      <3>1. u = [w EXCEPT !.thrown = TRUE]
        BY <2>1, <2>2, <2>3, <2>4, Zenon DEF parseString
      <3> QED BY <1>1, <3>1 DEF LooseViews
    <2>5. CASE ~(size > Len(w.rest))
      <3> PICK s : s = WithValues(w, vs)
        OBVIOUS
      <3>1. s \in LooseViews /\ s.rest = w.rest /\ s.beyond = FALSE
        <4>1. s \in LooseViews /\ s.rest = w.rest
          BY <1>1, <2>1, WithValuesIs
        <4>2. s.beyond = w.beyond
          BY <1>1 DEF WithValues, LooseViews
        <4> QED BY <1>1, <4>1, <4>2
      <3>2. u = extractDataView(s, size)
        BY <2>1, <2>2, <2>3, <2>5, Zenon DEF parseString, WithValues
      <3>3. u.beyond = (s.beyond \/ size > Len(s.rest))
        BY <3>1, <3>2, ViewEnds
      <3> QED BY <2>5, <3>1, <3>3
    <2> QED BY <2>4, <2>5
  <1> QED BY <1>2, <1>3

\* A field that is checked is not read past the end of the buffer.
LEMMA FieldWithin ==
  ASSUME NEW v \in LooseViews, v.beyond = FALSE, NEW kind \in Kinds \cup {"string"}
  PROVE  ReadField(v, kind) \in LooseViews /\ ReadField(v, kind).beyond = FALSE
  <1> PICK u : u = ReadField(v, kind)
    OBVIOUS
  <1>1. v.thrown \in BOOLEAN
    BY DEF LooseViews
  <1>2. CASE v.thrown = TRUE
    <2>1. u = v
      BY <1>2, Zenon DEF ReadField
    <2> QED BY <2>1
  <1>3. CASE v.thrown = FALSE
    <2>1. u \in LooseViews
      BY <1>3, FieldTaken
    <2>2. ASSUME NEW k \in Kinds
          PROVE  parseInteger(v, k).beyond = FALSE
      <3> PICK w : w = parseInteger(v, k)
        OBVIOUS
      <3>1. CASE Len(v.rest) < Width[k]
        <4>1. w = [v EXCEPT !.thrown = TRUE]
          BY <3>1, Zenon DEF parseInteger
        <4> QED BY <4>1 DEF LooseViews
      <3>2. CASE ~(Len(v.rest) < Width[k])
        <4> PICK vs : vs = Append(v.values, IF Outside \in ToSet(SubSeq(v.rest, 1, Width[k]))
                                            THEN Outside
                                            ELSE LowEndianValue(SubSeq(v.rest, 1, Width[k])))
          OBVIOUS
        <4> PICK left : left = SubSeq(v.rest, Width[k] + 1, Len(v.rest))
          OBVIOUS
        <4>1. w = [v EXCEPT !.values = vs, !.rest = left]
          BY <3>2, Zenon DEF parseInteger
        <4> HIDE DEF LooseViews
        <4>2. w.beyond = v.beyond
          BY <4>1, ViewKeeps
        <4> QED BY <4>2
      <3> QED BY <3>1, <3>2
    <2>3. CASE kind # "string"
      <3>1. u = parseInteger(v, kind) /\ kind \in Kinds
        BY <1>3, <2>3, Zenon DEF ReadField
      <3> QED BY <2>1, <2>2, <3>1
    <2>4. CASE kind = "string"
      <3>1. u = parseString(v) /\ "u16" \in Kinds
        BY <1>3, <2>4, KindsAre, Zenon DEF ReadField
      <3>2. u.beyond = FALSE
        BY <1>3, <2>2, <3>1, StringWithin
      <3> QED BY <2>1, <3>2
    <2> QED BY <2>3, <2>4
  <1> QED BY <1>1, <1>2, <1>3

\* Nor is a row of them.
LEMMA FieldsWithin ==
  ASSUME NEW v \in LooseViews, v.beyond = FALSE, NEW n \in Nat, NEW kinds, DOMAIN kinds = 1 .. n,
         \A k \in 1 .. n : kinds[k] \in Kinds \cup {"string"}
  PROVE  ParseFields(v, kinds) \in LooseViews /\ ParseFields(v, kinds).beyond = FALSE
  <1>views. PICK views : ViewsOf(v, kinds, n, views)
    BY Zenon, ViewsExist
  <1>from. /\ views[0] = v /\ ParseFields(v, kinds) = views[n]
           /\ \A k \in 1 .. n : views[k] = ReadField(views[k - 1], kinds[k])
    BY Zenon, <1>views DEF ViewsOf
  <1> DEFINE S == {k \in 0 .. n : views[k] \in LooseViews /\ views[k].beyond = FALSE}
  <1>1. 0 \in S
    BY <1>from
  <1>2. ASSUME NEW k \in 0 .. n - 1, k \in S PROVE k + 1 \in S
    <2> PICK m : m = k + 1
      OBVIOUS
    <2>1. m \in 1 .. n /\ m - 1 = k /\ m \in 0 .. n
      OBVIOUS
    <2>2. /\ views[m] = ReadField(views[k], kinds[m]) /\ kinds[m] \in Kinds \cup {"string"}
          /\ views[k] \in LooseViews /\ views[k].beyond = FALSE
      BY <1>2, <1>from, <2>1
    <2>3. views[m] \in LooseViews /\ views[m].beyond = FALSE
      BY <2>2, FieldWithin
    <2> QED BY <2>1, <2>3
  <1>3. n \in S
    <2>1. 0 .. n \subseteq S
      <3> HIDE DEF S
      <3> QED BY <1>1, <1>2, UpTo
    <2> QED BY <2>1
  <1> QED BY <1>3, <1>from

\* The buffer has the frame's octets where it has any, and may go on behind it.
IsPartOf(buffer, frame) ==
    /\ buffer \in Seq(Octets)
    /\ \A i \in 1 .. Len(buffer) : i <= Len(frame) => buffer[i] \in {0, frame[i]}

\* One octet stands for itself.
LEMMA SingleValue ==
  ASSUME NEW s \in Seq(Octets), Len(s) = 1
  PROVE  LowEndianValue(s) = s[1]
  <1> PICK value : /\ value \in [0 .. Len(s) -> Nat] /\ value[0] = 0
                   /\ \A k \in 1 .. Len(s) : value[k] = value[k - 1] + s[k] * Shift[k - 1]
                   /\ LowEndianValue(s) = value[Len(s)]
    BY ValueSteps
  <1>1. 1 \in 1 .. Len(s) /\ 1 - 1 = 0
    OBVIOUS
  <1>2. value[1] = value[0] + s[1] * Shift[0]
    BY <1>1
  <1>3. s[1] \in Nat /\ Shift[0] = 1
    <2>1. s[1] \in Octets
      BY <1>1, ElementOfSeq
    <2>2. Shift[0] = 1
      BY ShiftSteps
    <2> QED BY <2>1, <2>2, RadixAssumption DEF Octets
  <1> QED BY <1>2, <1>3

\* A number read from part of a frame is no greater than the frame's.
LEMMA NumberAtMost ==
  ASSUME NEW frame \in Seq(Octets), NEW buffer, IsPartOf(buffer, frame), NEW p \in Nat,
         NEW kind \in Kinds, NEW y \in 0 .. Limit(kind) - 1,
         StandsAt(frame, p, LittleEndian(y, Width[kind])), p + Width[kind] <= Len(buffer),
         NEW x, IsNumber(x, buffer, p, Width[kind])
  PROVE  x \in Nat /\ x <= y /\ (Width[kind] = 1 => x \in {0, y})
  <1> PICK w : w = Width[kind]
    OBVIOUS
  <1> PICK t : t = LittleEndian(y, w)
    OBVIOUS
  <1> PICK s : IsPiece(s, buffer, p, w) /\ x = LowEndianValue(s)
    BY Zenon DEF IsNumber
  <1> PICK l : l = Len(buffer)
    OBVIOUS
  <1> PICK n : n = Len(frame)
    OBVIOUS
  <1>1. w \in Nat \ {0} /\ Limit(kind) = Shift[w] /\ Limit(kind) \in Nat /\ y \in Nat
        /\ x \in Nat
    <2>1. w \in Nat \ {0} /\ Limit(kind) = Shift[w] /\ Limit(kind) \in Nat
      BY LimitPositive DEF Limit
    <2> QED BY <2>1 DEF IsNumber
  <1>2. t \in Seq(Octets) /\ Len(t) = w
    BY <1>1, LittleEndianType
  <1>3. /\ s \in Seq(Octets) /\ Len(s) = w /\ \A i \in 1 .. w : s[i] = buffer[p + i]
    BY DEF IsPiece
  <1>4. /\ p + w <= n /\ p + w <= l /\ l \in Nat /\ n \in Nat
        /\ \A i \in 1 .. w : frame[p + i] = t[i]
        /\ \A i \in 1 .. l : i <= n => buffer[i] \in {0, frame[i]}
    BY <1>2 DEF IsPartOf, StandsAt
  <1>5. ASSUME NEW i \in 1 .. w PROVE s[i] \in {0, t[i]} /\ t[i] \in Nat
    <2> PICK j : j = p + i
      OBVIOUS
    <2>1. j \in 1 .. l /\ j <= n
      BY <1>1, <1>4
    <2>2. buffer[j] \in {0, frame[j]}
      BY <1>4, <2>1
    <2>3. s[i] = buffer[j] /\ frame[j] = t[i]
      BY <1>3, <1>4
    <2>4. t[i] \in Nat
      BY <1>2, RadixAssumption DEF Octets
    <2> QED BY <2>2, <2>3, <2>4
  <1>6. LowEndianValue(t) = y
    <2>1. LowEndianValue(t) = y % Shift[w]
      BY <1>1, IntegerRoundTrip
    <2> PICK limit : limit = Shift[w]
      OBVIOUS
    <2>2. limit \in Nat /\ y \in 0 .. limit - 1
      BY <1>1
    <2>3. y % limit = y
      BY <2>2, WithinModulus
    <2> QED BY <2>1, <2>3
  <1>7. x <= y
    <2>1. Len(s) = Len(t) /\ \A i \in 1 .. Len(s) : s[i] <= t[i]
      <3>1. \A i \in 1 .. w : s[i] <= t[i]
        BY <1>5
      <3> QED BY <1>2, <1>3, <3>1
    <2>2. LowEndianValue(s) <= LowEndianValue(t)
      BY <1>2, <1>3, <2>1, ValueMonotone
    <2> QED BY <1>6, <2>2
  <1>8. ASSUME w = 1 PROVE x \in {0, y}
    <2>1. 1 \in 1 .. w
      BY <1>8
    <2>2. x = s[1] /\ y = t[1]
      BY <1>2, <1>3, <1>6, <1>8, SingleValue
    <2> QED BY <1>5, <2>1, <2>2
  <1> QED BY <1>1, <1>7, <1>8

\* A code is the frame's, or zero.
LEMMA CodeAtMost ==
  ASSUME NEW frame \in Seq(Octets), NEW buffer, IsPartOf(buffer, frame), NEW p \in Nat,
         NEW w, w = Width["u8"], NEW code \in 0 .. Limit("u8") - 1,
         StandsAt(frame, p, LittleEndian(code, w)), p + w <= Len(buffer),
         NEW x, IsNumber(x, buffer, p, w)
  PROVE  x \in {0, code}
  BY KindsAre, CodeAssumption, NumberAtMost

\* A view of all of a buffer stands at its front.
LEMMA ViewTracks ==
  ASSUME NEW buffer \in Seq(Octets)
  PROVE  Tracks(View(buffer), buffer, 0) /\ View(buffer).values = <<>>
  BY DEF Tracks, View, LooseViews

\* The header of a part of a frame: its type is the frame's, or none.
LEMMA HeaderTracked ==
  ASSUME NEW m, NEW frame, NEW size, NEW code, NEW tag, NEW payload,
         FrameIs(m, frame, size, code, tag, payload),
         NEW buffer, IsPartOf(buffer, frame), NEW head,
         head = ParseFields(View(buffer), HeaderKinds), head.thrown # TRUE
  PROVE  /\ head.values[2] \in {0, code}
         /\ Tracks(head, buffer, Width["u32"] + Width["u8"] + Width["u16"])
  <1> PICK w4 : w4 = Width["u32"]
    OBVIOUS
  <1> PICK w1 : w1 = Width["u8"]
    OBVIOUS
  <1> PICK w2 : w2 = Width["u16"]
    OBVIOUS
  <1> PICK v : v = View(buffer)
    OBVIOUS
  <1>1. /\ "u32" \in Kinds /\ "u8" \in Kinds /\ "u16" \in Kinds /\ w4 \in Nat \ {0}
        /\ w1 = 1 /\ w2 \in Nat \ {0} /\ buffer \in Seq(Octets)
    BY KindsAre, LimitPositive, CodeAssumption DEF IsPartOf
  <1>2. DOMAIN HeaderKinds = 1 .. 3 /\ HeaderKinds[1] = "u32" /\ HeaderKinds[2] = "u8"
        /\ HeaderKinds[3] = "u16"
    BY DEF HeaderKinds
  <1> PICK views : ViewsOf(v, HeaderKinds, 3, views)
    BY <1>2, ViewsExist
  <1> PICK a : a = views[1]
    OBVIOUS
  <1> PICK b : b = views[2]
    OBVIOUS
  <1>3. a = ReadField(v, "u32") /\ b = ReadField(a, "u8") /\ head = ReadField(b, "u16")
    <2>1. 1 \in 1 .. 3 /\ 2 \in 1 .. 3 /\ 3 \in 1 .. 3 /\ 1 - 1 = 0 /\ 2 - 1 = 1 /\ 3 - 1 = 2
      OBVIOUS
    <2> QED BY <1>2, <2>1 DEF ViewsOf
  <1>4. Tracks(v, buffer, 0) /\ v.values = <<>>
    BY <1>1, ViewTracks
  <1>5. v \in LooseViews /\ v.thrown = FALSE /\ v.beyond = FALSE
    BY <1>4 DEF Tracks
  <1>6. /\ a \in LooseViews /\ a.beyond = FALSE /\ b \in LooseViews /\ b.beyond = FALSE
        /\ head \in LooseViews
    <2>1. a \in LooseViews /\ a.beyond = FALSE
      BY <1>1, <1>3, <1>5, FieldWithin
    <2>2. b \in LooseViews /\ b.beyond = FALSE
      BY <1>1, <1>3, <2>1, FieldWithin
    <2> QED BY <1>1, <1>3, <2>1, <2>2, FieldWithin
  <1>7. b.thrown = FALSE
    <2>1. b.thrown = TRUE => head = b
      BY <1>3, Zenon DEF ReadField
    <2> QED BY <1>6, <2>1 DEF LooseViews
  <1>8. a.thrown = FALSE
    <2>1. a.thrown = TRUE => b = a
      BY <1>3, Zenon DEF ReadField
    <2> QED BY <1>6, <1>7, <2>1 DEF LooseViews
  <1>9. /\ a = parseInteger(v, "u32") /\ b = parseInteger(a, "u8")
        /\ head = parseInteger(b, "u16") /\ head.thrown = FALSE
    <2>1. head.thrown = FALSE
      BY <1>6 DEF LooseViews
    <2> QED BY <1>3, <1>5, <1>7, <1>8, <2>1 DEF ReadField
  <1>10. Tracks(a, buffer, w4) /\ TakesNumber(a, v, buffer, 0, w4)
    <2>1. Tracks(a, buffer, 0 + w4) /\ TakesNumber(a, v, buffer, 0, w4)
      BY <1>1, <1>4, <1>8, <1>9, IntegerTracked
    <2>2. 0 + w4 = w4
      BY <1>1
    <2> QED BY <2>1, <2>2
  <1>11. Tracks(b, buffer, w4 + w1) /\ TakesNumber(b, a, buffer, w4, w1)
    BY <1>1, <1>7, <1>9, <1>10, IntegerTracked
  <1>12. Tracks(head, buffer, w4 + w1 + w2) /\ TakesNumber(head, b, buffer, w4 + w1, w2)
    <2> PICK p : p = w4 + w1
      OBVIOUS
    <2>1. Tracks(head, buffer, p + w2) /\ TakesNumber(head, b, buffer, p, w2)
      BY <1>1, <1>9, <1>11, IntegerTracked
    <2> QED BY <2>1
  <1>x. PICK x : IsNumber(x, buffer, w4, w1) /\ b.values = Append(a.values, x)
    BY <1>11, Zenon DEF TakesNumber
  <1>13. head.values[2] = x
    <2>1. /\ a.values \in Seq(Loose) /\ b.values \in Seq(Loose) /\ head.values \in Seq(Loose)
      BY <1>6 DEF LooseViews
    <2>2. PICK z : a.values = Append(<<>>, z)
      BY <1>4, <1>10, Zenon DEF TakesNumber
    <2>3. PICK y : head.values = Append(b.values, y)
      BY <1>12, Zenon DEF TakesNumber
    <2>4. Len(a.values) = 1
      BY <2>2
    <2>5. Len(b.values) = 2 /\ b.values[2] = x
      <3>1. x \in Loose
        BY <1>x DEF IsNumber, Loose
      <3>2. EndsSecond(b.values, x)
        BY Zenon, <1>x, <2>1, <2>4, <3>1, SecondOf
      <3> QED BY Zenon, <3>2 DEF EndsSecond
    <2> QED BY <2>1, <2>3, <2>5
  <1>14. x \in {0, code}
    <2>1. frame \in Seq(Octets) /\ FieldAt(frame, w4, "u8", code, w4 + w1)
      BY Zenon DEF FrameIs
    <2>2. code \in 0 .. Limit("u8") - 1 /\ StandsAt(frame, w4, LittleEndian(code, w1))
      BY <2>1 DEF FieldAt
    <2>3. w4 + w1 <= Len(buffer)
      <3>1. w4 + w1 \in 0 .. Len(buffer)
        BY <1>11 DEF Tracks
      <3> QED BY <1>1, <3>1
    <2>4. IsNumber(x, buffer, w4, w1)
      BY <1>x, Zenon
    <2>5. w4 \in Nat
      BY <1>1
    <2> QED BY <2>1, <2>2, <2>3, <2>4, <2>5, CodeAtMost, Zenon
  <1> QED BY <1>12, <1>13, <1>14

\* The payload of most types is checked throughout.
LEMMA PayloadWithin ==
  ASSUME NEW type \in ReplyNames \ {"RRead", "RStat"}, NEW v \in LooseViews, v.thrown = FALSE,
         v.beyond = FALSE, v.values = <<>>
  PROVE  parseMessagePayload(type, v).beyond = FALSE
  <1> PICK u : u = parseMessagePayload(type, v)
    OBVIOUS
  <1>1. "u8" \in Kinds /\ "u16" \in Kinds /\ "u32" \in Kinds /\ "u64" \in Kinds
    BY KindsAre
  <1>2. CASE type = "RWalk"
    <2> PICK w : w = parseInteger(v, "u16")
      OBVIOUS
    <2>1. u = parseRWalk(v)
      BY <1>2 DEF parseMessagePayload
    <2>2. w = ReadField(v, "u16")
      BY Zenon DEF ReadField
    <2>3. w \in LooseViews /\ w.beyond = FALSE
      BY <1>1, <2>2, FieldWithin
    <2>4. CASE w.thrown
      <3>1. u = w
        BY <2>1, <2>4, Zenon DEF parseRWalk
      <3> QED BY <2>3, <3>1
    <2>5. CASE ~w.thrown
      <3>1. w.thrown = FALSE
        BY <2>3, <2>5 DEF LooseViews
      <3> PICK x \in Nat : HasTaken(w, v, x, Width["u16"])
        BY <1>1, <3>1, IntegerTaken
      <3>2. w.values = Append(v.values, x) /\ <<>> \in Seq(Nat)
        BY DEF HasTaken
      <3>3. Last(w.values) = x
        <4>1. Last(Append(<<>>, x)) = x
          BY <3>2, AppendedIs
        <4> QED BY <3>2, <4>1, Zenon
      <3> PICK kinds : kinds = QidKindsOf(x)
        OBVIOUS
      <3> PICK f : f = ParseFields(w, kinds)
        OBVIOUS
      <3>4. u = WithValues(f, <<x>>)
        BY <2>1, <2>5, <3>3, Zenon DEF parseRWalk, QidKindsOf, WithValues
      <3>5. f \in LooseViews /\ f.beyond = FALSE
        <4> PICK rows : rows = [i \in 1 .. x |-> Qid]
          OBVIOUS
        <4>1. rows \in Seq(Seq(Kinds \cup {"string"}))
          BY QidKinds
        <4>2. kinds = FlattenSeq(rows)
          BY Zenon DEF QidKindsOf
        <4>3. kinds \in Seq(Kinds \cup {"string"})
          BY <4>1, <4>2, FlattenPlaces
        <4>4. DOMAIN kinds = 1 .. Len(kinds) /\ Len(kinds) \in Nat
              /\ \A k \in 1 .. Len(kinds) : kinds[k] \in Kinds \cup {"string"}
          BY <4>3, LenProperties, ElementOfSeq
        <4> QED BY <2>3, <4>4, FieldsWithin
      <3>6. u.beyond = f.beyond
        BY <3>4, <3>5 DEF WithValues, LooseViews
      <3> QED BY <3>5, <3>6
    <2> QED BY <2>4, <2>5
  <1>3. CASE type # "RWalk"
    <2> PICK kinds : kinds = FixedFields(type)
      OBVIOUS
    <2>1. u = ParseFields(v, kinds)
      BY <1>3 DEF parseMessagePayload
    <2>2. \E n \in Nat : DOMAIN kinds = 1 .. n /\ \A k \in 1 .. n : kinds[k] \in Kinds \cup {"string"}
      <3>1. CASE type \in {"RAuth", "RAttach"}
        <4>1. kinds = <<"u8", "u32", "u64">>
          BY <3>1, FixedFieldsAre DEF Qid
        <4> QED BY <1>1, <4>1
      <3>2. CASE type = "RVersion"
        <4>1. kinds = <<"u32", "string">>
          BY <3>2, FixedFieldsAre
        <4> QED BY <1>1, <4>1
      <3>3. CASE type = "RError"
        <4>1. kinds = <<"string">>
          BY <3>3, FixedFieldsAre
        <4> QED BY <1>1, <4>1
      <3>4. CASE type = "ROpen"
        <4>1. kinds = <<"u8", "u32", "u64", "u32">>
          BY <3>4, FixedFieldsAre DEF Qid
        <4> QED BY <1>1, <4>1
      <3>5. CASE type = "RClunk"
        <4>1. kinds = <<>>
          BY <3>5, FixedFieldsAre
        <4>2. DOMAIN kinds = 1 .. 0
          BY <4>1
        <4> QED BY <4>2
      <3> QED BY <1>3, <3>1, <3>2, <3>3, <3>4, <3>5 DEF ReplyNames
    <2> QED BY <2>1, <2>2, FieldsWithin
  <1> QED BY <1>2, <1>3

\* The data that is read is as long as its size says.
LEMMA DataLength ==
  ASSUME NEW v \in LooseViews, NEW count \in Nat, v.values = <<>>
  PROVE  Len(extractDataView(v, count).values[1]) = count
  <1> PICK x : x = [i \in 1 .. count |-> IF i <= Len(v.rest) THEN v.rest[i] ELSE Outside]
    OBVIOUS
  <1> PICK vs : vs = Append(v.values, x)
    OBVIOUS
  <1> PICK left : left = SubSeq(v.rest, count + 1, Len(v.rest))
    OBVIOUS
  <1> PICK beyond : beyond = (v.beyond \/ count > Len(v.rest))
    OBVIOUS
  <1>1. extractDataView(v, count) = [v EXCEPT !.values = vs, !.rest = left, !.beyond = beyond]
    BY Zenon DEF extractDataView
  <1>2. extractDataView(v, count).values = vs
    BY <1>1 DEF LooseViews
  <1>3. vs[1] = x
    OBVIOUS
  <1>4. Len(x) = count
    OBVIOUS
  <1> QED BY <1>2, <1>3, <1>4, Zenon

\* The data read from part of an RRead is no longer than what the server has sent.
LEMMA DataAtMost ==
  ASSUME NEW frame \in Seq(Octets), NEW buffer, IsPartOf(buffer, frame), NEW p,
         NEW data, SizeHolds("u32", data), StandsAt(frame, p, Sized("u32", data)),
         NEW v, Tracks(v, buffer, p), v.values = <<>>,
         NEW u, u = SizedView(v, "u32"), u.thrown # TRUE
  PROVE  Len(u.values[1]) \in 0 .. Len(data)
  <1> PICK w : w = parseInteger(v, "u32")
    OBVIOUS
  <1> PICK w4 : w4 = Width["u32"]
    OBVIOUS
  <1> PICK n : n = Len(data)
    OBVIOUS
  <1>1. /\ "u32" \in Kinds /\ buffer \in Seq(Octets) /\ v \in LooseViews /\ p \in Nat
        /\ w4 \in Nat /\ n \in 0 .. Limit("u32") - 1 /\ n \in Nat /\ data \in Seq(Octets)
    <2>1. "u32" \in Kinds /\ w4 \in Nat /\ Limit("u32") \in Nat
      BY KindsAre, LimitPositive
    <2>2. buffer \in Seq(Octets) /\ v \in LooseViews /\ p \in 0 .. Len(buffer)
      BY DEF IsPartOf, Tracks
    <2>3. data \in Seq(Octets) /\ n < Limit("u32")
      BY DEF SizeHolds
    <2>4. p \in Nat /\ n \in Nat
      BY <2>2, <2>3
    <2> QED BY <2>1, <2>2, <2>3, <2>4
  <1>2. w \in LooseViews /\ w.thrown = FALSE
    <2>1. w \in LooseViews
      BY <1>1, IntegerTaken
    <2>2. w.thrown => u = w
      BY Zenon DEF SizedView
    <2> QED BY <2>1, <2>2 DEF LooseViews
  <1>3. Tracks(w, buffer, p + w4) /\ TakesNumber(w, v, buffer, p, w4)
    BY <1>1, <1>2, IntegerTracked
  <1>x. PICK x : IsNumber(x, buffer, p, w4) /\ w.values = Append(v.values, x)
    BY <1>3, Zenon DEF TakesNumber
  <1>4. IsNumber(x, buffer, p, w4)
    BY <1>x
  <1>5. StandsAt(frame, p, LittleEndian(n, w4))
    <2> PICK le : le = LittleEndian(n, w4)
      OBVIOUS
    <2>1. le \in Seq(Octets)
      BY <1>1, LittleEndianType
    <2>2. StandsAt(frame, p, le \o data)
      BY Zenon DEF Sized
    <2> QED BY <1>1, <2>1, <2>2, StandsBehind
  <1>6. p + w4 <= Len(buffer)
    <2>1. p + w4 \in 0 .. Len(buffer)
      BY <1>3 DEF Tracks
    <2> QED BY <1>1, <2>1
  <1>7. x \in Nat /\ x <= n
    BY <1>1, <1>4, <1>5, <1>6, NumberAtMost
  <1> PICK vs : vs = v.values
    OBVIOUS
  <1>8. Last(w.values) = x /\ Front(w.values) = vs /\ x # Outside
    <2>1. vs \in Seq(Loose) /\ x \in Loose /\ x # Outside
      BY <1>1, <1>7 DEF LooseViews, Loose, Outside
    <2>2. Last(Append(vs, x)) = x /\ Front(Append(vs, x)) = vs
      BY <2>1, AppendedIs
    <2> QED BY <1>x, <2>1, <2>2, Zenon
  <1> PICK s : s = WithValues(w, vs)
    OBVIOUS
  <1>9. s \in LooseViews /\ s.values = <<>>
    <2>1. vs \in Seq(Loose)
      BY <1>1 DEF LooseViews
    <2> QED BY <1>2, <2>1, WithValuesIs
  <1>10. u = extractDataView(s, x)
    BY <1>2, <1>8, Zenon DEF SizedView, WithValues
  <1>11. Len(u.values[1]) = x
    BY <1>7, <1>9, <1>10, DataLength
  <1> QED BY <1>1, <1>7, <1>11

\* What parseMessage reads: the header, the type it names and the payload.
HeadOf(buffer) == ParseFields(View(buffer), HeaderKinds)
TypeOf(buffer) == TypeNames[HeadOf(buffer).values[2]]
BodyOf(buffer) == parseMessagePayload(TypeOf(buffer), WithValues(HeadOf(buffer), <<>>))

\* A reply is none, or no header has thrown: then it is a crash behind the end of the
\* buffer, or the payload that has been read.
LEMMA MessageForms ==
  ASSUME NEW buffer, NEW mm \in parseMessage(buffer)
  PROVE  \/ mm = Thrown
         \/ /\ HeadOf(buffer).thrown # TRUE /\ HeadOf(buffer).values[2] \in DOMAIN TypeNames
            /\ \/ mm = Crash /\ BodyOf(buffer).beyond
               \/ mm = Payload(TypeOf(buffer), BodyOf(buffer).values) /\ ~BodyOf(buffer).thrown
  <1> PICK head : head = HeadOf(buffer)
    OBVIOUS
  <1> PICK code : code = head.values[2]
    OBVIOUS
  <1> PICK type : type = TypeOf(buffer)
    OBVIOUS
  <1> PICK u : u = BodyOf(buffer)
    OBVIOUS
  <1>1. parseMessage(buffer) =
           IF head.thrown \/ code \notin DOMAIN TypeNames THEN {Thrown}
           ELSE (IF u.thrown \/ (u.beyond /\ type = "RStat") THEN {Thrown} ELSE {})
                \cup (IF u.beyond THEN {Crash} ELSE {})
                \cup (IF u.thrown THEN {} ELSE {Payload(type, u.values)})
    BY Zenon DEF parseMessage, HeaderKinds, HeadOf, TypeOf, BodyOf, WithValues
  <1>2. CASE head.thrown \/ code \notin DOMAIN TypeNames
    BY <1>1, <1>2
  <1>3. CASE ~(head.thrown \/ code \notin DOMAIN TypeNames)
    <2>1. mm \in (IF u.thrown \/ (u.beyond /\ type = "RStat") THEN {Thrown} ELSE {})
                 \cup (IF u.beyond THEN {Crash} ELSE {})
                 \cup (IF u.thrown THEN {} ELSE {Payload(type, u.values)})
      BY <1>1, <1>3, Zenon
    <2>2. mm = Thrown \/ (mm = Crash /\ u.beyond) \/ (mm = Payload(type, u.values) /\ ~u.thrown)
      BY <2>1
    <2>3. head.thrown # TRUE /\ code \in DOMAIN TypeNames
      BY <1>3
    <2> QED BY <2>2, <2>3, Zenon
  <1> QED BY <1>2, <1>3

\* Only an RRead has data.
LEMMA PayloadData ==
  ASSUME NEW type, NEW vs
  PROVE  /\ Payload(type, vs).type = type
         /\ Payload(type, vs).data = IF type = "RRead" THEN vs[1] ELSE <<>>
  BY DEF Payload, Parsed

\* So it is with what parseMessage returns.
LEMMA MessageData ==
  ASSUME NEW buffer, NEW mm \in parseMessage(buffer), mm.type # "RRead"
  PROVE  mm.data = <<>>
  <1>1. Thrown.data = <<>> /\ Crash.data = <<>>
    BY DEF Thrown, Crash, Parsed
  <1> PICK type : type = TypeOf(buffer)
    OBVIOUS
  <1> PICK vs : vs = BodyOf(buffer).values
    OBVIOUS
  <1>2. mm = Thrown \/ mm = Crash \/ mm = Payload(type, vs)
    BY MessageForms, Zenon
  <1>3. ASSUME mm = Payload(type, vs) PROVE mm.data = <<>>
    BY <1>3, PayloadData
  <1> QED BY <1>1, <1>2, <1>3

\* The abstract form of a message.
LEMMA AbstractIs ==
  ASSUME NEW m
  PROVE  /\ Abstract(m).type = m.type /\ Abstract(m).n = m.n /\ Abstract(m).tag = 0
         /\ m.type # "RStat" => Abstract(m).data = m.data
         /\ m.type = "RStat" => Len(Abstract(m).data) = 1 /\ Abstract(m).data # <<>>
  BY DEF Abstract

\* From the middle of a message any octets are read as some garbage.
LEMMA GarbageStands ==
  ASSUME Cut, NEW buffer, NEW mm \in parseMessage(buffer)
  PROVE  \E r \in C!Garbage : StandsFor(r, mm)
  <1> PICK a : a = Abstract(mm)
    OBVIOUS
  <1>1. CASE mm.type \notin C!ReplyTypes \/ mm.type = "none"
    <2>1. C!Broken \in C!Garbage /\ C!Broken.type = "none"
      BY DEF C!Garbage, C!ReplyTypes, C!Broken
    <2>2. StandsFor(C!Broken, mm)
      BY <1>1, <2>1, Zenon DEF StandsFor
    <2> QED BY <2>1, <2>2
  <1>2. CASE ~(mm.type \notin C!ReplyTypes \/ mm.type = "none")
    <2> PICK d : d = IF a.data = <<>> THEN <<>> ELSE <<C!Bad>>
      OBVIOUS
    <2> PICK r : r = [type |-> mm.type, tag |-> 0, n |-> 0, data |-> d]
      OBVIOUS
    <2>1. a.data # <<>> => mm.type \in {"RRead", "RStat"}
      <3>1. mm.type # "RStat" => a.data = mm.data
        BY AbstractIs
      <3> QED BY <3>1, MessageData
    <2>2. r \in C!Garbage
      <3>1. CASE a.data = <<>>
        <4>1. r = [type |-> mm.type, tag |-> 0, n |-> 0, data |-> <<>>]
          BY <3>1
        <4> QED BY <1>2, <4>1, Zenon DEF C!Garbage
      <3>2. CASE a.data # <<>>
        <4>1. r = [type |-> mm.type, tag |-> 0, n |-> 0, data |-> <<C!Bad>>]
          BY <3>2
        <4> QED BY <2>1, <3>2, <4>1, Zenon DEF C!Garbage
      <3> QED BY <3>1, <3>2
    <2>3. r.type = mm.type /\ r.n = 0 /\ r.data = d /\ (d = <<>> <=> a.data = <<>>)
      <3>1. <<C!Bad>> # <<>>
        OBVIOUS
      <3> QED BY <3>1
    <2>4. r.n \in {0, a.n} /\ (r.data = <<>> <=> a.data = <<>>)
      BY <2>3
    <2>5. StandsFor(r, mm)
      BY <1>2, <2>3, <2>4, Zenon DEF StandsFor
    <2> QED BY <2>2, <2>5
  <1> QED BY <1>1, <1>2

\* Such a row of Bad ones.
BadRow(s, len) == Len(s) = len /\ \A i \in DOMAIN s : s[i] = C!Bad

\* A message with such a row.
IsBadly(r, type, len) == r.type = type /\ r.n = 0 /\ BadRow(r.data, len)

\* A message with another number and so many data, of which the first k are its own.
DamagedTo(a, n, len, k) ==
    [a EXCEPT !.n = n, !.data = [i \in 1 .. len |-> IF i <= k THEN a.data[i] ELSE C!Bad]]

\* Those are damaged messages.
LEMMA DamagedIs ==
  ASSUME NEW a
  PROVE  C!Damaged(a) = {C!Broken} \cup (IF a.type \in {"RRead", "RStat"} THEN {C!Overrun} ELSE {})
                        \cup {DamagedTo(a, n, len, k) : n \in {0, a.n}, len \in 0 .. Len(a.data),
                                                        k \in 0 .. Len(a.data)}
  BY SMT DEF C!Damaged, DamagedTo

\* A damaged message may have no number and as few data as one likes, all Bad.
LEMMA DamagedHas ==
  ASSUME NEW m, NEW l \in Nat, Len(Abstract(m).data) = l, NEW len \in 0 .. l
  PROVE  \E r \in C!Damaged(Abstract(m)) : IsBadly(r, m.type, len)
  <1> PICK a : a = Abstract(m)
    OBVIOUS
  <1> PICK r : r = DamagedTo(a, 0, len, 0)
    OBVIOUS
  <1>1. r \in C!Damaged(a)
    <2>1. 0 \in {0, a.n} /\ 0 \in 0 .. Len(a.data) /\ len \in 0 .. Len(a.data)
      OBVIOUS
    <2>2. r \in {DamagedTo(a, n, x, k) : n \in {0, a.n}, x \in 0 .. Len(a.data),
                                         k \in 0 .. Len(a.data)}
      BY <2>1
    <2> QED BY <2>2, DamagedIs
  <1> PICK d : d = [i \in 1 .. len |-> IF i <= 0 THEN a.data[i] ELSE C!Bad]
    OBVIOUS
  <1>2. BadRow(d, len)
    <2>1. \A i \in 1 .. len : ~(i <= 0)
      OBVIOUS
    <2>2. Len(d) = len /\ DOMAIN d = 1 .. len
      OBVIOUS
    <2> QED BY <2>1, <2>2 DEF BadRow
  <1>3. r.type = m.type /\ r.n = 0 /\ r.data = d
    BY DEF Abstract, DamagedTo
  <1>4. IsBadly(r, m.type, len)
    BY <1>2, <1>3, Zenon DEF IsBadly
  <1>5. r \in C!Damaged(Abstract(m))
    BY <1>1
  <1> HIDE DEF BadRow
  <1> QED BY <1>4, <1>5

\* A reply with that number of data is stood for by it.
LEMMA BadStands ==
  ASSUME NEW m, NEW mm, mm.type = m.type, m.type \in ReplyNames,
         NEW l \in Nat, Len(Abstract(m).data) = l, Len(Abstract(mm).data) \in 0 .. l,
         DOMAIN Abstract(mm).data = 1 .. Len(Abstract(mm).data)
  PROVE  \E r \in C!Damaged(Abstract(m)) : StandsFor(r, mm)
  <1> PICK a : a = Abstract(mm)
    OBVIOUS
  <1> PICK r \in C!Damaged(Abstract(m)) : IsBadly(r, m.type, Len(a.data))
    BY DamagedHas, Zenon
  <1>1. mm.type \in C!ReplyTypes /\ mm.type # "none"
    BY DEF ReplyNames, C!ReplyTypes
  <1>2. /\ Len(r.data) = Len(a.data)
        /\ \A i \in DOMAIN a.data : r.data[i] \in {a.data[i], C!Bad}
    BY DEF IsBadly, BadRow
  <1>3. r.type = mm.type /\ r.n \in {0, a.n}
    BY DEF IsBadly
  <1>4. StandsFor(r, mm)
    BY <1>1, <1>2, <1>3, Zenon DEF StandsFor
  <1> QED BY <1>4, Zenon

\* The data of a reply are as many as there are.
LEMMA ContentData ==
  ASSUME NEW m, m.type \in ReplyNames, Content(m)
  PROVE  /\ Len(Abstract(m).data) \in Nat
         /\ m.type = "RRead" => SizeHolds("u32", m.data) /\ EncodePayload(m) = Sized("u32", m.data)
  <1>1. CASE m.type = "RRead"
    <2>1. SizeHolds("u32", m.data)
      BY <1>1 DEF Content
    <2>2. m.data \in Seq(Octets)
      BY <2>1 DEF SizeHolds
    <2>3. Abstract(m).data = m.data
      BY <1>1, AbstractIs
    <2>4. EncodePayload(m) = Sized("u32", m.data)
      BY <1>1 DEF EncodePayload
    <2> QED BY <2>1, <2>2, <2>3, <2>4
  <1>2. CASE m.type = "RStat"
    BY <1>2, AbstractIs
  <1>3. CASE m.type \notin {"RRead", "RStat"}
    <2>1. m.data = <<>>
      <3>1. Parsed(m.type).data = <<>>
        BY DEF Parsed
      <3>2. CASE m.type = "RVersion"
        <4>1. m = [Parsed(m.type) EXCEPT !.n = m.n, !.text = m.text]
          BY <3>2 DEF Content
        <4> QED BY <4>1 DEF Parsed
      <3>3. CASE m.type = "RError"
        <4>1. m = [Parsed(m.type) EXCEPT !.text = m.text]
          BY <3>3 DEF Content
        <4> QED BY <4>1 DEF Parsed
      <3>4. CASE m.type = "RWalk"
        <4>1. m = [Parsed(m.type) EXCEPT !.n = m.n]
          BY <3>4 DEF Content
        <4> QED BY <4>1 DEF Parsed
      <3>5. CASE m.type \in {"RAuth", "RAttach", "ROpen", "RClunk"}
        <4>1. m = Parsed(m.type)
          BY <3>5 DEF Content
        <4> QED BY <3>1, <4>1
      <3> QED BY <1>3, <3>2, <3>3, <3>4, <3>5 DEF ReplyNames
    <2>2. Abstract(m).data = m.data
      BY <1>3, AbstractIs
    <2>3. Len(<<>>) \in Nat
      OBVIOUS
    <2> QED BY <1>3, <2>1, <2>2, <2>3
  <1> QED BY <1>1, <1>2, <1>3

\* The two ways a damaged message is no message.
LEMMA BrokenStands ==
  ASSUME NEW a
  PROVE  /\ C!Broken \in C!Damaged(a) /\ StandsFor(C!Broken, Thrown)
         /\ a.type \in {"RRead", "RStat"} => C!Overrun \in C!Damaged(a)
         /\ StandsFor(C!Overrun, Crash)
  <1>1. C!Broken \in C!Damaged(a) /\ (a.type \in {"RRead", "RStat"} => C!Overrun \in C!Damaged(a))
    BY DamagedIs
  <1>2. StandsFor(C!Overrun, Crash)
    <2>1. /\ Crash.type = "overrun" /\ Crash.data = <<>> /\ Crash.n = 0
      BY DEF Crash, Parsed
    <2>2. /\ C!Overrun.type = "overrun" /\ C!Overrun.n = 0 /\ C!Overrun.data = <<>>
      BY DEF C!Overrun
    <2>3. Abstract(Crash).data = <<>> /\ Abstract(Crash).n = 0
      BY <2>1, AbstractIs
    <2>4. "overrun" \in C!ReplyTypes
      BY DEF C!ReplyTypes
    <2>5. \A i \in DOMAIN <<>> : <<>>[i] \in {<<>>[i], C!Bad}
      OBVIOUS
    <2> PICK a1 : a1 = Abstract(Crash)
      OBVIOUS
    <2>6. C!Overrun.data = a1.data /\ C!Overrun.n \in {0, a1.n} /\ C!Overrun.type = Crash.type
      BY <2>1, <2>2, <2>3
    <2> QED BY <2>1, <2>4, <2>6, Zenon DEF StandsFor
  <1> QED BY <1>1, <1>2, StandsForItself

\* A message read from part of a frame is one that damage may make of it.
LEMMA DamagedStands ==
  ASSUME NEW m \in ServerMessages, NEW buffer, IsPartOf(buffer, Frames[m]),
         NEW mm \in parseMessage(buffer)
  PROVE  \E r \in C!Damaged(Abstract(m)) : StandsFor(r, mm)
  <1> PICK frame : frame = Frames[m]
    OBVIOUS
  <1> PICK size : size = Len(frame)
    OBVIOUS
  <1> PICK code : code = Code(m.type)
    OBVIOUS
  <1> PICK tag : tag = 0
    OBVIOUS
  <1> PICK payload : payload = EncodePayload(m)
    OBVIOUS
  <1> PICK p : p = Width["u32"] + Width["u8"] + Width["u16"]
    OBVIOUS
  <1> PICK a : a = Abstract(m)
    OBVIOUS
  <1> PICK head : head = HeadOf(buffer)
    OBVIOUS
  <1> PICK v : v = WithValues(head, <<>>)
    OBVIOUS
  <1>1. m.type \in ReplyNames /\ Content(m) /\ SizeHolds("u32", Frame(m)) /\ frame = Frame(m)
    BY ServerAssumption, FramesAre, Zenon DEF ReplyNames
  <1>2. FrameIs(m, frame, size, code, tag, payload)
    BY <1>1, FramePieces, Zenon
  <1>3. IsPartOf(buffer, frame) /\ buffer \in Seq(Octets)
    BY DEF IsPartOf
  <1>4. a.type = m.type
    BY AbstractIs
  <1>5. CASE mm = Thrown
    BY <1>5, BrokenStands, Zenon
  <1>6. CASE mm # Thrown
    <2>1. head.thrown # TRUE /\ head.values[2] \in DOMAIN TypeNames
      BY <1>6, MessageForms, Zenon
    <2>2. head.values[2] \in {0, code} /\ Tracks(head, buffer, p)
      <3>1. head = ParseFields(View(buffer), HeaderKinds)
        BY Zenon DEF HeadOf
      <3> QED BY <1>2, <1>3, <2>1, <3>1, HeaderTracked
    <2>3. TypeOf(buffer) = m.type
      <3>1. 0 \notin DOMAIN TypeNames
        BY DEF TypeNames
      <3>2. head.values[2] = code
        BY <2>1, <2>2, <3>1
      <3>3. TypeNames[code] = m.type
        BY <1>1, CodeIs
      <3> QED BY <3>2, <3>3, Zenon DEF TypeOf
    <2>4. Tracks(v, buffer, p) /\ v.values = <<>>
      <3>1. head \in LooseViews
        BY <2>2 DEF Tracks
      <3>2. <<>> \in Seq(Loose)
        OBVIOUS
      <3>3. v \in LooseViews /\ v.values = <<>> /\ v.rest = head.rest
        BY <3>1, <3>2, WithValuesIs
      <3>4. v.thrown = head.thrown /\ v.beyond = head.beyond
        BY <3>1 DEF WithValues, LooseViews
      <3> QED BY <2>2, <3>3, <3>4, Zenon DEF Tracks
    <2> PICK u : u = BodyOf(buffer)
      OBVIOUS
    <2>5. u = parseMessagePayload(m.type, v)
      BY <2>3, Zenon DEF BodyOf
    <2>6. CASE mm = Crash /\ u.beyond
      <3>1. m.type \in {"RRead", "RStat"}
        <4> SUFFICES ASSUME m.type \notin {"RRead", "RStat"} PROVE FALSE
          OBVIOUS
        <4>1. v \in LooseViews /\ v.thrown = FALSE /\ v.beyond = FALSE
          BY <2>4 DEF Tracks
        <4>2. u.beyond = FALSE
          BY <1>1, <2>4, <2>5, <4>1, PayloadWithin
        <4> QED BY <2>6, <4>2
      <3>2. C!Overrun \in C!Damaged(a) /\ StandsFor(C!Overrun, mm)
        BY <1>4, <2>6, <3>1, BrokenStands, Zenon
      <3> QED BY <3>2, Zenon
    <2>7. CASE mm = Payload(m.type, u.values) /\ ~u.thrown
      <3> PICK l : l = Len(a.data)
        OBVIOUS
      <3> PICK b : b = Abstract(mm)
        OBVIOUS
      <3>1. mm.type = m.type /\ l \in Nat
        BY <1>1, <2>7, PayloadData, ContentData
      <3>2. Len(b.data) \in 0 .. l /\ DOMAIN b.data = 1 .. Len(b.data)
        <4>1. CASE m.type = "RRead"
          <5>1. mm.data = u.values[1] /\ b.data = mm.data /\ a.data = m.data
            BY <2>7, <3>1, <4>1, PayloadData, AbstractIs
          <5>2. u = SizedView(v, "u32") /\ u.thrown # TRUE
            BY <2>5, <2>7, <4>1 DEF parseMessagePayload, parseRRead
          <5>3. StandsAt(frame, p, Sized("u32", m.data)) /\ SizeHolds("u32", m.data)
                /\ frame \in Seq(Octets)
            <6>1. payload = Sized("u32", m.data) /\ SizeHolds("u32", m.data)
              BY <1>1, <4>1, ContentData
            <6> QED BY <1>2, <6>1, Zenon DEF FrameIs
          <5>4. Len(u.values[1]) \in 0 .. Len(m.data)
            BY <1>3, <2>4, <5>2, <5>3, DataAtMost
          <5>5. mm.data \in Seq(Octets \cup {Outside})
            BY <1>3, MessageTyped DEF ReplyTyped
          <5>6. DOMAIN mm.data = 1 .. Len(mm.data)
            BY <5>5, LenProperties
          <5> QED BY <5>1, <5>4, <5>6
        <4>2. CASE m.type = "RStat"
          <5>1. Len(a.data) = 1
            BY <4>2, AbstractIs
          <5>2. b.data = <<mm.stats[1][9]>>
            BY <3>1, <4>2 DEF Abstract
          <5>3. Len(b.data) = 1 /\ DOMAIN b.data = 1 .. 1
            BY <5>2
          <5> QED BY <5>1, <5>3
        <4>3. CASE m.type \notin {"RRead", "RStat"}
          <5>1. b.data = <<>>
            BY <3>1, <4>3, AbstractIs, MessageData
          <5>2. Len(b.data) = 0 /\ DOMAIN b.data = 1 .. 0
            BY <5>1
          <5> QED BY <3>1, <5>2
        <4> QED BY <4>1, <4>2, <4>3
      <3> QED BY <1>1, <3>1, <3>2, BadStands
    <2> QED BY <1>6, <2>3, <2>6, <2>7, MessageForms, Zenon
  <1> QED BY <1>5, <1>6

\* Zero is an octet.
LEMMA ZeroOctet == 0 \in Octets
  BY RadixAssumption DEF Octets

\* What recv fills, over zeros, is part of the first frame, which starts there.
LEMMA FilledPart ==
  ASSUME WholeInv, queue # <<>>, queue[1].from = 0, NEW n \in Nat, NEW k \in Nat,
         k <= Remaining, NEW zeros, \A i \in 1 .. n : zeros[i] = 0
  PROVE  IsPartOf(Filled(n, k, zeros), Frames[queue[1].msg])
  <1> PICK frame : frame = Frames[queue[1].msg]
    OBVIOUS
  <1> PICK t : t = Filled(n, k, zeros)
    OBVIOUS
  <1>1. t \in Seq(Octets) /\ Len(t) = n
    BY ZeroOctet, FilledIs
  <1>2. t = [i \in 1 .. n |-> IF i <= k THEN Wire[i] ELSE zeros[i]]
    BY Zenon DEF Filled
  <1>3. ASSUME NEW i \in 1 .. n, i <= Len(frame) PROVE t[i] \in {0, frame[i]}
    <2>1. CASE i <= k
      <3>1. i \in Nat /\ i <= Remaining
        <4>1. Remaining \in Nat
          BY QueueIs, WireIs DEF WholeInv
        <4> QED BY <2>1, <4>1
      <3>2. \A j \in 1 .. i : Wire[j] = frame[j]
        BY <1>3, <3>1, WireBegins DEF WholeInv
      <3>3. t[i] = Wire[i] /\ i \in 1 .. i
        BY <1>2, <2>1, <3>1
      <3> QED BY <3>2, <3>3
    <2>2. CASE ~(i <= k)
      BY <1>2, <2>2
    <2> QED BY <2>1, <2>2
  <1> QED BY <1>1, <1>3 DEF IsPartOf

-----------------------------------------------------------------------------
(* The stream behind any queue                                              *)

\* The messages of a queue, and whether the client stands in the first of them.
CutOf(q) == q # <<>> /\ Head(q).from > 0
StreamOf(q) == [i \in DOMAIN q |-> Abstract(IF i = 1 /\ CutOf(q) THEN Thrown ELSE q[i].msg)]

\* They are the stream's, before and after a step.
LEMMA StreamsAre ==
  /\ Stream = StreamOf(queue) /\ Cut = CutOf(queue)
  /\ Stream' = StreamOf(queue') /\ Cut' = CutOf(queue')
  <1>1. Cut = CutOf(queue) /\ Cut' = CutOf(queue')
    BY DEF Cut, CutOf
  <1>2. Stream = StreamOf(queue)
    BY <1>1, Zenon DEF Stream, StreamOf
  <1>3. Stream' = StreamOf(queue')
    BY <1>1, Zenon DEF Stream, StreamOf
  <1> QED BY <1>1, <1>2, <1>3

\* Nothing more can be told of the message the client stands in.
LEMMA BrokenIs == Abstract(Thrown) = C!Broken
  BY DEF Abstract, Thrown, Parsed, C!Broken

\* The messages, one by one.
IsStream(t, q, c) ==
    /\ t = [i \in 1 .. Len(q) |-> t[i]] /\ Len(t) = Len(q)
    /\ \A i \in 1 .. Len(q) : t[i] = IF i = 1 /\ c THEN C!Broken ELSE Abstract(q[i].msg)

\* So they are.
LEMMA StreamOfIs ==
  ASSUME NEW q \in Seq(Parts)
  PROVE  /\ IsStream(StreamOf(q), q, CutOf(q)) /\ CutOf(q) \in BOOLEAN
         /\ CutOf(q) <=> Len(q) # 0 /\ q[1].from > 0
  <1> PICK t : t = StreamOf(q)
    OBVIOUS
  <1> PICK n : n = Len(q)
    OBVIOUS
  <1>1. n \in Nat /\ DOMAIN q = 1 .. n
    BY LenProperties
  <1>2. CutOf(q) <=> n # 0 /\ q[1].from > 0
    BY <1>1 DEF CutOf
  <1> PICK c \in BOOLEAN : c = CutOf(q)
    BY DEF CutOf
  <1>3. t = [i \in 1 .. n |-> Abstract(IF i = 1 /\ c THEN Thrown ELSE q[i].msg)]
    BY <1>1, Zenon DEF StreamOf
  <1>4. ASSUME NEW i \in 1 .. n
        PROVE  t[i] = IF i = 1 /\ c THEN C!Broken ELSE Abstract(q[i].msg)
    <2>1. t[i] = Abstract(IF i = 1 /\ c THEN Thrown ELSE q[i].msg)
      BY <1>3
    <2> QED BY <2>1, BrokenIs, Zenon
  <1>5. t = [i \in 1 .. n |-> t[i]] /\ Len(t) = n
    BY <1>1, <1>3
  <1> QED BY <1>2, <1>4, <1>5 DEF IsStream

\* A row of l elements; one that begins at another's k-th, and one that is the same but
\* for the element in front.
IsRow(t, l) == t = [j \in 1 .. l |-> t[j]]
SkipsWhole(t, s, k, n) == t = SubSeq(s, k, n)
SkipsCut(t, x, s, k, n) == t = <<x>> \o SubSeq(s, k + 1, n)

\* A row from its k-th element on.
LEMMA SkipWhole ==
  ASSUME NEW n \in Nat, NEW s, Len(s) = n, DOMAIN s = 1 .. n, NEW k \in 1 .. n + 1,
         NEW l, l = n - k + 1, NEW t, IsRow(t, l), \A j \in 1 .. l : t[j] = s[k + j - 1]
  PROVE  SkipsWhole(t, s, k, n)
  <1>1. l \in Nat /\ \A j \in 1 .. l : k + j - 1 \in 1 .. n
    OBVIOUS
  <1>2. SubSeq(s, k, n) = [j \in 1 .. l |-> s[k + j - 1]]
    OBVIOUS
  <1>3. t = [j \in 1 .. l |-> s[k + j - 1]]
    BY DEF IsRow
  <1> QED BY <1>2, <1>3 DEF SkipsWhole

\* Likewise, but that nothing is told of the k-th.
LEMMA SkipCut ==
  ASSUME NEW n \in Nat, NEW s, Len(s) = n, DOMAIN s = 1 .. n, NEW k \in 1 .. n, NEW x,
         NEW m, m = n - k + 1, NEW t, IsRow(t, m), t[1] = x,
         \A j \in 2 .. m : t[j] = s[k + j - 1]
  PROVE  SkipsCut(t, x, s, k, n)
  <1> PICK l : l = n - k
    OBVIOUS
  <1>w. PICK w : w = SubSeq(s, k + 1, n)
    OBVIOUS
  <1>1. l \in Nat /\ n - k + 1 = l + 1 /\ n - (k + 1) + 1 = l
    OBVIOUS
  <1>2. w = [j \in 1 .. l |-> s[k + 1 + j - 1]]
    BY <1>1, <1>w
  <1>3. Len(w) = l /\ \A j \in 1 .. l : w[j] = s[k + 1 + j - 1]
    BY <1>1, <1>2
  <1>4. \A j \in 2 .. l + 1 : j - 1 \in 1 .. l /\ k + 1 + (j - 1) - 1 = k + j - 1
    <2> SUFFICES ASSUME NEW j \in 2 .. l + 1
                 PROVE  j - 1 \in 1 .. l /\ k + 1 + (j - 1) - 1 = k + j - 1
      OBVIOUS
    <2>1. j \in Int /\ k \in Int
      BY <1>1
    <2> QED BY <1>1, <2>1
  <1>5. \A j \in 2 .. l + 1 : t[j] = w[j - 1]
    BY <1>1, <1>3, <1>4
  <1>6. t = [j \in 1 .. l + 1 |-> t[j]]
    BY <1>1 DEF IsRow
  <1>7. <<x>> \o w = [j \in 1 .. l + 1 |-> IF j = 1 THEN x ELSE w[j - 1]]
    <2>1. Len(<<x>>) = 1 /\ <<x>>[1] = x /\ 1 + l = l + 1
      BY <1>1
    <2>2. <<x>> \o w = [j \in 1 .. 1 + l |-> IF j <= 1 THEN <<x>>[j] ELSE w[j - 1]]
      BY <1>3, <2>1
    <2>3. \A j \in 1 .. l + 1 : (IF j <= 1 THEN <<x>>[j] ELSE w[j - 1])
                                 = IF j = 1 THEN x ELSE w[j - 1]
      BY <2>1
    <2> QED BY <2>1, <2>2, <2>3
  <1>8. \A j \in 1 .. l + 1 : t[j] = IF j = 1 THEN x ELSE w[j - 1]
    <2>1. \A j \in 1 .. l + 1 : j = 1 \/ j \in 2 .. l + 1
      BY <1>1
    <2> QED BY <1>5, <2>1
  <1> QED BY <1>6, <1>7, <1>8, <1>w DEF SkipsCut

\* A place behind a message's beginning.
LEMMA Beyond ==
  ASSUME NEW from \in Nat, NEW k \in Nat, k > 0, NEW b, b = 0
  PROVE  from + k - b > 0
  OBVIOUS

\* Reading any octets off the front of the queue skips as ReplyChannel says.
LEMMA ReadSkips ==
  ASSUME IsQueue(queue, connected), queue # <<>>, NEW k \in 1 .. Remaining, queue' = After(k)
  PROVE  C!Skip
  <1> PICK q : q = queue'
    OBVIOUS
  <1> PICK n : n = Len(queue)
    OBVIOUS
  <1> PICK i : i = Whole(k)
    OBVIOUS
  <1> PICK s : s = Stream
    OBVIOUS
  <1> PICK t : t = Stream'
    OBVIOUS
  <1> PICK c : c = Cut
    OBVIOUS
  <1> PICK d : d = Cut'
    OBVIOUS
  <1>1. queue \in Seq(Parts) /\ n \in Nat /\ n # 0
        /\ \A j \in 1 .. n : queue[j] \in Parts /\ (j > 1 => queue[j].from = 0)
    <2>1. /\ queue \in Seq(Parts) /\ n \in Nat
          /\ \A j \in 1 .. n : queue[j] \in Parts /\ (j > 1 => queue[j].from = 0)
      BY QueueIs
    <2> QED BY <2>1
  <1>2. k \in 0 .. Remaining /\ k \in Nat /\ k > 0
    <2>1. Remaining \in Nat
      BY <1>1, WireIs
    <2> QED BY <2>1
  <1>3. q \in Seq(Parts) /\ i \in 0 .. n /\ i \in Nat
    BY <1>1, <1>2, AfterIs
  <1>f. PICK from \in Nat : /\ IsAfter(q, queue, i, from)
                            /\ i < n => from = queue[i + 1].from + k - Before(i)
    BY <1>1, <1>2, AfterIs
  <1>4. Len(q) = n - i /\ (n - i > 0 => BeginsAt(q[1], queue[i + 1], from))
        /\ \A j \in 2 .. n - i : q[j] = queue[i + j]
    BY <1>1, <1>3, <1>f DEF IsAfter
  <1>5. ASSUME NEW j \in 1 .. n - i
        PROVE  i + j \in 1 .. n /\ q[j].msg = queue[i + j].msg
    <2>1. i + j \in 1 .. n
      BY <1>1, <1>3
    <2>2. CASE j = 1
      <3> PICK part : part = queue[i + 1]
        OBVIOUS
      <3>1. part \in [msg : ServerMessages, from : Nat, to : Nat] /\ BeginsAt(q[1], part, from)
        BY <1>1, <1>4, <2>1, <2>2 DEF Parts
      <3>2. q[1].msg = part.msg
        BY <3>1 DEF BeginsAt
      <3> QED BY <2>1, <2>2, <3>2
    <2>3. CASE j # 1
      <3>1. j \in 2 .. n - i
        BY <2>3
      <3> QED BY <1>4, <2>1, <3>1
    <2> QED BY <2>2, <2>3
  <1>6. IsStream(s, queue, c) /\ c \in BOOLEAN /\ IsStream(t, q, d) /\ d \in BOOLEAN
        /\ (d <=> Len(q) # 0 /\ q[1].from > 0)
    BY <1>1, <1>3, StreamsAre, StreamOfIs
  <1>7. /\ s = [j \in 1 .. n |-> s[j]] /\ Len(s) = n
        /\ \A j \in 1 .. n : s[j] = IF j = 1 /\ c THEN C!Broken ELSE Abstract(queue[j].msg)
        /\ IsRow(t, n - i)
        /\ \A j \in 1 .. n - i : t[j] = IF j = 1 /\ d THEN C!Broken ELSE Abstract(q[j].msg)
    BY <1>4, <1>6, Zenon DEF IsStream, IsRow
  <1>8. i = 0 => d = TRUE
    <2> SUFFICES ASSUME i = 0 PROVE d = TRUE
      OBVIOUS
    <2> PICK part : part = queue[1]
      OBVIOUS
    <2>1. i < n /\ n - i > 0 /\ 1 \in 1 .. n /\ i + 1 = 1
      BY <1>1
    <2>2. part \in Parts /\ part.from \in Nat /\ part \in [msg : ServerMessages, from : Nat, to : Nat]
      BY <1>1, <2>1 DEF Parts
    <2>3. from > 0
      <3>1. Before(i) = 0
        BY <1>1, BeforeSteps
      <3>2. from = part.from + k - Before(i)
        BY <1>f, <2>1
      <3>3. part.from + k - Before(i) > 0
        BY <1>2, <2>2, <3>1, Beyond, Zenon
      <3> QED BY <3>2, <3>3
    <2>4. q[1].from = from
      <3>1. BeginsAt(q[1], part, from)
        BY <1>4, <2>1
      <3> QED BY <2>2, <3>1 DEF BeginsAt
    <2>5. Len(q) # 0
      BY <1>4, <2>1
    <2>6. q[1].from > 0
      BY <2>3, <2>4, Zenon
    <2> QED BY <1>6, <2>5, <2>6, Zenon
  <1> PICK kk : kk = i + 1
    OBVIOUS
  <1>9. kk \in 1 .. n + 1 /\ n - kk + 1 = n - i
    BY <1>1, <1>3
  <1>10. ASSUME NEW j \in 2 .. n - i PROVE t[j] = s[kk + j - 1]
    <2>1. j \in 1 .. n - i /\ j # 1 /\ kk + j - 1 = i + j /\ i + j # 1
      BY <1>3
    <2>2. i + j \in 1 .. n /\ q[j].msg = queue[i + j].msg
      BY <1>5, <2>1
    <2>3. t[j] = Abstract(q[j].msg) /\ s[i + j] = Abstract(queue[i + j].msg)
      BY <1>7, <2>1, <2>2, Zenon
    <2> QED BY <2>1, <2>2, <2>3
  <1>11. DOMAIN s = 1 .. n
    BY <1>7
  <1>12. CASE d = TRUE
    <2>1. n - i # 0 /\ 1 \in 1 .. n - i /\ kk \in 1 .. n
      <3>1. n - i # 0
        BY <1>4, <1>6, <1>12, Zenon
      <3> QED BY <1>1, <1>3, <3>1
    <2>2. t[1] = C!Broken
      BY <1>7, <1>12, <2>1, Zenon
    <2>3. SkipsCut(t, C!Broken, s, kk, n)
      BY <1>1, <1>7, <1>9, <1>10, <1>11, <2>1, <2>2, SkipCut
    <2>4. kk \in 1 .. Len(s) + 1 /\ kk <= Len(s)
      BY <1>7, <1>9, <2>1
    <2> QED BY <1>7, <1>12, <2>3, <2>4, Zenon DEF C!Skip, SkipsCut
  <1>13. CASE d = FALSE
    <2>1. i # 0 /\ kk > 1
      BY <1>3, <1>8, <1>13
    <2>2. ASSUME NEW j \in 1 .. n - i PROVE t[j] = s[kk + j - 1]
      <3>1. i + j \in 1 .. n /\ q[j].msg = queue[i + j].msg /\ i + j # 1 /\ kk + j - 1 = i + j
        <4>1. i + j \in 1 .. n /\ q[j].msg = queue[i + j].msg
          BY <1>5
        <4>2. i + j # 1 /\ kk + j - 1 = i + j
          BY <1>3, <2>1
        <4> QED BY <4>1, <4>2
      <3>2. t[j] = Abstract(q[j].msg) /\ s[i + j] = Abstract(queue[i + j].msg)
        BY <1>7, <1>13, <3>1, Zenon
      <3> QED BY <3>1, <3>2
    <2>3. SkipsWhole(t, s, kk, n)
      BY <1>1, <1>7, <1>9, <1>11, <2>2, SkipWhole
    <2>4. kk \in 1 .. Len(s) + 1
      BY <1>7, <1>9
    <2> QED BY <1>7, <1>13, <2>1, <2>3, <2>4, Zenon DEF C!Skip, SkipsWhole
  <1> QED BY <1>6, <1>12, <1>13

\* Nothing splits a frame where every recv returns all it is asked for.
Unsplit == ShortRecvs = TRUE \/ (shortRecv = FALSE /\ shortPeek = FALSE)

\* Each step keeps to this.
LEMMA UnsplitStep == Unsplit /\ [Next]_vars => Unsplit'
  <1> SUFFICES ASSUME Unsplit, [Next]_vars PROVE Unsplit'
    OBVIOUS
  <1>1. CASE ShortRecvs = TRUE
    BY <1>1 DEF Unsplit
  <1>2. CASE ShortRecvs # TRUE
    <2>1. ShortRecvs = FALSE /\ shortRecv = FALSE /\ shortPeek = FALSE
      BY <1>2, ShortRecvsIsBoolean DEF Unsplit
    <2> SUFFICES shortRecv' = FALSE /\ shortPeek' = FALSE
      BY DEF Unsplit
    <2>2. CASE Peek
      <3>1. Width["u32"] \in Nat
        BY KindsAre, LimitPositive
      <3>2. PICK k \in {Width["u32"]} : shortPeek' = (k < Width["u32"])
        BY <2>1, <2>2 DEF Peek
      <3>3. ~(k < Width["u32"])
        BY <3>1, <3>2
      <3>4. shortPeek' = FALSE
        <4>1. shortPeek' \in BOOLEAN
          BY <3>2
        <4>2. ASSUME shortPeek' = TRUE PROVE FALSE
          BY <3>2, <3>3, <4>2, Zenon
        <4> QED BY <4>1, <4>2
      <3> QED BY <2>1, <2>2, <3>4 DEF Peek
    <2>3. CASE ReadData
      <3>1. PICK k \in 1 .. length : shortRecv' = (shortRecv \/ shortPeek \/ k < length)
                                     /\ k = length
        BY <2>1, <2>3 DEF ReadData
      <3>2. length \in Nat
        BY <2>3, AllocatableAssumption DEF ReadData
      <3>3. ~(k < length)
        BY <3>1, <3>2
      <3>4. shortPeek' = FALSE
        BY <2>3 DEF ReadData
      <3> QED BY <2>1, <3>1, <3>3, <3>4
    <2>4. CASE ReadFails
      BY <2>1, <2>4 DEF ReadFails
    <2>5. CASE ~(Peek \/ ReadData \/ ReadFails)
      BY <2>1, <2>5 DEF Next, ServerSends, LoseOctets, PeekFails, LogText, UseReply, Crashed,
                        vars, netVars, readVars
    <2> QED BY <2>2, <2>3, <2>4, <2>5
  <1> QED BY <1>1, <1>2

\* A row with one more element.
IsLonger(t, s, x) == t = Append(s, x)

\* Two rows, the longer with one more element, are so.
LEMMA RowLonger ==
  ASSUME NEW n \in Nat, NEW s, IsRow(s, n), NEW t, IsRow(t, n + 1), NEW x, t[n + 1] = x,
         \A j \in 1 .. n : t[j] = s[j]
  PROVE  IsLonger(t, s, x)
  <1>1. s = [j \in 1 .. n |-> s[j]] /\ t = [j \in 1 .. n + 1 |-> t[j]]
    BY DEF IsRow
  <1>2. Len(s) = n
    BY <1>1
  <1>3. Append(s, x) = [j \in 1 .. n + 1 |-> IF j = n + 1 THEN x ELSE s[j]]
    BY <1>1, <1>2
  <1>4. \A j \in 1 .. n + 1 : t[j] = IF j = n + 1 THEN x ELSE s[j]
    <2>1. \A j \in 1 .. n + 1 : j = n + 1 \/ j \in 1 .. n
      OBVIOUS
    <2> QED BY <2>1
  <1> QED BY <1>1, <1>3, <1>4 DEF IsLonger

\* What the server sends is behind everything, wherever the client stands.
LEMMA SendsStep ==
  ASSUME WholeInv, NEW m \in ServerMessages, ServerSends(m), queue' \in Seq(Parts)
  PROVE  ReceiveStep
  <1> PICK part : part = [msg |-> m, from |-> 0, to |-> Len(Frames[m])]
    OBVIOUS
  <1> PICK n : n = Len(queue)
    OBVIOUS
  <1> PICK q : q = queue'
    OBVIOUS
  <1> PICK s : s = Stream
    OBVIOUS
  <1> PICK t : t = Stream'
    OBVIOUS
  <1> PICK c : c = Cut
    OBVIOUS
  <1> PICK d : d = Cut'
    OBVIOUS
  <1>1. UNCHANGED <<phase, shortRecv, connected>> /\ q = Append(queue, part)
    BY DEF ServerSends, readVars
  <1>2. queue \in Seq(Parts) /\ n \in Nat
    BY QueueIs DEF WholeInv
  <1>3. part \in Parts /\ part.msg = m /\ part.from = 0
    <2>1. Len(Frames[m]) \in Nat \ {0}
      BY FrameHas
    <2> QED BY <2>1 DEF Parts
  <1>4. Len(q) = n + 1 /\ q[n + 1] = part /\ \A i \in 1 .. n : q[i] = queue[i]
    BY <1>1, <1>2, <1>3, AppendProperties
  <1>5. /\ IsStream(s, queue, c) /\ c \in BOOLEAN /\ (c <=> n # 0 /\ queue[1].from > 0)
        /\ IsStream(t, q, d) /\ d \in BOOLEAN /\ (d <=> Len(q) # 0 /\ q[1].from > 0)
    BY <1>2, StreamsAre, StreamOfIs
  <1>6. c = d
    <2>1. CASE n = 0
      <3>1. q[1] = part
        BY <1>4, <2>1
      <3>2. ~(q[1].from > 0)
        BY <1>3, <3>1
      <3> QED BY <1>5, <2>1, <3>2
    <2>2. CASE n # 0
      <3>1. 1 \in 1 .. n /\ Len(q) # 0
        BY <1>2, <1>4, <2>2
      <3>2. q[1] = queue[1]
        BY <1>4, <3>1
      <3>3. queue[1].from > 0 <=> q[1].from > 0
        BY <3>2
      <3>4. c <=> d
        BY <1>5, <2>2, <3>1, <3>3, Zenon
      <3>5. c \in BOOLEAN /\ d \in BOOLEAN
        BY <1>5
      <3> QED BY <3>4, <3>5
    <2> QED BY <2>1, <2>2
  <1>x. IsStream(t, q, c)
    BY <1>5, <1>6
  <1>7. IsLonger(t, s, Abstract(m))
    <2>1. IsRow(s, n) /\ IsRow(t, n + 1)
      BY <1>4, <1>5, Zenon DEF IsStream, IsRow
    <2>2. t[n + 1] = Abstract(m)
      <3>1. n + 1 \in 1 .. Len(q) /\ (n + 1 = 1 => n = 0)
        BY <1>2, <1>4
      <3>2. ~(n + 1 = 1 /\ c)
        <4>1. n = 0 => ~c
          BY <1>5, Zenon
        <4> QED BY <3>1, <4>1, Zenon
      <3>3. t[n + 1] = Abstract(q[n + 1].msg)
        BY <1>x, <3>1, <3>2, Zenon DEF IsStream
      <3> QED BY <1>3, <1>4, <3>3, Zenon
    <2>3. ASSUME NEW j \in 1 .. n PROVE t[j] = s[j]
      <3>1. j \in 1 .. Len(q)
        BY <1>2, <1>4
      <3>2. q[j].msg = queue[j].msg
        BY <1>4
      <3>3. s[j] = IF j = 1 /\ c THEN C!Broken ELSE Abstract(queue[j].msg)
        BY <1>5, Zenon DEF IsStream
      <3>4. t[j] = IF j = 1 /\ c THEN C!Broken ELSE Abstract(q[j].msg)
        BY <1>x, <3>1, Zenon DEF IsStream
      <3> QED BY <3>2, <3>3, <3>4, Zenon
    <2> QED BY <1>2, <2>1, <2>2, <2>3, RowLonger
  <1>8. ~Returns
    BY <1>1 DEF Returns
  <1> QED BY <1>1, <1>6, <1>7, <1>8, Zenon DEF ReceiveStep, IsLonger

\* Octets that are lost are messages that are lost, or their ends; the front of the
\* first stays as it is.
LEMMA LosesStep ==
  ASSUME WholeInv, LoseOctets, queue' \in Seq(Parts)
  PROVE  ReceiveStep
  <1> PICK n : n = Len(queue)
    OBVIOUS
  <1> PICK q : q = queue'
    OBVIOUS
  <1> PICK l : l = Len(q)
    OBVIOUS
  <1> PICK s : s = Stream
    OBVIOUS
  <1> PICK t : t = Stream'
    OBVIOUS
  <1> PICK c : c = Cut
    OBVIOUS
  <1> PICK d : d = Cut'
    OBVIOUS
  <1>1. UNCHANGED <<phase, shortRecv>> /\ connected /\ connected' = FALSE
    BY DEF LoseOctets, readVars
  <1>2. PICK k \in 0 .. Remaining : q = First(k)
    BY DEF LoseOctets
  <1>3. queue \in Seq(Parts) /\ n \in Nat /\ q \in Seq(Parts) /\ l \in Nat
    BY QueueIs, LenProperties DEF WholeInv
  <1>4. l <= n /\ \A i \in 1 .. l : q[i].msg = queue[i].msg /\ q[i].from = queue[i].from
    BY <1>2, FirstQueue DEF WholeInv
  <1>5. /\ IsStream(s, queue, c) /\ c \in BOOLEAN /\ (c <=> n # 0 /\ queue[1].from > 0)
        /\ IsStream(t, q, d) /\ d \in BOOLEAN /\ (d <=> l # 0 /\ q[1].from > 0)
    BY <1>3, StreamsAre, StreamOfIs
  <1>6. d <=> (c /\ l > 0)
    <2>1. CASE l = 0
      <3>1. ~(l > 0)
        BY <2>1
      <3> QED BY <1>5, <2>1, <3>1, Zenon
    <2>2. CASE l # 0
      <3>1. 1 \in 1 .. l /\ l > 0 /\ n # 0
        BY <1>3, <1>4, <2>2
      <3>2. queue[1].from > 0 <=> q[1].from > 0
        BY <1>4, <3>1
      <3> QED BY <1>5, <2>2, <3>1, <3>2, Zenon
    <2> QED BY <2>1, <2>2
  <1>7. SkipsWhole(t, s, 1, l)
    <2>1. IsRow(t, l) /\ IsRow(s, n) /\ Len(s) = n
      BY <1>5, Zenon DEF IsStream, IsRow
    <2>2. ASSUME NEW j \in 1 .. l PROVE t[j] = s[j]
      <3>1. j \in 1 .. n /\ q[j].msg = queue[j].msg /\ l > 0
        BY <1>3, <1>4
      <3>2. s[j] = IF j = 1 /\ c THEN C!Broken ELSE Abstract(queue[j].msg)
        BY <1>5, <3>1, Zenon DEF IsStream
      <3>3. t[j] = IF j = 1 /\ d THEN C!Broken ELSE Abstract(q[j].msg)
        BY <1>5, Zenon DEF IsStream
      <3> QED BY <1>6, <3>1, <3>2, <3>3, Zenon
    <2>3. SubSeq(s, 1, l) = [j \in 1 .. l |-> s[j]]
      <3>1. l - 1 + 1 = l /\ \A j \in 1 .. l : 1 + j - 1 = j
        BY <1>3
      <3>2. \A j \in 1 .. l : j \in 1 .. n
        BY <1>3, <1>4
      <3> QED BY <1>3, <2>1, <3>1, <3>2
    <2>4. t = [j \in 1 .. l |-> s[j]]
      BY <2>1, <2>2 DEF IsRow
    <2> QED BY <2>3, <2>4 DEF SkipsWhole
  <1>8. l \in 0 .. Len(s)
    BY <1>3, <1>4, <1>5 DEF IsStream
  <1>9. C!Lose
    <2>1. d = (c /\ l > 0)
      BY <1>5, <1>6
    <2> QED BY <1>1, <1>7, <1>8, <2>1, Zenon DEF C!Lose, SkipsWhole
  <1>10. ~Returns
    BY <1>1 DEF Returns
  <1> QED BY <1>1, <1>9, <1>10, Zenon DEF ReceiveStep

\* Nothing is read where there is nothing, and no connection.
LEMMA NothingLeft ==
  ASSUME WholeInv, queue = <<>>, connected = FALSE, UNCHANGED <<queue, shortRecv>>,
         reply' = Thrown, Returns
  PROVE  ReceiveStep
  <1>1. Cut = FALSE /\ Cut' = FALSE
    BY DEF Cut
  <1>2. Stream = <<>>
    BY DEF Stream
  <1>3. Stream' = <<>>
    BY DEF Stream
  <1>4. StandsFor(C!Broken, reply')
    BY StandsForItself, Zenon
  <1>5. C!Broken \in C!Readable
    BY <1>2, Zenon DEF C!Readable
  <1>6. C!Consume(C!Broken)
    BY <1>1, <1>2, <1>3, Zenon DEF C!Consume
  <1> QED BY <1>4, <1>5, <1>6, Zenon DEF ReceiveStep

\* The messages behind a queue that is not empty.
LEMMA SomeStream ==
  ASSUME WholeInv, queue # <<>>
  PROVE  /\ Cut \in BOOLEAN /\ Stream # <<>> /\ 1 \in 1 .. Len(Stream) /\ Len(Stream) \in Nat
         /\ IsRow(Stream, Len(Stream)) /\ Stream[1] = Head(Stream)
         /\ Cut = TRUE => Stream[1] = C!Broken
         /\ Cut = FALSE => Stream[1] = Abstract(queue[1].msg) /\ queue[1].from = 0
                           /\ queue[1].msg \in ServerMessages
  <1> PICK n : n = Len(queue)
    OBVIOUS
  <1> PICK s : s = Stream
    OBVIOUS
  <1> PICK c : c = Cut
    OBVIOUS
  <1>1. queue \in Seq(Parts) /\ n \in Nat /\ \A i \in 1 .. n : queue[i] \in Parts
    BY QueueIs DEF WholeInv
  <1>2. n # 0 /\ 1 \in 1 .. n
    <2>1. n # 0
      BY <1>1
    <2> QED BY <1>1, <2>1
  <1>3. queue[1].from \in Nat /\ queue[1].msg \in ServerMessages
    <2>1. queue[1] \in Parts
      BY <1>1, <1>2
    <2> QED BY <2>1, PartIs
  <1>4. IsStream(s, queue, c) /\ c \in BOOLEAN /\ (c <=> n # 0 /\ queue[1].from > 0)
    BY <1>1, StreamsAre, StreamOfIs
  <1>5. Len(s) = n /\ IsRow(s, n) /\ s[1] = IF c THEN C!Broken ELSE Abstract(queue[1].msg)
    BY <1>2, <1>4, Zenon DEF IsStream, IsRow
  <1>6. s # <<>> /\ Head(s) = s[1]
    <2>1. Len(<<>>) = 0
      OBVIOUS
    <2>2. s # <<>>
      BY <1>2, <1>5, <2>1
    <2> QED BY <2>2
  <1>7. c = FALSE => queue[1].from = 0
    BY <1>2, <1>3, <1>4
  <1> QED BY <1>1, <1>2, <1>3, <1>4, <1>5, <1>6, <1>7

\* A read that fails with octets on their way is given up where the client stands.
LEMMA FailsStep ==
  ASSUME WholeInv, Unsplit, PeekFails \/ ReadFails
  PROVE  ReceiveStep
  <1>1. CASE queue = <<>>
    <2>1. connected = FALSE
      <3>1. CASE PeekFails
        BY <3>1 DEF PeekFails, WholeInv
      <3>2. CASE ReadFails
        BY <1>1, <3>2 DEF ReadFails, WholeInv
      <3> QED BY <3>1, <3>2
    <2>2. UNCHANGED queue /\ reply' = Thrown /\ Returns
      BY DEF PeekFails, ReadFails, Returns, netVars
    <2>3. UNCHANGED shortRecv
      <3>1. shortRecv \in BOOLEAN
        BY DEF WholeInv
      <3> QED BY <1>1, <3>1 DEF PeekFails, ReadFails
    <2> QED BY <1>1, <2>1, <2>2, <2>3, NothingLeft
  <1>2. CASE queue # <<>>
    <2> PICK n : n = Len(Stream)
      OBVIOUS
    <2> PICK s : s = Stream
      OBVIOUS
    <2>1. ReadFails /\ UNCHANGED <<queue, connected>> /\ reply' = Thrown /\ Returns
          /\ shortRecv' = (shortRecv \/ shortPeek)
      BY <1>2 DEF PeekFails, ReadFails, Returns, netVars
    <2>2. /\ Cut \in BOOLEAN /\ s # <<>> /\ 1 \in 1 .. n /\ n \in Nat /\ IsRow(s, n)
          /\ Cut = TRUE => s[1] = C!Broken
      BY <1>2, SomeStream
    <2>3. UNCHANGED Cut /\ UNCHANGED Stream
      <3>1. UNCHANGED Cut
        BY <2>1 DEF Cut
      <3> QED BY <2>1, <3>1 DEF Stream
    <2>4. CASE shortRecv' = TRUE
      <3>1. ShortRecvs = TRUE
        BY <2>1, <2>4 DEF Unsplit
      <3>2. C!Broken \in C!Misread
        <4>1. C!Broken \in C!Garbage
          BY DEF C!Garbage, C!ReplyTypes, C!Broken
        <4>2. C!Broken \in C!Damaged(Head(Stream))
          BY BrokenStands
        <4> QED BY <2>2, <3>1, <4>1, <4>2, Zenon DEF C!Misread
      <3>3. C!Skip
        <4>1. Len(s) = n /\ DOMAIN s = 1 .. n /\ 1 \in 1 .. n + 1 /\ n = n - 1 + 1 /\ 1 <= n
          BY <2>2
        <4>2. \A j \in 1 .. n : s[j] = s[1 + j - 1]
          BY <2>2
        <4>3. CASE Cut = TRUE
          <5>1. \A j \in 2 .. n : s[j] = s[1 + j - 1]
            BY <2>2
          <5>2. SkipsCut(s, C!Broken, s, 1, n)
            BY <2>2, <4>1, <4>3, <5>1, SkipCut
          <5> QED BY <2>3, <4>1, <4>3, <5>2, Zenon DEF C!Skip, SkipsCut
        <4>4. CASE Cut = FALSE
          <5>1. SkipsWhole(s, s, 1, n)
            BY <2>2, <4>1, <4>2, SkipWhole
          <5> QED BY <2>3, <4>1, <4>4, <5>1, Zenon DEF C!Skip, SkipsWhole
        <4> QED BY <2>2, <4>3, <4>4
      <3>4. StandsFor(C!Broken, reply')
        BY <2>1, StandsForItself, Zenon
      <3>5. C!Broken \in C!Readable
        BY <3>2, Zenon DEF C!Readable
      <3>6. C!Consume(C!Broken)
        BY <2>4, <3>2, <3>3, Zenon DEF C!Consume
      <3> QED BY <2>1, <3>4, <3>5, <3>6, Zenon DEF ReceiveStep
    <2>5. CASE shortRecv' # TRUE
      <3>1. shortRecv = FALSE /\ shortPeek = FALSE
        BY <2>1, <2>5 DEF WholeInv
      <3>2. queue = <<>>
        <4>1. shortRecv' = FALSE
          BY <2>1, <3>1
        <4> QED BY <2>1, <4>1, WholeFails
      <3> QED BY <1>2, <3>2
    <2> QED BY <2>4, <2>5
  <1> QED BY <1>1, <1>2

\* A read that has split a frame gives some octets of it, or of anything.
LEMMA SplitReadStep ==
  ASSUME WholeInv, Unsplit, ReadData, shortRecv' # FALSE
  PROVE  ReceiveStep
  <1> PICK zeros : zeros = [i \in 1 .. length |-> 0]
    OBVIOUS
  <1>1. PICK k \in 1 .. length :
             /\ k <= Remaining /\ (ShortRecvs \/ k = length)
             /\ reply' \in parseMessage(Filled(length, k, zeros))
             /\ queue' = After(k)
             /\ shortRecv' = (shortRecv \/ shortPeek \/ k < length)
    BY Zenon DEF ReadData
  <1> PICK buffer : buffer = Filled(length, k, zeros)
    OBVIOUS
  <1> PICK mm : mm = reply'
    OBVIOUS
  <1>2. length \in Nat /\ k \in Nat /\ k > 0 /\ \A i \in 1 .. length : zeros[i] = 0
    <2>1. length \in Nat
      BY AllocatableAssumption DEF ReadData
    <2> QED BY <2>1
  <1>3. shortRecv' = TRUE
    <2>1. shortRecv \in BOOLEAN /\ shortPeek \in BOOLEAN
      BY DEF WholeInv
    <2> QED BY <1>1, <2>1
  <1>4. ShortRecvs = TRUE
    <2>1. k < length => k # length
      BY <1>2
    <2> QED BY <1>1, <1>3, <2>1, ShortRecvsIsBoolean DEF Unsplit
  <1>5. queue \in Seq(Parts) /\ Remaining \in Nat /\ IsQueue(queue, connected)
    <2>1. queue \in Seq(Parts) /\ IsQueue(queue, connected)
      BY QueueIs DEF WholeInv
    <2> QED BY <2>1, WireIs
  <1>6. queue # <<>>
    <2> SUFFICES ASSUME queue = <<>> PROVE FALSE
      OBVIOUS
    <2>1. Remaining = 0
      <3>1. Len(queue) = 0
        OBVIOUS
      <3> QED BY <1>5, <3>1, BeforeSteps DEF Remaining
    <2> QED BY <1>1, <1>2, <2>1
  <1>7. C!Skip
    <2>1. k \in 1 .. Remaining
      BY <1>1, <1>2, <1>5
    <2> QED BY <1>1, <1>5, <1>6, <2>1, ReadSkips
  <1>8. /\ Cut \in BOOLEAN /\ Stream # <<>> /\ Stream[1] = Head(Stream)
        /\ Cut = FALSE => Stream[1] = Abstract(queue[1].msg) /\ queue[1].from = 0
                          /\ queue[1].msg \in ServerMessages
    BY <1>6, SomeStream
  <1>9. \E r \in C!Misread : StandsFor(r, mm)
    <2>1. CASE Cut = TRUE
      <3>1. PICK r \in C!Garbage : StandsFor(r, mm)
        BY <1>1, <2>1, GarbageStands
      <3>2. r \in C!Misread
        BY <1>8, <2>1, <3>1, Zenon DEF C!Misread
      <3> QED BY <3>1, <3>2
    <2>2. CASE Cut = FALSE
      <3> PICK m : m = queue[1].msg
        OBVIOUS
      <3>1. IsPartOf(buffer, Frames[m])
        BY <1>1, <1>2, <1>6, <1>8, <2>2, FilledPart
      <3>2. PICK r \in C!Damaged(Abstract(m)) : StandsFor(r, mm)
        BY <1>1, <1>8, <2>2, <3>1, DamagedStands
      <3>3. r \in C!Misread
        <4>1. Abstract(m) = Head(Stream)
          BY <1>8, <2>2
        <4> QED BY <1>4, <1>8, <2>2, <3>2, <4>1, Zenon DEF C!Misread
      <3> QED BY <3>2, <3>3
    <2> QED BY <1>8, <2>1, <2>2
  <1>10. PICK r \in C!Misread : StandsFor(r, reply')
    BY <1>9
  <1>11. r \in C!Readable
    BY <1>10, Zenon DEF C!Readable
  <1>12. C!Consume(r)
    BY <1>3, <1>7, <1>10, Zenon DEF C!Consume
  <1>13. Returns
    BY DEF Returns, ReadData
  <1> QED BY <1>10, <1>11, <1>12, <1>13, Zenon DEF ReceiveStep

\* Each step does to the stream of messages what ReplyChannel allows.
LEMMA EveryReceiveStep ==
  ASSUME WholeInv, Unsplit, [Next]_vars
  PROVE  ReceiveStep
  <1>0. queue' \in Seq(Parts)
    <2>1. WholeInv'
      BY WholeStep
    <2> QED BY <2>1 DEF WholeInv, IsQueue
  <1>1. ASSUME NEW m \in ServerMessages, ServerSends(m) PROVE ReceiveStep
    BY <1>0, <1>1, SendsStep
  <1>2. CASE LoseOctets
    BY <1>0, <1>2, LosesStep
  <1>3. CASE PeekFails \/ ReadFails
    BY <1>3, FailsStep
  <1>4. CASE ReadData
    <2>1. CASE shortRecv' = FALSE
      BY <1>4, <2>1, ReadsStep
    <2>2. CASE shortRecv' # FALSE
      BY <1>4, <2>2, SplitReadStep
    <2> QED BY <2>1, <2>2
  <1>5. CASE Peek \/ LogText \/ UseReply
    BY <1>5, StillStep DEF Peek, LogText, UseReply, netVars, Returns
  <1>6. CASE UNCHANGED vars \/ Crashed
    BY <1>6, StillStep DEF Crashed, vars, netVars, readVars, Returns
  <1> QED BY <1>1, <1>2, <1>3, <1>4, <1>5, <1>6 DEF Next

\* readParseIncomingMessage does to the stream of messages what ReplyChannel says, however
\* recv splits the frames: what the parser makes of octets that are cut anywhere, or
\* filled up with zeros, is what Damaged and Garbage have, the rest of the stream is what Skip
\* leaves, and while nothing is split it is the first message, whole, and one at a time.
THEOREM ReceiveImplementsAlways == Spec => ReceiveImplements
  <1>1. Init => Unsplit
    BY DEF Init, Unsplit
  <1>2. WholeInv /\ Unsplit /\ [Next]_vars => [ReceiveStep]_vars
    BY EveryReceiveStep
  <1> QED BY <1>1, <1>2, WholeInit, WholeStep, UnsplitStep, PTL DEF Spec, ReceiveImplements

-----------------------------------------------------------------------------
(* The entries of a directory                                               *)

\* Reading leaves a view the fields it has, whatever it reads.
LEMMA FieldShape ==
  ASSUME NEW v, NEW kind
  PROVE  DOMAIN ReadField(v, kind) = DOMAIN v
  <1>1. \A u, k : DOMAIN parseInteger(u, k) = DOMAIN u
    BY DEF parseInteger
  <1>2. \A u, c : DOMAIN extractDataView(u, c) = DOMAIN u
    BY DEF extractDataView
  <1>3. DOMAIN parseString(v) = DOMAIN v
    <2> DEFINE w == parseInteger(v, "u16")
               size == Last(w.values)
               s == [w EXCEPT !.values = Front(@)]
               some == [s EXCEPT !.values = Append(@, <<Outside>>)]
               short == [w EXCEPT !.thrown = TRUE]
               whole == extractDataView(s, size)
    <2> PICK u : u = parseString(v)
      OBVIOUS
    <2>1. u = IF w.thrown THEN w
              ELSE CASE size = Outside -> some [] size > Len(w.rest) -> short [] OTHER -> whole
      BY Zenon DEF parseString
    <2>2. DOMAIN w = DOMAIN v /\ DOMAIN s = DOMAIN w /\ DOMAIN some = DOMAIN s
          /\ DOMAIN short = DOMAIN w
      BY <1>1
    <2>3. DOMAIN whole = DOMAIN s
      BY <1>2, Zenon
    <2> HIDE DEF w, s, size, some, short, whole
    <2>4. u = w \/ u = some \/ u = short \/ u = whole
      BY <2>1, Zenon
    <2> QED BY <2>2, <2>3, <2>4, Zenon
  <1> QED BY <1>1, <1>3, Zenon DEF ReadField

\* So does reading a row of fields.
LEMMA FieldsShape ==
  ASSUME NEW v, NEW n \in Nat, NEW kinds, DOMAIN kinds = 1 .. n
  PROVE  DOMAIN ParseFields(v, kinds) = DOMAIN v
  <1> PICK views : /\ views[0] = v
                   /\ \A k \in 1 .. n : views[k] = ReadField(views[k - 1], kinds[k])
                   /\ ParseFields(v, kinds) = views[n]
    BY ParseSteps
  <1> DEFINE S == {k \in 0 .. n : DOMAIN views[k] = DOMAIN v}
  <1>1. 0 \in S
    OBVIOUS
  <1>2. ASSUME NEW k \in 0 .. n - 1, k \in S PROVE k + 1 \in S
    <2>1. k + 1 \in 1 .. n /\ (k + 1) - 1 = k /\ k + 1 \in 0 .. n
      OBVIOUS
    <2>2. views[k + 1] = ReadField(views[k], kinds[k + 1])
      BY <2>1
    <2>3. DOMAIN views[k + 1] = DOMAIN v
      BY <1>2, <2>2, FieldShape
    <2> QED BY <2>1, <2>3
  <1>3. n \in S
    <2>1. 0 .. n \subseteq S
      <3> HIDE DEF S
      <3> QED BY <1>1, <1>2, UpTo
    <2> QED BY <2>1
  <1> QED BY <1>3

\* And a stat.
LEMMA StatShape == \A v : DOMAIN ParseFields(v, Stat) = DOMAIN v
  <1> PICK n : n = Len(Stat)
    OBVIOUS
  <1>1. DOMAIN Stat = 1 .. n /\ n \in Nat
    BY StatKinds, LenProperties
  <1> PICK kinds : kinds = Stat
    OBVIOUS
  <1> QED BY <1>1, FieldsShape

\* A stat that is read of any octets leaves fewer of them, or throws.
LEMMA StatTakes ==
  ASSUME NEW rest \in Seq(Octets), NEW v, v = parseRawRStat(View(rest)), ~v.thrown
  PROVE  v.rest \in Seq(Octets) /\ Len(v.rest) < Len(rest)
  <1> PICK u : u = WithValues(View(rest), <<>>)
    OBVIOUS
  <1>1. u \in LooseViews /\ u.thrown = FALSE /\ u.rest = rest
    <2>1. /\ View(rest) \in LooseViews /\ View(rest).thrown = FALSE /\ View(rest).rest = rest
          /\ <<>> \in Seq(Loose)
      BY DEF View, LooseViews
    <2> QED BY <2>1, WithValuesIs
  <1> PICK w : w = SizedView(u, "u16")
    OBVIOUS
  <1>2. w \in LooseViews /\ (w.thrown = TRUE \/ Len(w.rest) < Len(rest))
    BY <1>1, KindsAre, SizedTaken
  <1> PICK inner : inner = [w EXCEPT !.rest = Last(w.values), !.values = <<>>]
    OBVIOUS
  <1> PICK fields : fields = ParseFields(inner, Stat)
    OBVIOUS
  <1>3. v = IF w.thrown THEN w ELSE [fields EXCEPT !.rest = w.rest]
    BY Zenon DEF parseRawRStat, WithValues
  <1>4. w.thrown = FALSE
    <2>1. w.thrown => v = w
      BY <1>3
    <2> QED BY <1>2, <2>1 DEF LooseViews
  <1>5. "rest" \in DOMAIN fields
    <2>1. "rest" \in DOMAIN w
      BY <1>2 DEF LooseViews
    <2>2. DOMAIN inner = DOMAIN w
      OBVIOUS
    <2>3. DOMAIN fields = DOMAIN inner
      BY StatShape, Zenon
    <2> QED BY <2>1, <2>2, <2>3
  <1>6. v.rest = w.rest
    <2>1. v = [fields EXCEPT !.rest = w.rest]
      BY <1>3, <1>4
    <2> QED BY <1>5, <2>1
  <1> QED BY <1>2, <1>4, <1>6 DEF LooseViews

-----------------------------------------------------------------------------
(* A recursion that goes forward to an end                                  *)

\* A row with one more in front.
InFrontOf(x, s) == <<x>> \o s

\* What is listed from a place on: nothing at the end, the stand-in of what
\* cannot be read, or a row and what is listed from the next place on.
ListedFrom(at, f, n, stops, next, rows) ==
    IF at = n THEN <<>> ELSE IF at \in stops THEN << <<>> >> ELSE InFrontOf(rows[at], f[next[at]])

\* The listing from the last k places on.
IsListing(f, n, k, stops, next, rows) ==
    f = [at \in n - k .. n |-> ListedFrom(at, f, n, stops, next, rows)]

\* There is a listing if the next place is always a later one.
LEMMA ListingExists ==
  ASSUME NEW n \in Nat, NEW stops, NEW next, NEW rows,
         \A at \in 0 .. n : at # n /\ at \notin stops => next[at] \in at + 1 .. n
  PROVE  \E f : IsListing(f, n, n, stops, next, rows)
  <1> DEFINE S == {k \in 0 .. n : \E f : IsListing(f, n, k, stops, next, rows)}
             E(at, f) == ListedFrom(at, f, n, stops, next, rows)
  <1>1. 0 \in S
    <2> DEFINE f == [at \in n - 0 .. n |-> <<>>]
    <2>1. ASSUME NEW at \in n - 0 .. n PROVE E(at, f) = <<>>
      <3>1. at = n
        OBVIOUS
      <3> HIDE DEF f
      <3> QED BY <3>1, Zenon DEF ListedFrom
    <2>2. f = [at \in n - 0 .. n |-> E(at, f)]
      BY <2>1
    <2> HIDE DEF f
    <2>3. IsListing(f, n, 0, stops, next, rows)
      BY <2>2, Zenon DEF IsListing
    <2> QED BY <2>3
  <1>2. ASSUME NEW k \in 0 .. n - 1, k \in S PROVE k + 1 \in S
    <2> PICK g : IsListing(g, n, k, stops, next, rows)
      BY <1>2
    <2> PICK m : m = k + 1
      OBVIOUS
    <2> PICK first : first = n - m
      OBVIOUS
    <2> DEFINE f == [at \in first .. n |-> IF at = first THEN E(at, g) ELSE g[at]]
    <2>1. /\ m \in 0 .. n /\ first \in 0 .. n /\ first # n
          /\ \A at \in first .. n : at \in 0 .. n /\ (at # first => at \in n - k .. n)
          /\ \A at \in n - k .. n : at \in first .. n /\ at # first
      OBVIOUS
    <2>2. \A at \in n - k .. n : g[at] = E(at, g)
      BY Zenon DEF IsListing
    <2>3. \A at \in n - k .. n : f[at] = g[at]
      BY <2>1
    <2>4. \A at \in first .. n : f[at] = E(at, g)
      BY <2>1, <2>2
    <2>5. f = [at \in first .. n |-> f[at]]
      OBVIOUS
    <2> HIDE DEF f
    <2>6. ASSUME NEW at \in first .. n PROVE E(at, f) = E(at, g)
      <3>1. CASE at = n \/ at \in stops
        BY <3>1, Zenon DEF ListedFrom
      <3>2. CASE ~(at = n \/ at \in stops)
        <4>1. next[at] \in at + 1 .. n
          BY <2>1, <3>2
        <4>2. \A j \in at + 1 .. n : j \in n - k .. n
          BY <2>1
        <4>3. f[next[at]] = g[next[at]]
          BY <2>3, <4>1, <4>2
        <4> QED BY <4>3, Zenon DEF ListedFrom
      <3> QED BY <3>1, <3>2
    <2>7. f = [at \in first .. n |-> E(at, f)]
      <3>1. \A at \in first .. n : f[at] = E(at, f)
        BY <2>4, <2>6
      <3> HIDE DEF E
      <3> QED BY <2>5, <3>1
    <2>8. IsListing(f, n, m, stops, next, rows)
      BY <2>7, Zenon DEF IsListing
    <2> QED BY <2>1, <2>8
  <1>3. n \in S
    <2>1. 0 .. n \subseteq S
      <3> HIDE DEF S
      <3> QED BY <1>1, <1>2, UpTo
    <2> QED BY <2>1
  <1> QED BY <1>3

\* The stat that is read from a place on, and the place behind it.
StatFrom(data, at) == parseRawRStat(View(Rest(data, at)))
BehindStat(data, at) == Len(data) - Len(StatFrom(data, at).rest)
StatEnds(data, at) == StatFrom(data, at).thrown \/ StatFrom(data, at).beyond

\* The stats read from each place on (readRStatsFromData).
LEMMA ReadStatsSteps ==
  ASSUME NEW data \in Seq(Octets)
  PROVE  \E from : /\ readRStatsFromData(data) = from[0]
                   /\ from[Len(data)] = <<>>
                   /\ \A at \in 0 .. Len(data) : at # Len(data) /\ ~StatEnds(data, at) =>
                        from[at] = InFrontOf(StatFrom(data, at).values, from[BehindStat(data, at)])
  <1> PICK n : n = Len(data)
    OBVIOUS
  <1> DEFINE stops == {at \in 0 .. n : StatEnds(data, at)}
             next == [at \in 0 .. n |-> BehindStat(data, at)]
             rows == [at \in 0 .. n |-> StatFrom(data, at).values]
             E(at, f) == ListedFrom(at, f, n, stops, next, rows)
             F(at, f) == LET v == parseRawRStat(View(SubSeq(data, at + 1, Len(data)))) IN
                         IF at = Len(data) THEN <<>>
                         ELSE IF v.thrown \/ v.beyond THEN << <<>> >>
                         ELSE <<v.values>> \o f[Len(data) - Len(v.rest)]
             IsFrom(f) == f = [at \in 0 .. Len(data) |-> F(at, f)]
  <1>1. n \in Nat
    BY LenProperties
  <1>2. \A at \in 0 .. n : at # n /\ at \notin stops => next[at] \in at + 1 .. n
    <2> SUFFICES ASSUME NEW at \in 0 .. n, at # n, ~StatEnds(data, at)
                 PROVE  BehindStat(data, at) \in at + 1 .. n
      OBVIOUS
    <2> PICK rest : rest = Rest(data, at)
      OBVIOUS
    <2> PICK v : v = StatFrom(data, at)
      OBVIOUS
    <2>1. rest \in Seq(Octets) /\ Len(rest) = n - at
      BY RestIs
    <2>2. v = parseRawRStat(View(rest)) /\ ~v.thrown
      BY Zenon DEF StatFrom, StatEnds
    <2>3. v.rest \in Seq(Octets) /\ Len(v.rest) < Len(rest)
      BY <2>1, <2>2, StatTakes
    <2>4. Len(v.rest) \in Nat
      BY <2>3, LenProperties
    <2>5. BehindStat(data, at) = n - Len(v.rest)
      BY DEF BehindStat
    <2> QED BY <1>1, <2>1, <2>3, <2>4, <2>5
  <1>3. \A f : \A at \in 0 .. n : F(at, f) = E(at, f)
    <2> TAKE f
    <2> TAKE at \in 0 .. n
    <2>1. F(at, f) = IF at = n THEN <<>>
                     ELSE IF StatEnds(data, at) THEN << <<>> >>
                     ELSE InFrontOf(StatFrom(data, at).values, f[BehindStat(data, at)])
      BY Zenon DEF StatEnds, StatFrom, BehindStat, Rest, InFrontOf
    <2>2. (at \in stops) = StatEnds(data, at) /\ next[at] = BehindStat(data, at)
          /\ rows[at] = StatFrom(data, at).values
      BY DEF StatEnds
    <2> HIDE DEF F, stops, next, rows
    <2> QED BY <2>1, <2>2, Zenon DEF ListedFrom
  <1>4. \E f : IsListing(f, n, n, stops, next, rows)
    <2> HIDE DEF stops, next, rows
    <2> QED BY <1>1, <1>2, ListingExists
  <1>5. \A f : f = [at \in 0 .. n |-> E(at, f)] => IsFrom(f)
    <2> HIDE DEF F, E
    <2> QED BY <1>3, Zenon
  <1>6. \E f : IsFrom(f)
    <2> PICK f : IsListing(f, n, n, stops, next, rows)
      BY <1>4
    <2>1. n - n = 0
      BY <1>1
    <2>2. f = [at \in 0 .. n |-> E(at, f)]
      BY <2>1, Zenon DEF IsListing
    <2> HIDE DEF E, F, IsFrom
    <2> QED BY <1>5, <2>2, Zenon
  <1> DEFINE from == CHOOSE f : IsFrom(f)
  <1>7. IsFrom(from)
    <2> HIDE DEF IsFrom
    <2> QED BY <1>6, Zenon
  <1>8. readRStatsFromData(data) = from[0]
    BY Zenon DEF readRStatsFromData
  <1>9. \A at \in 0 .. n : from[at] = E(at, from)
    <2> HIDE DEF from, F, E
    <2> QED BY <1>3, <1>7, Zenon
  <1> HIDE DEF from
  <1>10. from[n] = <<>>
    <2>1. n \in 0 .. n
      BY <1>1
    <2> QED BY <1>9, <2>1, Zenon DEF ListedFrom
  <1>11. ASSUME NEW at \in 0 .. n, at # n, ~StatEnds(data, at)
         PROVE  from[at] = InFrontOf(StatFrom(data, at).values, from[BehindStat(data, at)])
    <2>1. at \notin stops /\ next[at] = BehindStat(data, at) /\ rows[at] = StatFrom(data, at).values
      BY <1>11
    <2> HIDE DEF stops, next, rows
    <2> QED BY <1>9, <1>11, <2>1, Zenon DEF ListedFrom
  <1> QED BY <1>8, <1>10, <1>11, Zenon

\* A listed stat has an octet at least.
LEMMA EncodeStatIs ==
  ASSUME NEW stat, NEW extra, StatHolds(stat, extra)
  PROVE  EncodeStat(stat, extra) \in Seq(Octets) /\ Len(EncodeStat(stat, extra)) \in Nat \ {0}
  <1> PICK s : s = Encode(Stat, stat) \o extra
    OBVIOUS
  <1> PICK size : size = LittleEndian(Len(s), Width["u16"])
    OBVIOUS
  <1>1. s \in Seq(Octets) /\ Len(s) \in Nat
    BY LenProperties DEF StatHolds, SizeHolds
  <1>2. Width["u16"] \in Nat \ {0}
    BY KindsAre, LimitPositive
  <1>3. size \in Seq(Octets) /\ Len(size) \in Nat \ {0}
    BY <1>1, <1>2, LittleEndianType
  <1> PICK all : all = size \o s
    OBVIOUS
  <1>4. all \in Seq(Octets) /\ Len(all) = Len(size) + Len(s)
    BY <1>1, <1>3, ConcatProperties
  <1>5. all = EncodeStat(stat, extra)
    BY Zenon DEF EncodeStat, Sized
  <1> QED BY <1>1, <1>3, <1>4, <1>5

\* The stats behind the first i of a directory.
StatsBehind(entries, i) == [j \in 1 .. Len(entries) - i |-> entries[i + j].stat]

\* A row with values in it, by its places.
LEMMA RowIs ==
  ASSUME NEW S, NEW m \in Nat, NEW s, s = [j \in 1 .. m |-> s[j]], \A j \in 1 .. m : s[j] \in S
  PROVE  s \in Seq(S) /\ Len(s) = m
  OBVIOUS

\* A row with one more in front.
IsInFront(u, x, s) == u = InFrontOf(x, s)

\* What it holds, and where.
LEMMA InFrontIs ==
  ASSUME NEW S, NEW x \in S, NEW s \in Seq(S), NEW n \in Nat, Len(s) = n, NEW u, IsInFront(u, x, s)
  PROVE  /\ u \in Seq(S) /\ Len(u) = 1 + n /\ u[1] = x
         /\ \A j \in 1 .. n : u[1 + j] = s[j]
  <1> PICK one : one = <<x>>
    OBVIOUS
  <1>1. one \in Seq(S) /\ Len(one) = 1 /\ one[1] = x
    OBVIOUS
  <1>2. u = one \o s
    BY Zenon DEF InFrontOf, IsInFront
  <1>3. 1 \in 1 .. Len(one)
    BY <1>1
  <1>4. /\ u \in Seq(S) /\ Len(u) = Len(one) + Len(s)
        /\ \A j \in 1 .. Len(one) : u[j] = one[j]
        /\ \A j \in 1 .. Len(s) : u[Len(one) + j] = s[j]
    BY <1>1, <1>2, ConcatPlaces
  <1> QED BY <1>1, <1>3, <1>4, Zenon

\* One more of them.
LEMMA StatsBehindStep ==
  ASSUME NEW entries, Len(entries) \in Nat, NEW i \in 1 .. Len(entries)
  PROVE  StatsBehind(entries, i - 1) = InFrontOf(entries[i].stat, StatsBehind(entries, i))
  <1> PICK n : n = Len(entries)
    OBVIOUS
  <1> PICK x : x = entries[i].stat
    OBVIOUS
  <1> DEFINE S == {entries[j].stat : j \in 1 .. n}
  <1>s. PICK s : s = StatsBehind(entries, i)
    OBVIOUS
  <1>t. PICK t : t = StatsBehind(entries, i - 1)
    OBVIOUS
  <1>1. n \in Nat /\ n - i \in Nat /\ n - (i - 1) = 1 + (n - i) /\ x \in S
    OBVIOUS
  <1>2. s = [j \in 1 .. n - i |-> entries[i + j].stat]
    BY <1>s DEF StatsBehind
  <1>3. \A j \in 1 .. n - i : i + j \in 1 .. n /\ entries[i + j].stat \in S
    OBVIOUS
  <1>4. s \in Seq(S) /\ Len(s) = n - i
    <2>1. s = [j \in 1 .. n - i |-> s[j]] /\ \A j \in 1 .. n - i : s[j] \in S
      BY <1>2, <1>3
    <2> HIDE DEF S
    <2>2. n - i \in Nat
      BY <1>1
    <2> QED BY <2>1, <2>2, RowIs
  <1>5. t = [j \in 1 .. 1 + (n - i) |-> entries[(i - 1) + j].stat]
    BY <1>1, <1>t DEF StatsBehind
  <1>6. \A j \in 1 .. 1 + (n - i) : (i - 1) + j \in 1 .. n
    OBVIOUS
  <1>7. t \in Seq(S) /\ Len(t) = 1 + (n - i)
    <2>1. t = [j \in 1 .. 1 + (n - i) |-> t[j]] /\ \A j \in 1 .. 1 + (n - i) : t[j] \in S
      BY <1>5, <1>6
    <2>2. 1 + (n - i) \in Nat
      BY <1>1
    <2> HIDE DEF S
    <2> QED BY <2>1, <2>2, RowIs
  <1> PICK u : IsInFront(u, x, s)
    BY Zenon DEF IsInFront
  <1>9. /\ u \in Seq(S) /\ Len(u) = 1 + (n - i) /\ u[1] = x
        /\ \A j \in 1 .. n - i : u[1 + j] = s[j]
    <2> HIDE DEF S
    <2>1. Len(s) = n - i /\ n - i \in Nat
      BY <1>1, <1>4
    <2>2. \A m \in Nat : Len(s) = m =>
             /\ u \in Seq(S) /\ Len(u) = 1 + m /\ u[1] = x
             /\ \A j \in 1 .. m : u[1 + j] = s[j]
      <3>1. s \in Seq(S) /\ x \in S
        BY <1>1, <1>4
      <3> QED BY <3>1, InFrontIs
    <2> QED BY <2>1, <2>2, Zenon
  <1>10. ASSUME NEW j \in 1 .. 1 + (n - i) PROVE u[j] = t[j]
    <2>1. t[j] = entries[(i - 1) + j].stat
      BY <1>5
    <2>2. CASE j = 1
      <3>1. (i - 1) + j = i
        BY <2>2
      <3> QED BY <1>9, <2>1, <2>2, <3>1
    <2>3. CASE j # 1
      <3> PICK l : l = j - 1
        OBVIOUS
      <3>1. l \in 1 .. n - i /\ 1 + l = j /\ (i - 1) + j = i + l
        BY <1>1, <2>3
      <3>2. u[1 + l] = s[l] /\ s[l] = entries[i + l].stat
        BY <1>2, <1>9, <3>1
      <3> QED BY <2>1, <3>1, <3>2
    <2> QED BY <2>2, <2>3
  <1>11. u = t
    <2> HIDE DEF S
    <2> QED BY <1>7, <1>9, <1>10, SeqEqual
  <1> QED BY <1>11, <1>s, <1>t, Zenon DEF IsInFront

\* A directory that is read in whole is read as its entries, whatever their
\* server adds to each (readRStatsFromData, parseRawRStat).
THEOREM ReadDirectory ==
  ASSUME NEW entries, NEW n \in Nat, entries = [i \in 1 .. n |-> entries[i]],
         Len(entries) = n,
         \A i \in 1 .. n : StatHolds(entries[i].stat, entries[i].extra)
  PROVE  readRStatsFromData(DirectoryData(entries)) = Stats(entries)
  <1> DEFINE seqs == [i \in 1 .. n |-> EncodeStat(entries[i].stat, entries[i].extra)]
  <1>1. DOMAIN entries = 1 .. n
    BY Zenon
  <1>2. \A i \in 1 .. n : /\ EncodeStat(entries[i].stat, entries[i].extra) \in Seq(Octets)
                          /\ Len(EncodeStat(entries[i].stat, entries[i].extra)) \in Nat \ {0}
    BY EncodeStatIs
  <1>3. /\ seqs \in Seq(Seq(Octets)) /\ Len(seqs) = n
        /\ \A i \in 1 .. n : seqs[i] = EncodeStat(entries[i].stat, entries[i].extra)
    BY <1>2
  <1> PICK data : data = DirectoryData(entries)
    OBVIOUS
  <1>4. data = FlattenSeq(seqs)
    BY <1>1, Zenon DEF DirectoryData
  <1> HIDE DEF seqs
  <1> PICK pos : JoinedAt(data, seqs, pos) /\ data \in Seq(Octets)
    BY <1>3, <1>4, FlattenPlaces
  <1>5. /\ pos \in [0 .. n -> Nat] /\ pos[0] = 0 /\ pos[n] = Len(data) /\ Len(data) \in Nat
        /\ \A k \in 1 .. n : pos[k] = pos[k - 1] + Len(seqs[k]) /\ StandsAt(data, pos[k - 1], seqs[k])
    BY <1>3 DEF JoinedAt
  <1> PICK from : /\ readRStatsFromData(data) = from[0]
                  /\ from[Len(data)] = <<>>
                  /\ \A at \in 0 .. Len(data) : at # Len(data) /\ ~StatEnds(data, at) =>
                       from[at] = InFrontOf(StatFrom(data, at).values, from[BehindStat(data, at)])
    BY ReadStatsSteps
  <1>6. ASSUME NEW i \in 1 .. n
        PROVE  from[pos[i - 1]] = InFrontOf(entries[i].stat, from[pos[i]])
    <2> PICK stat : stat = entries[i].stat
      OBVIOUS
    <2> PICK extra : extra = entries[i].extra
      OBVIOUS
    <2> PICK octets : octets = seqs[i]
      OBVIOUS
    <2> PICK p : p = pos[i - 1]
      OBVIOUS
    <2> PICK q : q = pos[i]
      OBVIOUS
    <2>1. StatHolds(stat, extra) /\ octets = EncodeStat(stat, extra) /\ Len(octets) \in Nat \ {0}
      BY <1>2, <1>3
    <2>2. i - 1 \in 0 .. n
      OBVIOUS
    <2>3. p \in Nat /\ q = p + Len(octets) /\ StandsAt(data, p, octets)
      BY <1>5, <2>2
    <2>4. p + Len(octets) <= Len(data)
      BY <2>3, Zenon DEF StandsAt
    <2>5. p \in 0 .. Len(data) /\ p # Len(data) /\ q \in 0 .. Len(data)
      BY <1>5, <2>1, <2>3, <2>4
    <2> PICK v : v = View(Rest(data, p))
      OBVIOUS
    <2>6. ReadTo(v, data, p, <<>>)
      <3>1. v = At(data, p, <<>>)
        BY Zenon DEF View, At
      <3>2. <<>> \in Seq(Values)
        OBVIOUS
      <3> QED BY <2>5, <3>1, <3>2, Zenon DEF ReadTo
    <2> PICK u : u = parseRawRStat(v)
      OBVIOUS
    <2>7. ReadTo(u, data, q, stat)
      BY <2>1, <2>3, <2>6, ReadStat
    <2>8. u.values = stat /\ u.thrown = FALSE /\ u.beyond = FALSE /\ u.rest = Rest(data, q)
      <3>1. u = At(data, q, stat)
        BY <2>7, Zenon DEF ReadTo
      <3> QED BY <3>1 DEF At
    <2>9. u = StatFrom(data, p)
      BY Zenon DEF StatFrom
    <2>10. ~StatEnds(data, p)
      BY <2>8, <2>9 DEF StatEnds
    <2>11. BehindStat(data, p) = q
      <3>1. Len(u.rest) = Len(data) - q
        BY <2>5, <2>8, RestIs
      <3>2. BehindStat(data, p) = Len(data) - Len(u.rest)
        BY <2>9, Zenon DEF BehindStat
      <3> PICK l : l = Len(data)
        OBVIOUS
      <3>3. l \in Nat /\ q \in Nat /\ BehindStat(data, p) = l - (l - q)
        BY <1>5, <2>5, <3>1, <3>2
      <3> QED BY <3>3
    <2> QED BY <2>5, <2>8, <2>9, <2>10, <2>11, Zenon
  <1> DEFINE S == {k \in 0 .. n : from[pos[n - k]] = StatsBehind(entries, n - k)}
  <1>7. 0 \in S
    <2>1. StatsBehind(entries, n) = <<>>
      <3>1. StatsBehind(entries, n) = [j \in 1 .. n - n |-> entries[n + j].stat] /\ n - n = 0
        BY DEF StatsBehind
      <3> QED BY <3>1
    <2>2. n - 0 = n
      OBVIOUS
    <2> QED BY <1>5, <2>1, <2>2
  <1>8. ASSUME NEW k \in 0 .. n - 1, k \in S PROVE k + 1 \in S
    <2> PICK i : i = n - k
      OBVIOUS
    <2>1. i \in 1 .. n /\ n - (k + 1) = i - 1 /\ k + 1 \in 0 .. n
      OBVIOUS
    <2>2. from[pos[i]] = StatsBehind(entries, i)
      BY <1>8
    <2>3. from[pos[i - 1]] = StatsBehind(entries, i - 1)
      <3>1. from[pos[i - 1]] = InFrontOf(entries[i].stat, from[pos[i]])
        BY <1>6, <2>1
      <3>2. StatsBehind(entries, i - 1) = InFrontOf(entries[i].stat, StatsBehind(entries, i))
        BY <2>1, StatsBehindStep
      <3> QED BY <2>2, <3>1, <3>2
    <2> QED BY <2>1, <2>3
  <1>9. n \in S
    <2>1. 0 .. n \subseteq S
      <3> HIDE DEF S
      <3> QED BY <1>7, <1>8, UpTo
    <2> QED BY <2>1
  <1>10. from[0] = StatsBehind(entries, 0)
    <2>1. n - n = 0
      OBVIOUS
    <2> QED BY <1>5, <1>9, <2>1
  <1>11. StatsBehind(entries, 0) = Stats(entries)
    <2>1. \A j \in 1 .. n : 0 + j = j
      OBVIOUS
    <2>2. Len(entries) - 0 = n
      OBVIOUS
    <2>3. StatsBehind(entries, 0) = [j \in 1 .. n |-> entries[j].stat]
      BY <2>1, <2>2 DEF StatsBehind
    <2> QED BY <1>1, <2>3, Zenon DEF Stats
  <1> QED BY <1>10, <1>11, Zenon

\* Every directory that is read in whole is read as the entries its server has
\* listed, however many they are and whatever is behind their fields
\* (ReadAll and readRStatsFromData).
THEOREM EntriesAreServersAlways == Spec => []EntriesAreServers
  <1>1. EntriesAreServers
    <2> SUFFICES ASSUME NEW entries \in Directories, reply.data = Listings[entries]
                 PROVE  readRStatsFromData(reply.data) = Stats(entries)
      BY DEF EntriesAreServers
    <2> PICK n : n = Len(entries)
      OBVIOUS
    <2>1. /\ n \in Nat /\ entries = [i \in 1 .. n |-> entries[i]]
          /\ \A i \in DOMAIN entries : StatHolds(entries[i].stat, entries[i].extra)
      BY DirectoriesAssumption
    <2>2. DOMAIN entries = 1 .. n
      BY <2>1, Zenon
    <2>3. reply.data = DirectoryData(entries)
      BY Zenon DEF Listings
    <2>4. readRStatsFromData(DirectoryData(entries)) = Stats(entries)
      BY <2>1, <2>2, ReadDirectory
    <2> QED BY <2>3, <2>4
  <1> QED BY <1>1, PTL
=============================================================================
