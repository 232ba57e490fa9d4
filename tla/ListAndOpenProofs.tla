-------------------------- MODULE ListAndOpenProofs --------------------------
(***************************************************************************)
(* Theorems about ListAndOpen, for every value of its constants: what      *)
(* Windows is told of a file, and what becomes of the paths it asks for.   *)
(***************************************************************************)
EXTENDS ListAndOpen, DataInduction

\* ClockAssumption holds of any clock whose epochs are less than three wraps of
\* a DWORD of seconds apart and whose ticks are less than a quarter of one.
LEMMA ClockFits ==
  ASSUME NEW half \in Nat, NEW diff \in Nat, NEW rate \in Nat,
         half - 1 + diff < 4 * half, 4 * rate < half
  PROVE  (half - 1 + diff) * rate < half * half
  <1>1. (half - 1 + diff) * rate <= (4 * half) * rate
    OBVIOUS
  <1>2. (4 * half) * rate = half * (4 * rate)
    OBVIOUS
  <1>3. half * (4 * rate) < half * half
    OBVIOUS
  <1> QED BY <1>1, <1>2, <1>3

\* So it does of the real constants.
LEMMA RealClock ==
  4294967296 - 1 + 11644473600 < 4 * 4294967296 /\ 4 * 10000000 < 4294967296
  BY SMT

\* What is split into halves is joined again (splitInt64).
LEMMA SplitJoined ==
  ASSUME NEW v \in 0 .. Half * Half - 1
  PROVE  /\ splitInt64(v) \in Pairs
         /\ Joined(splitInt64(v)) = v
  <1> USE HalfAssumption
  <1> DEFINE h == v \div Half
  <1>1. Half \in Nat /\ Half > 0 /\ v \in Nat
    OBVIOUS
  <1>2. /\ h \in Nat /\ v % Half \in 0 .. Half - 1
        /\ v = h * Half + (v % Half)
    BY <1>1
  <1>3. h < Half
    <2> SUFFICES ASSUME h >= Half PROVE FALSE
      BY <1>2
    <2>1. h * Half >= Half * Half
      BY <1>1, <1>2
    <2> QED BY <1>1, <1>2, <2>1
  <1>4. h % Half = h
    BY <1>1, <1>2, <1>3
  <1> QED
    BY <1>1, <1>2, <1>3, <1>4 DEF splitInt64, Joined, Pairs, DWORD

\* Every time of a stat comes out of its FILETIME as it went in
\* (storeTimestampIntoFiletime).
LEMMA TimestampExact ==
  ASSUME NEW t \in 0 .. Half - 1
  PROVE  /\ storeTimestampIntoFiletime(t) \in Pairs
         /\ Seconds(storeTimestampIntoFiletime(t)) = t
  <1> USE HalfAssumption, ClockAssumption
  <1> DEFINE s == t + EpochDiff
             ticks == s * TicksPerSecond
  <1>1. /\ Half \in Nat /\ Half > 0 /\ EpochDiff \in Nat
        /\ TicksPerSecond \in Nat /\ TicksPerSecond > 0 /\ t \in Nat
    OBVIOUS
  <1>2. s \in Nat /\ s <= Half - 1 + EpochDiff
    BY <1>1
  <1>3. ticks \in Nat /\ ticks <= (Half - 1 + EpochDiff) * TicksPerSecond
    BY <1>1, <1>2
  <1>4. ticks < Half * Half
    BY <1>1, <1>3
  <1>5. s <= ticks
    BY <1>1, <1>2
  <1>6. s % (Half * Half) = s /\ ticks % (Half * Half) = ticks
    BY <1>1, <1>2, <1>3, <1>4, <1>5
  <1>7. storeTimestampIntoFiletime(t) = splitInt64(ticks)
    BY <1>6 DEF storeTimestampIntoFiletime
  <1>8. ticks \in 0 .. Half * Half - 1
    BY <1>1, <1>3, <1>4
  <1>9. ticks \div TicksPerSecond = s
    BY <1>1, <1>2
  <1> HIDE DEF s, ticks
  <1>10. Seconds(splitInt64(ticks)) = s - EpochDiff
    BY <1>8, <1>9, SplitJoined DEF Seconds
  <1> QED
    BY <1>1, <1>7, <1>8, <1>10, SplitJoined DEF s

-----------------------------------------------------------------------------
(* What is told of a file.                                                 *)

\* The part of a stat both callbacks tell is well typed and exact.
LEMMA CommonExact ==
  ASSUME NEW s \in RStat
  PROVE  /\ Common(s) \in Commons
         /\ Seconds(Common(s).ftLastWriteTime) = s.mtime
         /\ Seconds(Common(s).ftCreationTime) = s.mtime
         /\ Seconds(Common(s).ftLastAccessTime) = s.atime
         /\ Joined(Common(s).nFileSize) = s.length
  <1>1. /\ s.mtime \in 0 .. Half - 1 /\ s.atime \in 0 .. Half - 1
        /\ s.length \in 0 .. Half * Half - 1
    BY DEF RStat, DWORD
  <1>2. Attributes(s.type) \in {"DIRECTORY", "NORMAL"}
    BY DEF Attributes
  <1> QED
    BY <1>1, <1>2, TimestampExact, SplitJoined DEF Common, Commons

\* What is cut is as long as it was to be.
LEMMA CutLength ==
  ASSUME NEW w \in Seq(Units), NEW n \in Nat, n < Len(w)
  PROVE  Len(SubSeq(w, 1, n)) = n
  OBVIOUS

-----------------------------------------------------------------------------
(* The split of a path.                                                    *)

\* A piece of a path is a sequence of its octets.
LEMMA PieceOfPath ==
    ASSUME NEW s \in Octets, NEW first \in Nat, first > 0, NEW last \in 0 .. Len(s)
    PROVE  /\ SubSeq(s, first, last) \in Octets
           /\ \A j \in DOMAIN SubSeq(s, first, last) :
                /\ first + j - 1 \in first .. last
                /\ SubSeq(s, first, last)[j] = s[first + j - 1]
<1> USE DEF Octets
<1>1. ASSUME NEW i \in first .. last PROVE s[i] \in 0 .. 255
    <2>1. i \in 1 .. Len(s)
        OBVIOUS
    <2>2. QED
        BY <2>1, ElementOfSeq
<1>2. SubSeq(s, first, last) \in Octets
    BY <1>1, SubSeqProperties
<1>3. \A j \in 1 .. last - first + 1 : SubSeq(s, first, last)[j] = s[first + j - 1]
    BY <1>1, SubSeqProperties
<1>4. DOMAIN SubSeq(s, first, last) = 1 .. last - first + 1
    BY <1>1, <1>2, SubSeqProperties
<1>5. QED
    BY <1>2, <1>3, <1>4

\* Pushing a piece without a delimiter keeps the components whole.
LEMMA PushKeepsWhole ==
    ASSUME path_components \in Seq(Octets), NamesAreWhole,
           NEW c \in Octets, \A j \in DOMAIN c : c[j] # Delim,
           path_components' = Pushed(c)
    PROVE  path_components' \in Seq(Octets) /\ NamesAreWhole'
<1>1. CASE c = <<>>
    BY <1>1 DEF Pushed, NamesAreWhole
<1>2. CASE c # <<>>
    <2>1. path_components' = Append(path_components, c)
        BY <1>2 DEF Pushed
    <2>2. path_components' \in Seq(Octets)
        BY <2>1
    <2>3. ASSUME NEW i \in DOMAIN path_components'
          PROVE  \/ i \in DOMAIN path_components /\ path_components'[i] = path_components[i]
                 \/ path_components'[i] = c
        BY <2>1
    <2>4. QED
        BY <1>2, <2>2, <2>3 DEF NamesAreWhole
<1>3. QED
    BY <1>1, <1>2

\* A call begins with nothing split.
LEMMA SplitBegins ==
  ASSUME NEW s \in Octets, splitToPathComponents(s)
  PROVE  SplitTypeOK' /\ NamesAreWhole'
  <1>1. /\ path' = s /\ start' = 1 /\ path_components' = <<>> /\ returned' = FALSE
    BY DEF splitToPathComponents
  <1>2. <<>> \in Seq(Octets)
    OBVIOUS
  <1>3. 1 \in 1 .. Len(s) + 1
    BY DEF Octets
  <1>4. SplitTypeOK'
    BY <1>1, <1>2, <1>3 DEF SplitTypeOK
  <1>5. NamesAreWhole'
    BY <1>1 DEF NamesAreWhole
  <1> QED BY <1>4, <1>5

\* Each piece is whole, and the next begins in the path or just after it.
LEMMA SplitKeeps ==
  ASSUME SplitTypeOK, NamesAreWhole, SplitStep
  PROVE  SplitTypeOK' /\ NamesAreWhole'
  <1>1. path \in Octets /\ start \in 1 .. Len(path) + 1
    BY DEF SplitTypeOK
  <1>2. CASE NextComponent
    <2>1. PICK end \in start .. Len(path) :
                /\ Finds(end)
                /\ path_components' = Pushed(SubSeq(path, start, end - 1))
                /\ start' = end + 1
                /\ UNCHANGED <<path, returned>>
        BY <1>2 DEF NextComponent
    <2>2. start \in Nat /\ start > 0 /\ end - 1 \in 0 .. Len(path)
        BY <1>1, <2>1 DEF Octets
    <2>3. SubSeq(path, start, end - 1) \in Octets
        BY <1>1, <2>2, PieceOfPath
    <2>4. \A j \in DOMAIN SubSeq(path, start, end - 1) :
                SubSeq(path, start, end - 1)[j] # Delim
        BY <1>1, <2>1, <2>2, PieceOfPath DEF Finds
    <2>5. path_components' \in Seq(Octets) /\ NamesAreWhole'
        BY <2>1, <2>3, <2>4, PushKeepsWhole DEF SplitTypeOK
    <2>6. path' = path /\ start' \in 1 .. Len(path) + 1
        BY <1>1, <2>1 DEF Octets
    <2>7. QED
        BY <2>1, <2>5, <2>6 DEF SplitTypeOK
  <1>3. CASE LastComponent
    <2>1. start \in Nat /\ start > 0 /\ Len(path) \in 0 .. Len(path)
        BY <1>1 DEF Octets
    <2>2. SubSeq(path, start, Len(path)) \in Octets
        BY <1>1, <2>1, PieceOfPath
    <2>3. \A j \in DOMAIN SubSeq(path, start, Len(path)) :
                SubSeq(path, start, Len(path))[j] # Delim
        BY <1>1, <1>3, <2>1, PieceOfPath DEF LastComponent, FindsNone
    <2>4. path_components' \in Seq(Octets) /\ NamesAreWhole'
        BY <1>3, <2>2, <2>3, PushKeepsWhole DEF LastComponent, SplitTypeOK
    <2>5. QED
        BY <1>3, <2>4 DEF LastComponent, SplitTypeOK
  <1> QED BY <1>2, <1>3 DEF SplitStep

-----------------------------------------------------------------------------
(* Characters and UTF-16                                                    *)

\* The recursion of Utf16Characters.
IsReading(s, n, f) ==
    f = [p \in SUBSET (1 .. n) |->
           IF p = {} THEN <<>> ELSE AddUnit(f[p \ {Max(p)}], s[Max(p)])]

\* A unit more leaves a row of numbers.
LEMMA AddUnitType ==
  ASSUME NEW chars \in Seq(Int), NEW u \in Units
  PROVE  AddUnit(chars, u) \in Seq(Int)
  <1>u. u \in Int
    BY DEF Units
  <1>1. CASE Low(u) /\ chars # <<>> /\ High(Last(chars))
    <2>v. PICK v : v = Pair(chars[Len(chars)], u)
      OBVIOUS
    <2>1. Len(chars) \in 1 .. Len(chars)
      BY <1>1
    <2>2. chars[Len(chars)] \in Int
      BY <2>1
    <2>3. v \in Int
      BY <1>u, <2>v, <2>2 DEF Pair
    <2>4. [chars EXCEPT ![Len(chars)] = v] \in Seq(Int)
      BY <2>1, <2>3, ExceptSeq
    <2>5. AddUnit(chars, u) = [chars EXCEPT ![Len(chars)] = v]
      BY <1>1, <2>v DEF AddUnit
    <2> QED BY <2>4, <2>5, Zenon
  <1>2. CASE ~(Low(u) /\ chars # <<>> /\ High(Last(chars)))
    BY <1>u, <1>2 DEF AddUnit
  <1> QED BY <1>1, <1>2

\* There is such a recursion.
LEMMA ReadingExists ==
  ASSUME NEW s \in Seq(Units)
  PROVE  \E f : IsReading(s, Len(s), f)
  <1>n. PICK n : n = Len(s)
    OBVIOUS
  <1>1. n \in Nat /\ \A i \in 1 .. n : s[i] \in Units
    BY <1>n
  <1>step. PICK step : step = [x \in Seq(Int) \X Units |-> AddUnit(x[1], x[2])]
    OBVIOUS
  <1>2. /\ step \in [Seq(Int) \X Units -> Seq(Int)]
        /\ \A a \in Seq(Int), b \in Units : step[<<a, b>>] = AddUnit(a, b)
    BY <1>step, AddUnitType
  <1>f. PICK f : FoldsInto(Seq(Int), step, <<>>, s, n, f)
    <2>1. <<>> \in Seq(Int)
      OBVIOUS
    <2> QED BY <1>1, <1>2, <2>1, FoldExists
  <1>3. /\ \A p \in SUBSET (1 .. n) : f[p] \in Seq(Int)
        /\ f = [p \in SUBSET (1 .. n) |->
                  IF p = {} THEN <<>> ELSE step[<<f[p \ {Max(p)}], s[Max(p)]>>]]
    BY <1>f, Zenon DEF FoldsInto
  <1>4. ASSUME NEW p \in SUBSET (1 .. n), p # {}
        PROVE  step[<<f[p \ {Max(p)}], s[Max(p)]>>] = AddUnit(f[p \ {Max(p)}], s[Max(p)])
    <2>1. Max(p) \in 1 .. n
      BY <1>1, <1>4, LastPlace
    <2>2. f[p \ {Max(p)}] \in Seq(Int) /\ s[Max(p)] \in Units
      <3>1. p \ {Max(p)} \in SUBSET (1 .. n)
        OBVIOUS
      <3> QED BY <1>1, <1>3, <2>1, <3>1, Zenon
    <2> QED BY <1>2, <2>2, Zenon
  <1>5. [p \in SUBSET (1 .. n) |->
           IF p = {} THEN <<>> ELSE step[<<f[p \ {Max(p)}], s[Max(p)]>>]]
        = [p \in SUBSET (1 .. n) |->
             IF p = {} THEN <<>> ELSE AddUnit(f[p \ {Max(p)}], s[Max(p)])]
    BY <1>4
  <1>6. IsReading(s, n, f)
    BY <1>3, <1>5, Zenon DEF IsReading
  <1> QED BY <1>6, <1>n

\* Utf16Characters is one.
LEMMA CharactersAreRead ==
  ASSUME NEW s \in Seq(Units)
  PROVE  \E f : IsReading(s, Len(s), f) /\ Utf16Characters(s) = f[1 .. Len(s)]
  <1> DEFINE f == CHOOSE g : g = [p \in SUBSET (DOMAIN s) |->
                      IF p = {} THEN <<>> ELSE AddUnit(g[p \ {Max(p)}], s[Max(p)])]
  <1>d. DOMAIN s = 1 .. Len(s)
    OBVIOUS
  <1>1. Utf16Characters(s) = f[DOMAIN s]
    BY Zenon DEF Utf16Characters, FoldLeft, MapThenFoldSet
  <1>2. \E g : g = [p \in SUBSET (DOMAIN s) |->
                      IF p = {} THEN <<>> ELSE AddUnit(g[p \ {Max(p)}], s[Max(p)])]
    <2> PICK g : IsReading(s, Len(s), g)
      BY ReadingExists
    <2> QED BY <1>d, Zenon DEF IsReading
  <1>3. f = [p \in SUBSET (DOMAIN s) |->
               IF p = {} THEN <<>> ELSE AddUnit(f[p \ {Max(p)}], s[Max(p)])]
    BY <1>2, Zenon
  <1> HIDE DEF f
  <1>4. IsReading(s, Len(s), f)
    BY <1>d, <1>3, Zenon DEF IsReading
  <1> QED BY <1>d, <1>1, <1>4, Zenon

\* The characters of the first k units are those of the ones before and of one more.
LEMMA ReadingSteps ==
  ASSUME NEW s, NEW n \in Nat, NEW f, IsReading(s, n, f)
  PROVE  /\ f[1 .. 0] = <<>>
         /\ \A k \in 1 .. n : f[1 .. k] = AddUnit(f[1 .. k - 1], s[k])
  <1>1. f[1 .. 0] = <<>>
    <2>1. 1 .. 0 = {} /\ {} \in SUBSET (1 .. n)
      OBVIOUS
    <2>2. f[{}] = IF {} = {} THEN <<>> ELSE AddUnit(f[{} \ {Max({})}], s[Max({})])
      BY <2>1, Zenon DEF IsReading
    <2>3. f[{}] = <<>>
      BY <2>2, Zenon
    <2> QED BY <2>1, <2>3, Zenon
  <1>2. ASSUME NEW k \in 1 .. n
        PROVE  f[1 .. k] = AddUnit(f[1 .. k - 1], s[k])
    <2>1. 1 .. k # {} /\ 1 .. k \in SUBSET (1 .. n) /\ k \in Nat /\ k # 0
      <3>1. k \in Nat /\ k # 0 /\ k \in 1 .. k /\ \A i \in 1 .. k : i \in 1 .. n
        OBVIOUS
      <3>2. 1 .. k # {} /\ 1 .. k \in SUBSET (1 .. n)
        BY <3>1, Zenon
      <3> QED BY <3>1, <3>2
    <2>2. f[1 .. k] = IF 1 .. k = {} THEN <<>>
                      ELSE AddUnit(f[(1 .. k) \ {Max(1 .. k)}], s[Max(1 .. k)])
      BY <2>1, Zenon DEF IsReading
    <2>3. Max(1 .. k) = k /\ (1 .. k) \ {k} = 1 .. k - 1
      BY <2>1, LastOfAll
    <2> QED BY <2>1, <2>2, <2>3, Zenon
  <1> QED BY <1>1, <1>2

\* The characters of nothing, and of one unit more.
LEMMA CharactersSteps ==
  /\ Utf16Characters(<<>>) = <<>>
  /\ \A s \in Seq(Units), u \in Units :
       Utf16Characters(Append(s, u)) = AddUnit(Utf16Characters(s), u)
  <1>1. Utf16Characters(<<>>) = <<>>
    <2>1. <<>> \in Seq(Units) /\ Len(<<>>) = 0
      OBVIOUS
    <2> PICK f : IsReading(<<>>, 0, f) /\ Utf16Characters(<<>>) = f[1 .. 0]
      BY <2>1, CharactersAreRead
    <2>2. f[1 .. 0] = <<>>
      BY ReadingSteps
    <2> QED BY <2>2
  <1>2. ASSUME NEW s \in Seq(Units), NEW u \in Units
        PROVE  Utf16Characters(Append(s, u)) = AddUnit(Utf16Characters(s), u)
    <2>t. PICK t : t = Append(s, u)
      OBVIOUS
    <2>n. PICK n : n = Len(s)
      OBVIOUS
    <2>1. /\ t \in Seq(Units) /\ n \in Nat /\ Len(t) = n + 1 /\ t[n + 1] = u
          /\ \A i \in 1 .. n : t[i] = s[i]
      BY <2>n, <2>t, AppendKeeps
    <2>f. PICK f : IsReading(s, n, f) /\ Utf16Characters(s) = f[1 .. n]
      BY <2>n, CharactersAreRead
    <2>g. PICK g : IsReading(t, n + 1, g) /\ Utf16Characters(t) = g[1 .. n + 1]
      BY <2>1, CharactersAreRead
    <2>2. f[1 .. 0] = <<>> /\ \A k \in 1 .. n : f[1 .. k] = AddUnit(f[1 .. k - 1], s[k])
      BY <2>f, <2>1, ReadingSteps
    <2>3. /\ g[1 .. 0] = <<>>
          /\ \A k \in 1 .. n + 1 : g[1 .. k] = AddUnit(g[1 .. k - 1], t[k])
      <3>1. n + 1 \in Nat
        BY <2>1
      <3> QED BY <2>g, <3>1, ReadingSteps, Zenon
    <2> DEFINE P == {k \in 0 .. n : g[1 .. k] = f[1 .. k]}
    <2>4. 0 \in P
      BY <2>1, <2>2, <2>3
    <2>5. ASSUME NEW k \in 0 .. n - 1, k \in P PROVE k + 1 \in P
      <3>m. PICK m : m = k + 1
        OBVIOUS
      <3>1. m \in 1 .. n /\ m \in 1 .. n + 1 /\ m - 1 = k /\ m \in 0 .. n
        BY <2>1, <3>m
      <3>2. g[1 .. k] = f[1 .. k]
        BY <2>5
      <3>3. /\ g[1 .. m] = AddUnit(g[1 .. k], t[m]) /\ f[1 .. m] = AddUnit(f[1 .. k], s[m])
            /\ t[m] = s[m]
        BY <2>1, <2>2, <2>3, <3>1, Zenon
      <3>4. g[1 .. m] = f[1 .. m]
        BY <3>2, <3>3, Zenon
      <3> QED BY <3>1, <3>4, <3>m
    <2>6. g[1 .. n] = f[1 .. n]
      <3>1. 0 .. n \subseteq P
        <4> HIDE DEF P
        <4> QED BY <2>1, <2>4, <2>5, UpTo
      <3>2. n \in P
        BY <2>1, <3>1
      <3> QED BY <3>2
    <2>7. g[1 .. n + 1] = AddUnit(g[1 .. n], t[n + 1])
      <3>1. n + 1 \in 1 .. n + 1 /\ (n + 1) - 1 = n
        BY <2>1
      <3> QED BY <2>3, <3>1, Zenon
    <2> QED BY <2>t, <2>f, <2>g, <2>1, <2>6, <2>7, Zenon
  <1> QED BY <1>1, <1>2

\* The conversions, of one character, as functions.
Utf16Of == [char \in Scalars |-> Utf16(char)]
Utf8Of == [char \in Scalars |-> Utf8(char)]

\* Which numbers are units, and halves of a pair.
LEMMA Halves ==
  ASSUME NEW u \in Nat
  PROVE  /\ u < 65536 => u \in Units
         /\ High(u) <=> u >= 55296 /\ u < 56320
         /\ Low(u) <=> u >= 56320 /\ u < 57344
  <1>1. u < 65536 => u \in Units
    <2>1. WCHAR_MAX \in Nat /\ (u < 65536 => u <= WCHAR_MAX)
      BY SMT DEF WCHAR_MAX
    <2> QED BY <2>1, SMT DEF Units
  <1>2. High(u) <=> u >= 55296 /\ u < 56320
    BY SMT DEF High
  <1>3. Low(u) <=> u >= 56320 /\ u < 57344
    BY SMT DEF Low
  <1> QED BY <1>1, <1>2, <1>3, SMT

\* A character up to U+FFFF is one unit.
LEMMA ShortUtf16 ==
  ASSUME NEW c \in Scalars, c < 65536
  PROVE  Utf16Of[c] = <<c>> /\ c \in Units /\ ~Low(c)
  <1>1. Utf16Of[c] = Utf16(c)
    BY DEF Utf16Of
  <1>2. Utf16(c) = <<c>>
    BY DEF Utf16
  <1>3. c \in Units /\ ~Low(c)
    BY Halves, SMT DEF Scalars
  <1> QED BY SMT, <1>1, <1>2, <1>3

\* The halves of a number.
LEMMA HalvesOf ==
  ASSUME NEW c \in Nat, c >= 65536, c < 1114112, NEW d, d = (c - 65536) \div 1024, NEW r, r = c % 1024
  PROVE  d \in 0 .. 1023 /\ r \in 0 .. 1023 /\ c = 65536 + d * 1024 + r
  <1>q. PICK q : q = c \div 1024
    OBVIOUS
  <1>1. q \in Int /\ r \in 0 .. 1023 /\ c = q * 1024 + r
    BY SMT, <1>q
  <1>2. q >= 64 /\ q < 1088 /\ c - 65536 = (q - 64) * 1024 + r
    BY SMT, <1>1
  <1>3. d = q - 64
    BY SMT, <1>1, <1>2
  <1> QED BY SMT, <1>1, <1>2, <1>3

\* Any other is a pair, of which the character can be computed again.
LEMMA LongUtf16 ==
  ASSUME NEW c \in Scalars, ~(c < 65536)
  PROVE  \E hi \in Units, lo \in Units :
           /\ Utf16Of[c] = <<hi, lo>>
           /\ High(hi) /\ ~Low(hi) /\ Low(lo)
           /\ c = Pair(hi, lo)
  <1>1. c \in Nat /\ c >= 65536 /\ c < 1114112
    BY DEF Scalars
  <1>d. PICK d : d = (c - 65536) \div 1024
    OBVIOUS
  <1>r. PICK r : r = c % 1024
    OBVIOUS
  <1>2. d \in 0 .. 1023 /\ r \in 0 .. 1023 /\ c = 65536 + d * 1024 + r
    BY <1>1, <1>d, <1>r, HalvesOf
  <1>h. PICK hi : hi = 55296 + d
    OBVIOUS
  <1>l. PICK lo : lo = 56320 + r
    OBVIOUS
  <1>3. hi \in Units /\ lo \in Units /\ High(hi) /\ ~Low(hi) /\ Low(lo)
    <2>1. /\ hi \in Nat /\ hi >= 55296 /\ hi < 56320
          /\ lo \in Nat /\ lo >= 56320 /\ lo < 57344
      BY <1>2, <1>h, <1>l, SMT
    <2> QED BY <2>1, Halves, SMT
  <1>4. c = Pair(hi, lo)
    BY <1>2, <1>h, <1>l DEF Pair
  <1>5. Utf16Of[c] = <<hi, lo>>
    <2>1. Utf16(c) = <<55296 + (c - 65536) \div 1024, 56320 + (c % 1024)>>
      BY DEF Utf16
    <2>2. Utf16Of[c] = Utf16(c)
      BY DEF Utf16Of
    <2> QED BY <1>d, <1>r, <1>h, <1>l, <2>1, <2>2
  <1> QED BY <1>3, <1>4, <1>5

\* A character is written as units.
LEMMA Utf16OfType == Utf16Of \in [Scalars -> Seq(Units)]
  <1>1. ASSUME NEW c \in Scalars PROVE Utf16Of[c] \in Seq(Units)
    <2>1. CASE c < 65536
      <3>1. Utf16Of[c] = <<c>> /\ c \in Units
        BY <2>1, ShortUtf16
      <3> QED BY <3>1
    <2>2. CASE ~(c < 65536)
      <3> PICK hi \in Units, lo \in Units : Utf16Of[c] = <<hi, lo>>
        BY <2>2, LongUtf16
      <3> QED OBVIOUS
    <2> QED BY <2>1, <2>2
  <1>2. Utf16Of = [c \in Scalars |-> Utf16Of[c]]
    BY Zenon DEF Utf16Of
  <1> QED BY <1>1, <1>2, Zenon

\* The pair is read as the character.
LEMMA PairIsRead ==
  ASSUME NEW s \in Seq(Scalars), NEW c \in Scalars, NEW hi \in Units, NEW lo \in Units,
         High(hi), ~Low(hi), Low(lo), c = Pair(hi, lo)
  PROVE  AddUnit(AddUnit(s, hi), lo) = Append(s, c)
  <1>t. PICK t : t = Append(s, hi)
    OBVIOUS
  <1>n. PICK n : n = Len(s)
    OBVIOUS
  <1>1. AddUnit(s, hi) = t
    BY <1>t DEF AddUnit
  <1>2. /\ t \in Seq(Int) /\ n \in Nat /\ Len(t) = n + 1 /\ t[n + 1] = hi
        /\ \A i \in 1 .. n : t[i] = s[i]
    <2>1. s \in Seq(Int) /\ hi \in Int
      BY DEF Scalars, Units
    <2> QED BY <1>t, <1>n, <2>1, AppendKeeps
  <1>3. t # <<>> /\ Last(t) = hi
    BY <1>2 DEF Last
  <1>4. AddUnit(t, lo) = [t EXCEPT ![n + 1] = c]
    <2>1. AddUnit(t, lo) = [t EXCEPT ![Len(t)] = Pair(t[Len(t)], lo)]
      BY <1>3, Zenon DEF AddUnit
    <2> QED BY <1>2, <2>1, Zenon
  <1>u. PICK u : u = Append(s, c)
    OBVIOUS
  <1>5. /\ u \in Seq(Int) /\ Len(u) = n + 1 /\ u[n + 1] = c
        /\ \A i \in 1 .. n : u[i] = s[i]
    <2>1. s \in Seq(Int) /\ c \in Int
      BY DEF Scalars
    <2> QED BY <1>u, <1>n, <2>1, AppendKeeps
  <1>e. PICK e : e = [t EXCEPT ![n + 1] = c]
    OBVIOUS
  <1>6. /\ e \in Seq(Int) /\ Len(e) = n + 1
        /\ \A j \in 1 .. n + 1 : e[j] = IF j = n + 1 THEN c ELSE t[j]
    <2>1. n + 1 \in 1 .. Len(t) /\ c \in Int
      BY <1>2 DEF Scalars
    <2> QED BY <1>e, <1>2, <2>1, ExceptSeq
  <1>7. ASSUME NEW j \in 1 .. n + 1 PROVE e[j] = u[j]
    <2>1. CASE j = n + 1
      BY <1>5, <1>6, <2>1
    <2>2. CASE j # n + 1
      <3>1. j \in 1 .. n
        BY <1>2, <2>2
      <3> QED BY <1>2, <1>5, <1>6, <2>2, <3>1
    <2> QED BY <2>1, <2>2
  <1>8. e = u
    BY <1>5, <1>6, <1>7, SeqEqual
  <1> QED BY <1>1, <1>4, <1>e, <1>u, <1>8, Zenon

\* Characters written as UTF-16 are read again (Utf16, Utf16Characters).
LEMMA CharactersReadBack ==
  ASSUME NEW chars \in Seq(Scalars)
  PROVE  Utf16Characters(Spelled(Utf16Of, chars)) = chars
  <1> DEFINE T == {s \in Seq(Scalars) : Utf16Characters(Spelled(Utf16Of, s)) = s}
  <1>1. <<>> \in T
    <2>1. Spelled(Utf16Of, <<>>) = <<>>
      BY Utf16OfType, SpelledSteps, Zenon
    <2>2. <<>> \in Seq(Scalars)
      OBVIOUS
    <2> QED BY <2>1, <2>2, CharactersSteps, Zenon
  <1>2. ASSUME NEW s \in Seq(Scalars), s \in T, NEW c \in Scalars PROVE Append(s, c) \in T
    <2>w. PICK w : w = Spelled(Utf16Of, s)
      OBVIOUS
    <2>1. w \in Seq(Units) /\ Utf16Characters(w) = s
      <3>1. Spelled(Utf16Of, s) \in Seq(Units)
        BY Utf16OfType, SpelledSteps, Zenon
      <3> QED BY <1>2, <2>w, <3>1, Zenon
    <2>2. Spelled(Utf16Of, Append(s, c)) = w \o Utf16Of[c]
      <3>1. Spelled(Utf16Of, Append(s, c)) = Spelled(Utf16Of, s) \o Utf16Of[c]
        BY Utf16OfType, SpelledAppend, Zenon
      <3> QED BY <2>w, <3>1, Zenon
    <2>3. Utf16Characters(w \o Utf16Of[c]) = Append(s, c)
      <3>1. CASE c < 65536
        <4>1. Utf16Of[c] = <<c>> /\ c \in Units /\ ~Low(c)
          BY <3>1, ShortUtf16
        <4>2. w \o <<c>> = Append(w, c)
          BY <2>1
        <4>3. Utf16Characters(Append(w, c)) = AddUnit(s, c)
          BY <2>1, <4>1, CharactersSteps, Zenon
        <4>4. AddUnit(s, c) = Append(s, c)
          BY <4>1, Zenon DEF AddUnit
        <4> QED BY <4>1, <4>2, <4>3, <4>4, Zenon
      <3>2. CASE ~(c < 65536)
        <4>p. PICK hi \in Units, lo \in Units :
                 /\ Utf16Of[c] = <<hi, lo>>
                 /\ High(hi) /\ ~Low(hi) /\ Low(lo)
                 /\ c = Pair(hi, lo)
          BY <3>2, LongUtf16
        <4>v. PICK v : v = Append(w, hi)
          OBVIOUS
        <4>1. v \in Seq(Units)
          BY <2>1, <4>v, AppendKeeps
        <4>2. w \o <<hi, lo>> = Append(Append(w, hi), lo)
          BY <2>1
        <4>3. Utf16Characters(v) = AddUnit(s, hi)
          BY <2>1, <4>v, CharactersSteps, Zenon
        <4>4. Utf16Characters(Append(v, lo)) = AddUnit(AddUnit(s, hi), lo)
          BY <4>1, <4>3, CharactersSteps, Zenon
        <4>5. AddUnit(AddUnit(s, hi), lo) = Append(s, c)
          BY <4>p, PairIsRead, Zenon
        <4>6. Utf16Of[c] = <<hi, lo>>
          BY <4>p
        <4> QED BY <4>v, <4>2, <4>4, <4>5, <4>6, Zenon
      <3> QED BY <3>1, <3>2
    <2>4. Append(s, c) \in Seq(Scalars)
      OBVIOUS
    <2> QED BY <2>2, <2>3, <2>4, Zenon
  <1>3. Seq(Scalars) \subseteq T
    <2> HIDE DEF T
    <2> QED BY <1>1, <1>2, RowInduction, Zenon
  <1> QED BY <1>3, Zenon

-----------------------------------------------------------------------------
(* Octets *)

\* What Utf16Characters may yield: of a lone half, the half.
Codes == {c \in Nat : c < 1114112}

\* A pair is a character.
LEMMA PairIsCode ==
  ASSUME NEW hi, High(hi), NEW lo, Low(lo)
  PROVE  Pair(hi, lo) \in Codes
  <1>1. hi \in Nat /\ hi >= 55296 /\ hi < 56320
    BY SMT DEF High
  <1>2. lo \in Nat /\ lo >= 56320 /\ lo < 57344
    BY SMT DEF Low
  <1> QED BY SMT, <1>1, <1>2 DEF Pair, Codes

\* A unit is one by itself.
LEMMA UnitIsCode == \A u \in Units : u \in Codes
  <1>1. WCHAR_MAX \in Nat /\ \A n \in Nat : n <= WCHAR_MAX => n < 1114112
    BY SMT DEF WCHAR_MAX
  <1> QED BY SMT, <1>1 DEF Units, Codes

\* A unit more leaves a row of them.
LEMMA AddUnitCodes ==
  ASSUME NEW chars \in Seq(Codes), NEW u \in Units
  PROVE  AddUnit(chars, u) \in Seq(Codes)
  <1>1. CASE Low(u) /\ chars # <<>> /\ High(Last(chars))
    <2>n. PICK n : n = Len(chars)
      OBVIOUS
    <2>v. PICK v : v = Pair(chars[n], u)
      OBVIOUS
    <2>1. n \in 1 .. Len(chars) /\ High(chars[n])
      BY <1>1, <2>n DEF Last
    <2>2. v \in Codes
      BY <1>1, <2>v, <2>1, PairIsCode, Zenon
    <2>3. [chars EXCEPT ![n] = v] \in Seq(Codes)
      BY <2>1, <2>2, ExceptSeq
    <2>4. AddUnit(chars, u) = [chars EXCEPT ![n] = v]
      BY <1>1, <2>n, <2>v DEF AddUnit
    <2> QED BY <2>3, <2>4, Zenon
  <1>2. CASE ~(Low(u) /\ chars # <<>> /\ High(Last(chars)))
    <2>1. u \in Codes
      BY UnitIsCode
    <2> QED BY <1>2, <2>1 DEF AddUnit
  <1> QED BY <1>1, <1>2

\* All that is read is.
LEMMA CodesAreRead ==
  ASSUME NEW units \in Seq(Units)
  PROVE  Utf16Characters(units) \in Seq(Codes)
  <1> DEFINE T == {s \in Seq(Units) : Utf16Characters(s) \in Seq(Codes)}
  <1>1. <<>> \in T
    <2>1. <<>> \in Seq(Units) /\ <<>> \in Seq(Codes)
      OBVIOUS
    <2> QED BY <2>1, CharactersSteps, Zenon
  <1>2. ASSUME NEW s \in Seq(Units), s \in T, NEW u \in Units PROVE Append(s, u) \in T
    <2>1. Utf16Characters(Append(s, u)) = AddUnit(Utf16Characters(s), u)
      BY CharactersSteps, Zenon
    <2>2. AddUnit(Utf16Characters(s), u) \in Seq(Codes)
      BY <1>2, AddUnitCodes, Zenon
    <2>3. Append(s, u) \in Seq(Units)
      OBVIOUS
    <2> QED BY <2>1, <2>2, <2>3, Zenon
  <1>3. Seq(Units) \subseteq T
    <2> HIDE DEF T
    <2> QED BY <1>1, <1>2, RowInduction, Zenon
  <1> QED BY <1>3, Zenon

\* Six bits and the mark that they go on are an octet.
LEMMA TailIsOctet ==
  ASSUME NEW c \in Nat
  PROVE  \A n \in {0, 1, 2} : Tail6(c, n) \in 0 .. 255
  BY SMT DEF Tail6

\* A number is written as octets.
LEMMA Utf8IsOctets ==
  ASSUME NEW c \in Codes
  PROVE  Utf8(c) \in Octets
  <1>1. c \in Nat /\ c < 1114112 /\ \A n \in {0, 1, 2} : Tail6(c, n) \in 0 .. 255
    BY SMT, TailIsOctet DEF Codes
  <1>2. WCHAR_MAX \in Nat /\ \A n \in Nat : n < 2048 => n <= WCHAR_MAX
    BY SMT DEF WCHAR_MAX
  <1>3. /\ High(c) => c > 2047 /\ c <= WCHAR_MAX
        /\ Low(c) => c > 2047 /\ c <= WCHAR_MAX
    <2>1. ASSUME High(c) PROVE c > 2047 /\ c <= WCHAR_MAX
      <3>1. c >= 55296 /\ c <= 56319
        BY SMT, <1>1, <2>1 DEF High
      <3> QED BY SMT, <1>1, <3>1 DEF WCHAR_MAX
    <2>2. ASSUME Low(c) PROVE c > 2047 /\ c <= WCHAR_MAX
      <3>1. c >= 56320 /\ c <= 57343
        BY SMT, <1>1, <2>2 DEF Low
      <3> QED BY SMT, <1>1, <3>1 DEF WCHAR_MAX
    <2> QED BY <2>1, <2>2
  <1>4. CASE c < 128
    <2>1. Utf8(c) = <<c>>
      BY SMT, <1>1, <1>2, <1>3, <1>4 DEF Utf8
    <2> QED BY SMT, <1>1, <1>4, <2>1 DEF Octets
  <1>5. CASE c > 127 /\ c < 2048
    <2>1. Utf8(c) = <<192 + c \div 64, Tail6(c, 0)>>
      BY SMT, <1>1, <1>2, <1>3, <1>5 DEF Utf8
    <2>2. 192 + c \div 64 \in 0 .. 255
      BY SMT, <1>1, <1>5
    <2> QED BY SMT, <1>1, <2>1, <2>2 DEF Octets
  <1>6. CASE c > 2047 /\ c <= WCHAR_MAX /\ (High(c) \/ Low(c))
    <2>1. Utf8(c) = <<239, 191, 189>>
      BY SMT, <1>1, <1>2, <1>6 DEF Utf8
    <2> QED BY SMT, <2>1 DEF Octets
  <1>7. CASE c > 2047 /\ c <= WCHAR_MAX /\ ~High(c) /\ ~Low(c)
    <2>1. Utf8(c) = <<224 + c \div 4096, Tail6(c, 1), Tail6(c, 0)>>
      BY SMT, <1>1, <1>2, <1>7 DEF Utf8
    <2>2. 224 + c \div 4096 \in 0 .. 255
      BY SMT, <1>1, <1>7 DEF WCHAR_MAX
    <2> QED BY SMT, <1>1, <2>1, <2>2 DEF Octets
  <1>8. CASE c > WCHAR_MAX
    <2>1. Utf8(c) = <<240 + c \div 262144, Tail6(c, 2), Tail6(c, 1), Tail6(c, 0)>>
      BY SMT, <1>1, <1>2, <1>3, <1>8 DEF Utf8
    <2>2. 240 + c \div 262144 \in 0 .. 255
      BY SMT, <1>1
    <2> QED BY SMT, <1>1, <2>1, <2>2 DEF Octets
  <1>9. \/ c < 128
        \/ (c > 127 /\ c < 2048)
        \/ (c > 2047 /\ c <= WCHAR_MAX /\ (High(c) \/ Low(c)))
        \/ (c > 2047 /\ c <= WCHAR_MAX /\ ~High(c) /\ ~Low(c))
        \/ c > WCHAR_MAX
    <2>1. c \in Nat /\ WCHAR_MAX \in Nat
      BY SMT, <1>1, <1>2
    <2> QED BY SMT, <2>1
  <1> QED BY SMT, <1>4, <1>5, <1>6, <1>7, <1>8, <1>9

\* So is all of a path.
LEMMA WrittenIsOctets ==
  ASSUME NEW w \in Seq(Units)
  PROVE  convertWstringToUtf8(w) \in Octets
  <1>b. PICK B : Octets = Seq(B)
    BY DEF Octets
  <1>h. PICK h : h = [c \in Codes |-> Utf8(c)]
    OBVIOUS
  <1>1. h \in [Codes -> Seq(B)]
    BY <1>b, <1>h, Utf8IsOctets
  <1>c. PICK chars : chars = Utf16Characters(w)
    OBVIOUS
  <1>2. chars \in Seq(Codes)
    BY <1>c, CodesAreRead, Zenon
  <1>3. [i \in DOMAIN chars |-> Utf8(chars[i])] = [i \in DOMAIN chars |-> h[chars[i]]]
    <2>1. \A i \in DOMAIN chars : chars[i] \in Codes
      BY <1>2
    <2> QED BY <1>h, <2>1
  <1>4. convertWstringToUtf8(w) = Spelled(h, chars)
    BY <1>c, <1>3, Zenon DEF convertWstringToUtf8, Spelled
  <1>5. Spelled(h, chars) \in Seq(B)
    BY <1>1, <1>2, SpelledSteps, Zenon
  <1> QED BY <1>b, <1>4, <1>5, Zenon

-----------------------------------------------------------------------------
(* A path shown and read back                                               *)

\* A character is written as octets.
LEMMA Utf8OfType == \E B : Octets = Seq(B) /\ Utf8Of \in [Scalars -> Seq(B)]
  <1>b. PICK B : Octets = Seq(B)
    BY DEF Octets
  <1>1. ASSUME NEW c \in Scalars PROVE Utf8(c) \in Seq(B)
    <2>1. c \in Codes
      BY DEF Scalars, Codes
    <2> QED BY <1>b, <2>1, Utf8IsOctets, Zenon
  <1> QED BY <1>b, <1>1 DEF Utf8Of

\* A backslash is a backslash in both.
LEMMA DelimWritten ==
  Delim \in Scalars /\ Utf16Of[Delim] = <<Delim>> /\ Utf8Of[Delim] = <<Delim>>
  <1>1. Delim \in Nat \ {0} /\ Delim < 128 /\ Delim < 65536 /\ ~High(Delim) /\ ~Low(Delim)
    BY SMT DEF Delim, High, Low
  <1>2. Delim \in Scalars
    BY SMT, <1>1 DEF Scalars
  <1>3. Utf16Of[Delim] = <<Delim>>
    BY <1>1, <1>2, ShortUtf16
  <1>4. Utf8Of[Delim] = <<Delim>>
    <2>1. Utf8(Delim) = <<Delim>>
      <3>1. WCHAR_MAX \in Nat /\ \A n \in Nat : n < 2048 => n <= WCHAR_MAX
        BY SMT DEF WCHAR_MAX
      <3> QED BY SMT, <1>1, <3>1 DEF Utf8
    <2> QED BY <1>2, <2>1 DEF Utf8Of
  <1> QED BY <1>2, <1>3, <1>4

\* n backslashes.
Delims(n) == [j \in 1 .. n |-> Delim]

\* They are spelled as they are.
LEMMA DelimsSpelled ==
  ASSUME NEW B, NEW h \in [Scalars -> Seq(B)], h[Delim] = <<Delim>>, NEW n \in Nat
  PROVE  Delims(n) \in Seq(Scalars) /\ Spelled(h, Delims(n)) = Delims(n)
  <1>1. Delims(n) \in Seq({Delim}) /\ {Delim} \in SUBSET Scalars
    <2>1. Delim \in Scalars
      BY DelimWritten
    <2> QED BY <2>1 DEF Delims
  <1>2. \A x \in {Delim} : h[x] = <<x>>
    OBVIOUS
  <1>3. Spelled(h, Delims(n)) = Delims(n)
    BY <1>1, <1>2, SpelledSame
  <1>4. Delims(n) \in Seq(Scalars)
    BY <1>1
  <1> QED BY <1>3, <1>4

\* A path as FlattenSeq joins it.
LEMMA JoinedPathIs ==
  ASSUME NEW names, NEW gap, NEW trail
  PROVE  JoinedPath(names, gap, trail)
           = FlattenSeq([i \in DOMAIN names |-> Delims(gap) \o names[i]]) \o Delims(trail)
  BY Zenon DEF JoinedPath, Delims

\* A path is spelled as its names are.
LEMMA SpelledPath ==
  ASSUME NEW B, NEW h \in [Scalars -> Seq(B)], h[Delim] = <<Delim>>,
         NEW names \in Seq(Seq(Scalars)), NEW gap \in Nat, NEW trail \in Nat
  PROVE  /\ JoinedPath(names, gap, trail) \in Seq(Scalars)
         /\ Spelled(h, JoinedPath(names, gap, trail))
              = JoinedPath([i \in DOMAIN names |-> Spelled(h, names[i])], gap, trail)
  <1>g. PICK g : g = Delims(gap)
    OBVIOUS
  <1>t. PICK t : t = Delims(trail)
    OBVIOUS
  <1>1. g \in Seq(Scalars) /\ Spelled(h, g) = g /\ t \in Seq(Scalars) /\ Spelled(h, t) = t
    BY <1>g, <1>t, DelimsSpelled
  <1>r. PICK rows : rows = [i \in DOMAIN names |-> g \o names[i]]
    OBVIOUS
  <1>2. rows \in Seq(Seq(Scalars)) /\ DOMAIN rows = DOMAIN names
    <2>1. \A i \in DOMAIN names : g \o names[i] \in Seq(Scalars)
      BY <1>1
    <2>n. PICK n \in Nat : DOMAIN names = 1 .. n
      OBVIOUS
    <2>2. rows = [i \in 1 .. n |-> g \o names[i]] /\ \A i \in 1 .. n : g \o names[i] \in Seq(Scalars)
      BY <1>r, <2>n, <2>1, Zenon
    <2>3. rows \in Seq(Seq(Scalars))
      BY <2>2
    <2>4. DOMAIN rows = DOMAIN names
      BY <1>r, Zenon
    <2> QED BY <2>3, <2>4
  <1>h. SpellsParts(h, Scalars)
    BY SpelledConcat
  <1>k. SpellsRows(h, Scalars)
    BY SpelledFlat
  <1>f. PICK f : f = FlattenSeq(rows)
    OBVIOUS
  <1>3. f \in Seq(Scalars) /\ Spelled(h, f) = FlattenSeq([i \in DOMAIN rows |-> Spelled(h, rows[i])])
    <2>1. f \in Seq(Scalars)
      BY <1>2, <1>f, FlattenPlaces, Zenon
    <2>2. Spelled(h, f) = FlattenSeq([i \in DOMAIN rows |-> Spelled(h, rows[i])])
      BY <1>2, <1>f, <1>k, Zenon DEF SpellsRows
    <2> QED BY <2>1, <2>2
  <1>4. ASSUME NEW i \in DOMAIN names PROVE Spelled(h, rows[i]) = g \o Spelled(h, names[i])
    <2>1. names[i] \in Seq(Scalars) /\ rows[i] = g \o names[i]
      BY <1>r
    <2>2. Spelled(h, g \o names[i]) = Spelled(h, g) \o Spelled(h, names[i])
      BY <1>h, <1>1, <2>1, Zenon DEF SpellsParts
    <2> QED BY <1>1, <2>1, <2>2, Zenon
  <1>s. PICK spelled : spelled = [i \in DOMAIN names |-> Spelled(h, names[i])]
    OBVIOUS
  <1>5. [i \in DOMAIN rows |-> Spelled(h, rows[i])] = [i \in DOMAIN spelled |-> g \o spelled[i]]
    BY <1>2, <1>4, <1>s
  <1>6. Spelled(h, f \o t) = Spelled(h, f) \o t
    <2>1. Spelled(h, f \o t) = Spelled(h, f) \o Spelled(h, t)
      BY <1>h, <1>1, <1>3, Zenon DEF SpellsParts
    <2> QED BY <1>1, <2>1, Zenon
  <1>7. JoinedPath(names, gap, trail) = f \o t
    BY <1>g, <1>t, <1>r, <1>f, JoinedPathIs, Zenon
  <1>8. JoinedPath(spelled, gap, trail) = FlattenSeq([i \in DOMAIN spelled |-> g \o spelled[i]]) \o t
    BY <1>g, <1>t, JoinedPathIs, Zenon
  <1>9. f \o t \in Seq(Scalars)
    BY <1>1, <1>3
  <1>10. Spelled(h, f \o t) = JoinedPath(spelled, gap, trail)
    BY <1>3, <1>5, <1>6, <1>8, Zenon
  <1> QED BY <1>7, <1>9, <1>10, <1>s, Zenon

\* The characters of a name are written as the name is, and converted to units.
LEMMA NameConverted ==
  ASSUME NEW name, IsUtf8(name)
  PROVE  /\ Utf8Characters(name) \in Seq(Scalars)
         /\ Spelled(Utf8Of, Utf8Characters(name)) = name
         /\ Spelled(Utf16Of, Utf8Characters(name)) = convertUtf8ToWstring(name)
         /\ convertUtf8ToWstring(name) \in Seq(Units)
  <1>c. PICK chars : chars = Utf8Characters(name)
    OBVIOUS
  <1>1. /\ chars \in Seq(Scalars)
        /\ name = FlattenSeq([i \in DOMAIN chars |-> Utf8(chars[i])])
    BY <1>c, Zenon DEF IsUtf8
  <1>2. \A i \in DOMAIN chars : chars[i] \in Scalars
    BY <1>1
  <1>3. /\ [i \in DOMAIN chars |-> Utf8(chars[i])] = [i \in DOMAIN chars |-> Utf8Of[chars[i]]]
        /\ [i \in DOMAIN chars |-> Utf16(chars[i])] = [i \in DOMAIN chars |-> Utf16Of[chars[i]]]
    BY <1>2 DEF Utf8Of, Utf16Of
  <1>4. Spelled(Utf8Of, chars) = name
    BY <1>1, <1>3, Zenon DEF Spelled
  <1>5. convertUtf8ToWstring(name) = Spelled(Utf16Of, chars)
    BY <1>c, <1>3, Zenon DEF Spelled, convertUtf8ToWstring
  <1>6. Spelled(Utf16Of, chars) \in Seq(Units)
    BY <1>1, Utf16OfType, SpelledSteps, Zenon
  <1> QED BY <1>c, <1>1, <1>4, <1>5, <1>6, Zenon

\* A name that is copied is its first units, and fits its array.
LEMMA NameCopied ==
  ASSUME NEW name, IsUtf8(name), NEW copied, copied = copyUtf8StringToWcharArr(name, NameSize)
  PROVE  /\ copied \in Seq(Units) /\ Len(copied) < NameSize
         /\ Nameable(name) => copied = convertUtf8ToWstring(name)
  <1>w. PICK wname : wname = convertUtf8ToWstring(name)
    OBVIOUS
  <1>1. wname \in Seq(Units) /\ NameSize \in Nat /\ NameSize > 0
    BY <1>w, NameConverted, NameAssumption
  <1>2. copied = IF Len(wname) <= NameSize - 1 THEN wname ELSE SubSeq(wname, 1, NameSize - 1)
    BY <1>w, Zenon DEF copyUtf8StringToWcharArr
  <1>3. CASE Len(wname) <= NameSize - 1
    BY <1>1, <1>2, <1>3, <1>w
  <1>4. CASE ~(Len(wname) <= NameSize - 1)
    <2>n. PICK n : n = NameSize - 1
      OBVIOUS
    <2>1. n \in Nat /\ n < Len(wname) /\ n < NameSize /\ copied = SubSeq(wname, 1, n)
      BY <1>1, <1>2, <1>4, <2>n
    <2>2. copied \in Seq(Units) /\ Len(copied) = n
      BY <1>1, <2>1, CutLength
    <2>3. ~Nameable(name)
      <3>1. Len(wname) \in Nat /\ ~(Len(wname) < NameSize)
        BY <1>1, <1>4
      <3> QED BY <1>w, <3>1, Zenon DEF Nameable
    <2> QED BY <2>1, <2>2, <2>3
  <1> QED BY <1>3, <1>4

\* If a listing shows the name in full, it shows its characters.
LEMMA NameShown ==
  ASSUME NEW name, IsUtf8(name), Nameable(name)
  PROVE  /\ Utf8Characters(name) \in Seq(Scalars)
         /\ Spelled(Utf8Of, Utf8Characters(name)) = name
         /\ Spelled(Utf16Of, Utf8Characters(name)) = copyUtf8StringToWcharArr(name, NameSize)
  <1>c. PICK copied : copied = copyUtf8StringToWcharArr(name, NameSize)
    OBVIOUS
  <1>1. copied = convertUtf8ToWstring(name)
    BY <1>c, NameCopied, Zenon
  <1> QED BY <1>c, <1>1, NameConverted, Zenon

\* A path of names shown in full is read as the path of the names.
LEMMA PathRead ==
  ASSUME NEW names, NEW n \in Nat, DOMAIN names = 1 .. n, names = [i \in DOMAIN names |-> names[i]],
         \A i \in DOMAIN names : IsUtf8(names[i]) /\ Nameable(names[i]),
         NEW gap \in Nat, NEW trail \in Nat
  PROVE  convertWstringToUtf8(JoinedPath(Shown(names), gap, trail)) = JoinedPath(names, gap, trail)
  <1>c. PICK chars : chars = [i \in DOMAIN names |-> Utf8Characters(names[i])]
    OBVIOUS
  <1>1. \A i \in DOMAIN names :
          /\ chars[i] = Utf8Characters(names[i])
          /\ chars[i] \in Seq(Scalars)
          /\ Spelled(Utf8Of, chars[i]) = names[i]
          /\ Spelled(Utf16Of, chars[i]) = copyUtf8StringToWcharArr(names[i], NameSize)
    BY <1>c, NameShown, Zenon
  <1>2. chars \in Seq(Seq(Scalars)) /\ DOMAIN chars = DOMAIN names
    <2>1. chars = [i \in 1 .. n |-> chars[i]] /\ \A i \in 1 .. n : chars[i] \in Seq(Scalars)
      BY <1>c, <1>1, Zenon
    <2>2. chars \in Seq(Seq(Scalars))
      BY <2>1
    <2> QED BY <1>c, <2>2, Zenon
  <1>3. [i \in DOMAIN chars |-> Spelled(Utf16Of, chars[i])] = Shown(names)
    BY <1>1, <1>2, Zenon DEF Shown
  <1>4. [i \in DOMAIN chars |-> Spelled(Utf8Of, chars[i])] = names
    <2>1. [i \in DOMAIN chars |-> Spelled(Utf8Of, chars[i])] = [i \in DOMAIN names |-> names[i]]
      BY <1>1, <1>2, Zenon
    <2> QED BY <2>1, Zenon
  <1>p. PICK p : p = JoinedPath(chars, gap, trail)
    OBVIOUS
  <1>5. p \in Seq(Scalars) /\ Spelled(Utf16Of, p) = JoinedPath(Shown(names), gap, trail)
    <2>1. p \in Seq(Scalars)
      BY <1>2, <1>p, SpelledPath, DelimWritten, Utf16OfType, Zenon
    <2>2. Spelled(Utf16Of, p) = JoinedPath(Shown(names), gap, trail)
      <3>1. Spelled(Utf16Of, JoinedPath(chars, gap, trail))
              = JoinedPath([i \in DOMAIN chars |-> Spelled(Utf16Of, chars[i])], gap, trail)
        BY <1>2, SpelledPath, DelimWritten, Utf16OfType, Zenon
      <3> QED BY <1>3, <1>p, <3>1, Zenon
    <2> QED BY <2>1, <2>2, Zenon
  <1>6. Spelled(Utf8Of, p) = JoinedPath(names, gap, trail)
    <2>b. PICK B : Utf8Of \in [Scalars -> Seq(B)]
      BY Utf8OfType, Zenon
    <2> QED BY <1>2, <1>4, <1>p, <2>b, SpelledPath, DelimWritten, Zenon
  <1>w. PICK w : w = Spelled(Utf16Of, p)
    OBVIOUS
  <1>7. Utf16Characters(w) = p
    BY <1>5, <1>w, CharactersReadBack, Zenon
  <1>8. convertWstringToUtf8(w) = FlattenSeq([i \in DOMAIN p |-> Utf8(p[i])])
    BY <1>7, Zenon DEF convertWstringToUtf8
  <1>9. [i \in DOMAIN p |-> Utf8(p[i])] = [i \in DOMAIN p |-> Utf8Of[p[i]]]
    <2>1. \A i \in DOMAIN p : p[i] \in Scalars
      BY <1>5
    <2> QED BY <2>1 DEF Utf8Of
  <1>10. convertWstringToUtf8(w) = Spelled(Utf8Of, p)
    BY <1>8, <1>9, Zenon DEF Spelled
  <1> QED BY <1>5, <1>6, <1>w, <1>10, Zenon

-----------------------------------------------------------------------------
(* The split of a path of names                                             *)

\* Where the backslashes and the names of a path are.
Shaped(p, names, gap, trail, pos) ==
    /\ pos \in [0 .. Len(names) -> Nat] /\ pos[0] = 0
    /\ \A k \in 1 .. Len(names) :
          /\ pos[k] = pos[k - 1] + gap + Len(names[k])
          /\ StandsAt(p, pos[k - 1], Delims(gap))
          /\ StandsAt(p, pos[k - 1] + gap, names[k])
    /\ Len(p) = pos[Len(names)] + trail
    /\ StandsAt(p, pos[Len(names)], Delims(trail))

\* Where two joined rows stand, each does.
LEMMA BothStand ==
  ASSUME NEW S, NEW a \in Seq(S), NEW b \in Seq(S), NEW u, u = a \o b,
         NEW t \in Seq(S), NEW p \in Nat, StandsAt(t, p, u)
  PROVE  StandsAt(t, p, a) /\ StandsAt(t, p + Len(a), b) /\ Len(u) = Len(a) + Len(b)
  <1>m. PICK m : m = Len(a)
    OBVIOUS
  <1>n. PICK n : n = Len(b)
    OBVIOUS
  <1>1. /\ Len(u) = m + n /\ m \in Nat /\ n \in Nat /\ Len(t) \in Nat
        /\ \A j \in 1 .. m : u[j] = a[j]
        /\ \A j \in 1 .. n : u[m + j] = b[j]
    BY <1>m, <1>n, ConcatPlaces
  <1>2. p + (m + n) <= Len(t) /\ \A j \in 1 .. m + n : t[p + j] = u[j]
    BY <1>1, Zenon DEF StandsAt
  <1>3. p + m <= Len(t) /\ (p + m) + n <= Len(t)
    BY <1>1, <1>2
  <1>4. ASSUME NEW j \in 1 .. m PROVE t[p + j] = a[j]
    <2>1. j \in 1 .. m + n
      BY <1>1
    <2> QED BY <1>1, <1>2, <2>1, Zenon
  <1>5. ASSUME NEW j \in 1 .. n PROVE t[(p + m) + j] = b[j]
    <2>1. m + j \in 1 .. m + n /\ p + (m + j) = (p + m) + j
      BY <1>1
    <2>2. t[p + (m + j)] = u[m + j]
      BY <1>2, <2>1, Zenon
    <2> QED BY <1>1, <2>1, <2>2, Zenon
  <1> QED BY <1>m, <1>n, <1>1, <1>3, <1>4, <1>5, Zenon DEF StandsAt

\* What stands in a row stands in it still when another is joined to its end.
LEMMA StandsInFront ==
  ASSUME NEW S, NEW a \in Seq(S), NEW b \in Seq(S), NEW u, u = a \o b,
         NEW s \in Seq(S), NEW p \in Nat, StandsAt(a, p, s)
  PROVE  StandsAt(u, p, s)
  <1>m. PICK m : m = Len(a)
    OBVIOUS
  <1>n. PICK n : n = Len(s)
    OBVIOUS
  <1>1. /\ Len(u) >= m /\ m \in Nat /\ n \in Nat /\ Len(u) \in Nat
        /\ \A j \in 1 .. m : u[j] = a[j]
    <2>1. /\ u \in Seq(S) /\ Len(u) = m + Len(b) /\ Len(b) \in Nat /\ m \in Nat
          /\ \A j \in 1 .. m : u[j] = a[j]
      BY <1>m, ConcatPlaces
    <2> QED BY <1>n, <2>1
  <1>2. p + n <= m /\ \A j \in 1 .. n : a[p + j] = s[j]
    BY <1>m, <1>n, Zenon DEF StandsAt
  <1>3. p + n <= Len(u)
    BY <1>1, <1>2
  <1>4. ASSUME NEW j \in 1 .. n PROVE u[p + j] = s[j]
    <2>1. p + j \in 1 .. m
      BY <1>1, <1>2
    <2> QED BY <1>1, <1>2, <2>1, Zenon
  <1> QED BY <1>n, <1>3, <1>4, Zenon DEF StandsAt

\* What is joined to the end stands there.
LEMMA StandsBehind ==
  ASSUME NEW S, NEW a \in Seq(S), NEW b \in Seq(S), NEW u, u = a \o b
  PROVE  StandsAt(u, Len(a), b) /\ Len(u) = Len(a) + Len(b)
  <1>1. /\ Len(u) = Len(a) + Len(b) /\ Len(a) \in Nat /\ Len(b) \in Nat
        /\ \A j \in 1 .. Len(b) : u[Len(a) + j] = b[j]
    BY ConcatPlaces
  <1>2. Len(a) + Len(b) <= Len(u)
    BY <1>1
  <1> QED BY <1>1, <1>2, Zenon DEF StandsAt

\* n backslashes are as long as that.
LEMMA DelimsAre ==
  ASSUME NEW S, Delim \in S, NEW n \in Nat
  PROVE  /\ Delims(n) \in Seq(S) /\ Len(Delims(n)) = n
         /\ \A j \in 1 .. n : Delims(n)[j] = Delim
  BY DEF Delims

\* Three lengths, one behind the other.
LEMMA AddAgain ==
  ASSUME NEW a \in Nat, NEW b \in Nat, NEW c \in Nat
  PROVE  a + (b + c) = a + b + c
  OBVIOUS

\* The path of names has that shape.
LEMMA PathShaped ==
  ASSUME NEW S, Delim \in S, NEW names \in Seq(Seq(S)), NEW gap \in Nat, NEW trail \in Nat
  PROVE  /\ JoinedPath(names, gap, trail) \in Seq(S)
         /\ \E pos : Shaped(JoinedPath(names, gap, trail), names, gap, trail, pos)
  <1>g. PICK g : g = Delims(gap)
    OBVIOUS
  <1>d. PICK d : d = Delims(trail)
    OBVIOUS
  <1>n. PICK n : n = Len(names)
    OBVIOUS
  <1>1. /\ g \in Seq(S) /\ Len(g) = gap /\ d \in Seq(S) /\ Len(d) = trail
        /\ n \in Nat /\ DOMAIN names = 1 .. n /\ \A i \in 1 .. n : names[i] \in Seq(S)
    BY <1>g, <1>d, <1>n, DelimsAre
  <1>r. PICK rows : rows = [i \in DOMAIN names |-> g \o names[i]]
    OBVIOUS
  <1>2. /\ rows \in Seq(Seq(S)) /\ Len(rows) = n
        /\ \A i \in 1 .. n : rows[i] = g \o names[i] /\ rows[i] \in Seq(S)
    <2>1. \A i \in 1 .. n : g \o names[i] \in Seq(S)
      BY <1>1
    <2> QED BY <1>1, <1>r, <2>1
  <1>f. PICK f : f = FlattenSeq(rows)
    OBVIOUS
  <1>p. PICK p : p = f \o d
    OBVIOUS
  <1>3. p = JoinedPath(names, gap, trail)
    BY <1>g, <1>d, <1>r, <1>f, <1>p, JoinedPathIs, Zenon
  <1>pos. PICK pos : JoinedAt(f, rows, pos)
    BY <1>2, <1>f, FlattenPlaces, Zenon
  <1>4. f \in Seq(S)
    BY <1>2, <1>f, FlattenPlaces, Zenon
  <1>5. /\ pos \in [0 .. n -> Nat] /\ pos[0] = 0 /\ pos[n] = Len(f)
        /\ \A k \in 1 .. n : pos[k] = pos[k - 1] + Len(rows[k]) /\ StandsAt(f, pos[k - 1], rows[k])
    BY <1>2, <1>pos, Zenon DEF JoinedAt
  <1>6. ASSUME NEW k \in 1 .. n
        PROVE  /\ pos[k] = pos[k - 1] + gap + Len(names[k])
               /\ StandsAt(p, pos[k - 1], g) /\ StandsAt(p, pos[k - 1] + gap, names[k])
    <2>at. PICK at : at = pos[k - 1]
      OBVIOUS
    <2>1. at \in Nat /\ names[k] \in Seq(S) /\ rows[k] = g \o names[k] /\ rows[k] \in Seq(S)
      <3>1. k - 1 \in 0 .. n
        BY <1>1
      <3>2. pos[k - 1] \in Nat
        BY <1>5, <3>1
      <3> QED BY <1>1, <1>2, <2>at, <3>2
    <2>2. StandsAt(f, at, rows[k]) /\ pos[k] = at + Len(rows[k])
      BY <1>5, <2>at
    <2>3. StandsAt(p, at, rows[k])
      BY <1>1, <1>4, <1>p, <2>1, <2>2, StandsInFront, Zenon
    <2>4. p \in Seq(S)
      BY <1>1, <1>4, <1>p
    <2>5. /\ StandsAt(p, at, g) /\ StandsAt(p, at + Len(g), names[k])
          /\ Len(rows[k]) = Len(g) + Len(names[k])
      BY <1>1, <2>1, <2>3, <2>4, BothStand, Zenon
    <2>6. at + (gap + Len(names[k])) = at + gap + Len(names[k])
      <3>1. at \in Nat /\ Len(names[k]) \in Nat
        BY <2>1
      <3> QED BY <3>1, AddAgain, Zenon
    <2> QED BY <1>1, <2>at, <2>2, <2>5, <2>6, Zenon
  <1>7. Len(p) = pos[n] + trail /\ StandsAt(p, pos[n], d)
    <2>1. StandsAt(p, Len(f), d) /\ Len(p) = Len(f) + Len(d)
      BY <1>1, <1>4, <1>p, StandsBehind
    <2> QED BY <1>1, <1>5, <2>1, Zenon
  <1>8. Shaped(p, names, gap, trail, pos)
    BY <1>g, <1>d, <1>n, <1>5, <1>6, <1>7, Zenon DEF Shaped
  <1>9. p \in Seq(S)
    BY <1>1, <1>4, <1>p
  <1> QED BY <1>3, <1>8, <1>9, Zenon

\* Names without a backslash, none of them empty.
Whole(names) ==
    /\ names \in Seq(Octets)
    /\ \A i \in DOMAIN names :
         names[i] # <<>> /\ \A j \in DOMAIN names[i] : names[i][j] # Delim

\* How many backslashes stand behind the first k names.
Width(names, gap, trail, k) == IF k < Len(names) THEN gap ELSE trail

\* At s is the name behind the first k, and behind it the end or a backslash.
NameIsAt(p, names, gap, trail, pos, k, s) ==
    /\ k + 1 \in 1 .. Len(names)
    /\ s + Len(names[k + 1]) = pos[k + 1] + 1 /\ Len(names[k + 1]) \in Nat \ {0}
    /\ pos[k + 1] \in Nat /\ pos[k + 1] <= Len(p)
    /\ \A j \in 1 .. Len(names[k + 1]) :
         p[s - 1 + j] = names[k + 1][j] /\ p[s - 1 + j] # Delim
    /\ \/ pos[k + 1] = Len(p) /\ k + 1 = Len(names)
       \/ /\ pos[k + 1] + 1 <= Len(p) /\ p[pos[k + 1] + 1] = Delim
          /\ Width(names, gap, trail, k + 1) >= 1

\* Behind the first k names, up to place at, are that many.
DelimsAreAt(p, at, width) ==
    \A j \in 1 .. width : at + j <= Len(p) /\ p[at + j] = Delim

\* There is at least one but, perhaps, at the end.
LEMMA WidthIs ==
  ASSUME NEW names, NEW gap \in Nat \ {0}, NEW trail \in Nat, Len(names) \in Nat,
         NEW k \in 0 .. Len(names)
  PROVE  /\ Width(names, gap, trail, k) \in Nat
         /\ Width(names, gap, trail, k) = 0 => k = Len(names) /\ trail = 0
  <1>1. Width(names, gap, trail, k) = IF k < Len(names) THEN gap ELSE trail
    BY DEF Width
  <1> QED BY <1>1

\* They are where the shape has them.
LEMMA DelimIsAt ==
  ASSUME NEW names \in Seq(Octets), NEW gap \in Nat, NEW trail \in Nat, NEW p \in Octets,
         NEW pos, Shaped(p, names, gap, trail, pos), NEW k \in 0 .. Len(names)
  PROVE  DelimsAreAt(p, pos[k], Width(names, gap, trail, k))
  <1>n. PICK n : n = Len(names)
    OBVIOUS
  <1>w. PICK w : w = Width(names, gap, trail, k)
    OBVIOUS
  <1>at. PICK at : at = pos[k]
    OBVIOUS
  <1>1. n \in Nat /\ k \in 0 .. n /\ w \in Nat /\ Len(p) \in Nat
    BY <1>n, <1>w DEF Width, Octets
  <1>2. at \in Nat
    <2>1. pos \in [0 .. n -> Nat]
      BY <1>n, Zenon DEF Shaped
    <2> QED BY <1>1, <1>at, <2>1
  <1>3. StandsAt(p, at, Delims(w))
    <2>1. CASE k < n
      <3>1. k + 1 \in 1 .. n /\ (k + 1) - 1 = k
        BY <1>1, <2>1
      <3>2. w = gap
        BY <1>n, <1>w, <2>1 DEF Width
      <3>3. StandsAt(p, pos[(k + 1) - 1], Delims(gap))
        BY <1>n, <3>1, Zenon DEF Shaped
      <3> QED BY <1>at, <3>1, <3>2, <3>3, Zenon
    <2>2. CASE ~(k < n)
      <3>1. k = n
        BY <1>1, <2>2
      <3>2. w = trail
        BY <1>n, <1>w, <2>2 DEF Width
      <3>3. StandsAt(p, pos[n], Delims(trail))
        BY <1>n, Zenon DEF Shaped
      <3> QED BY <1>at, <3>1, <3>2, <3>3, Zenon
    <2> QED BY <2>1, <2>2
  <1>4. Len(Delims(w)) = w /\ \A j \in 1 .. w : Delims(w)[j] = Delim
    <2>1. Delim \in {Delim}
      OBVIOUS
    <2> QED BY <1>1, <2>1, DelimsAre
  <1>5. at + w <= Len(p) /\ \A j \in 1 .. w : p[at + j] = Delim
    BY <1>1, <1>3, <1>4, Zenon DEF StandsAt
  <1>6. \A j \in 1 .. w : at + j <= Len(p)
    BY <1>1, <1>2, <1>5
  <1> QED BY <1>at, <1>w, <1>5, <1>6, Zenon DEF DelimsAreAt

\* What is at a place up to the name behind the first k, or the end: a
\* backslash, the end, or the name.
LEMMA ShapeAt ==
  ASSUME NEW names, Whole(names), NEW gap \in Nat \ {0}, NEW trail \in Nat, NEW p \in Octets,
         NEW pos, Shaped(p, names, gap, trail, pos), NEW k \in 0 .. Len(names),
         NEW s \in Int, s >= pos[k] + 1, s <= pos[k] + Width(names, gap, trail, k) + 1
  PROVE  /\ pos[k] \in Nat
         /\ \/ s <= pos[k] + Width(names, gap, trail, k) /\ s <= Len(p) /\ p[s] = Delim
            \/ k = Len(names) /\ s = Len(p) + 1
            \/ NameIsAt(p, names, gap, trail, pos, k, s)
  <1>n. PICK n : n = Len(names)
    OBVIOUS
  <1>w. PICK w : w = Width(names, gap, trail, k)
    OBVIOUS
  <1>at. PICK at : at = pos[k]
    OBVIOUS
  <1>l. PICK l : l = Len(p)
    OBVIOUS
  <1>1. /\ names \in Seq(Octets) /\ n \in Nat /\ k \in 0 .. n /\ w \in Nat /\ l \in Nat
        /\ gap \in Nat /\ DOMAIN names = 1 .. n
    BY <1>n, <1>w, <1>l DEF Width, Octets, Whole
  <1>p. pos \in [0 .. n -> Nat] /\ \A i \in 0 .. n : pos[i] \in Nat
    <2>1. pos \in [0 .. n -> Nat]
      BY <1>n, Zenon DEF Shaped
    <2> QED BY <2>1
  <1>2. at \in Nat /\ s >= at + 1 /\ s <= at + w + 1
    BY <1>1, <1>p, <1>at, <1>w
  <1>3. CASE s <= at + w
    <2>j. PICK j : j = s - at
      OBVIOUS
    <2>1. j \in 1 .. w /\ at + j = s
      BY <1>1, <1>2, <1>3, <2>j
    <2>d. DelimsAreAt(p, at, w)
      BY <1>1, <1>w, <1>at, DelimIsAt, Zenon
    <2>2. at + j <= Len(p) /\ p[at + j] = Delim
      BY <2>d, <2>1, Zenon DEF DelimsAreAt
    <2>3. s <= Len(p) /\ p[s] = Delim
      BY <2>1, <2>2, Zenon
    <2> QED BY <1>3, <1>at, <1>w, <1>2, <2>3, Zenon
  <1>4. CASE ~(s <= at + w)
    <2>1. s = at + w + 1
      BY <1>1, <1>2, <1>4
    <2>2. CASE k = n
      <3>1. w = trail
        BY <1>1, <1>n, <1>w, <2>2 DEF Width
      <3>2. l = pos[n] + trail
        BY <1>n, <1>l, Zenon DEF Shaped
      <3>3. s = l + 1
        BY <1>at, <2>1, <2>2, <3>1, <3>2, Zenon
      <3> QED BY <1>n, <1>l, <1>at, <1>2, <2>2, <3>3, Zenon
    <2>3. CASE k # n
      <3>i. PICK i : i = k + 1
        OBVIOUS
      <3>1. i \in 1 .. n /\ i \in 0 .. n /\ i - 1 = k /\ k < n
        BY <1>1, <2>3, <3>i
      <3>m. PICK m : m = names[i]
        OBVIOUS
      <3>q. PICK q : q = pos[i]
        OBVIOUS
      <3>2. m \in Octets /\ m # <<>> /\ \A j \in DOMAIN m : m[j] # Delim
        BY <1>1, <3>1, <3>m DEF Whole
      <3>len. PICK len : len = Len(m)
        OBVIOUS
      <3>3. len \in Nat \ {0} /\ DOMAIN m = 1 .. len
        BY <3>2, <3>len DEF Octets
      <3>4. w = gap /\ s = at + gap + 1
        BY <1>n, <1>w, <2>1, <3>1 DEF Width
      <3>5. q = at + gap + len /\ StandsAt(p, at + gap, m)
        BY <1>n, <1>at, <3>1, <3>m, <3>q, <3>len, Zenon DEF Shaped
      <3>6. at + gap + len <= l /\ \A j \in 1 .. len : p[at + gap + j] = m[j]
        BY <1>l, <3>5, <3>len, Zenon DEF StandsAt
      <3>7. s + len = q + 1 /\ q \in Nat /\ q <= l /\ \A j \in 1 .. len : s - 1 + j = at + gap + j
        BY <1>1, <1>2, <3>3, <3>4, <3>5, <3>6
      <3>8. \A j \in 1 .. len : p[s - 1 + j] = m[j] /\ p[s - 1 + j] # Delim
        BY <3>2, <3>3, <3>6, <3>7, Zenon
      <3>v. PICK v : v = Width(names, gap, trail, i)
        OBVIOUS
      <3>9. \/ q = l /\ i = n
            \/ q + 1 <= l /\ p[q + 1] = Delim /\ v >= 1
        <4>1. v \in Nat /\ (v = 0 => i = n /\ trail = 0)
          BY <1>1, <1>n, <3>1, <3>v, WidthIs, Zenon
        <4>2. CASE v = 0
          <5>1. l = pos[n] + trail
            BY <1>n, <1>l, Zenon DEF Shaped
          <5>2. q = l
            BY <1>1, <3>q, <3>7, <4>1, <4>2, <5>1
          <5> QED BY <4>1, <4>2, <5>2
        <4>3. CASE v # 0
          <5>1. 1 \in 1 .. v /\ v >= 1
            BY <4>1, <4>3
          <5>2. q + 1 <= l /\ p[q + 1] = Delim
            <6>1. DelimsAreAt(p, q, v)
              BY <1>1, <1>n, <3>1, <3>q, <3>v, DelimIsAt, Zenon
            <6> QED BY <1>l, <5>1, <6>1, Zenon DEF DelimsAreAt
          <5> QED BY <5>1, <5>2
        <4> QED BY <4>2, <4>3
      <3>10. NameIsAt(p, names, gap, trail, pos, k, s)
        BY <1>n, <1>l, <3>i, <3>1, <3>m, <3>q, <3>len, <3>v, <3>3, <3>7, <3>8, <3>9, Zenon DEF NameIsAt
      <3> QED BY <1>at, <1>2, <3>10, Zenon
    <2> QED BY <2>2, <2>3
  <1> QED BY <1>3, <1>4

\* The names that have been split off are the first ones, and start is at a
\* backslash behind them or just behind the backslashes.
SplitAt(p, s, components, names) ==
    \E pos : \E gap \in Nat \ {0}, trail \in Nat, k \in 0 .. Len(names) :
        /\ Shaped(p, names, gap, trail, pos)
        /\ components = Upto(names, k)
        /\ s >= pos[k] + 1 /\ s <= pos[k] + Width(names, gap, trail, k) + 1

\* From s to q is the name m and no backslash.
PieceIs(p, s, q, m) ==
    /\ q \in Nat /\ s <= q /\ q <= Len(p)
    /\ SubSeq(p, s, q) = m /\ m # <<>>
    /\ \A x \in s .. q : p[x] # Delim

\* A row is what it was cut from.
LEMMA CutIs ==
  ASSUME NEW S, NEW p \in Seq(S), NEW m \in Seq(S), NEW len \in Nat \ {0}, len = Len(m),
         NEW s \in Nat \ {0}, NEW q \in Nat, s + len = q + 1, q <= Len(p),
         \A j \in 1 .. len : p[s - 1 + j] = m[j]
  PROVE  SubSeq(p, s, q) = m
  <1>1. \A x \in s .. q : p[x] \in S
    <2>1. \A x \in s .. q : x \in 1 .. Len(p)
      OBVIOUS
    <2>2. \A x \in 1 .. Len(p) : p[x] \in S
      OBVIOUS
    <2> QED BY <2>1, <2>2, Zenon
  <1>u. PICK u : u = SubSeq(p, s, q)
    OBVIOUS
  <1>2. /\ u \in Seq(S) /\ Len(u) = (IF s <= q THEN q - s + 1 ELSE 0)
        /\ \A j \in 1 .. q - s + 1 : u[j] = p[s + j - 1]
    <2>1. s \in Int /\ q \in Int
      OBVIOUS
    <2> QED BY <1>1, <1>u, <2>1, SubSeqProperties
  <1>3. s <= q /\ q - s + 1 = len /\ \A j \in 1 .. len : s + j - 1 = s - 1 + j
    OBVIOUS
  <1>4. Len(u) = len
    BY <1>2, <1>3
  <1>5. \A j \in 1 .. len : u[j] = m[j]
    BY <1>2, <1>3, Zenon
  <1> QED BY <1>2, <1>4, <1>5, <1>u, SeqEqual

\* The piece up to the end of a name is the name.
LEMMA PieceIsName ==
  ASSUME NEW names, Whole(names), NEW gap, NEW trail, NEW p \in Octets, NEW pos, NEW k,
         NEW s \in Nat \ {0}, NameIsAt(p, names, gap, trail, pos, k, s)
  PROVE  PieceIs(p, s, pos[k + 1], names[k + 1])
  <1>m. PICK m : m = names[k + 1]
    OBVIOUS
  <1>q. PICK q : q = pos[k + 1]
    OBVIOUS
  <1>len. PICK len : len = Len(m)
    OBVIOUS
  <1>1. /\ k + 1 \in 1 .. Len(names) /\ s + len = q + 1 /\ len \in Nat \ {0}
        /\ q \in Nat /\ q <= Len(p) /\ \A j \in 1 .. len : p[s - 1 + j] = m[j] /\ p[s - 1 + j] # Delim
    BY <1>m, <1>q, <1>len, Zenon DEF NameIsAt
  <1>2. m \in Octets /\ m # <<>>
    <2>1. names \in Seq(Octets)
      BY DEF Whole
    <2>2. k + 1 \in DOMAIN names
      BY <1>1, <2>1
    <2> QED BY <1>m, <2>1, <2>2 DEF Whole
  <1>b. PICK B : Octets = Seq(B)
    BY DEF Octets
  <1>3. SubSeq(p, s, q) = m
    <2>1. p \in Seq(B) /\ m \in Seq(B)
      BY <1>b, <1>2, Zenon
    <2>2. \A j \in 1 .. len : p[s - 1 + j] = m[j]
      BY <1>1, Zenon
    <2>3. len \in Nat \ {0} /\ q \in Nat /\ s + len = q + 1 /\ q <= Len(p)
      BY <1>1, Zenon
    <2> QED BY <1>len, <2>1, <2>2, <2>3, CutIs
  <1>4. s <= q /\ \A x \in s .. q : x - s + 1 \in 1 .. len /\ s - 1 + (x - s + 1) = x
    BY <1>1
  <1>5. \A x \in s .. q : p[x] # Delim
    BY <1>1, <1>4, Zenon
  <1> QED BY <1>m, <1>q, <1>1, <1>2, <1>3, <1>4, <1>5, Zenon DEF PieceIs

\* One name more.
LEMMA NameSplitOff ==
  ASSUME NEW names, Whole(names), NEW k \in Int, k \in 0 .. Len(names), k + 1 \in 1 .. Len(names)
  PROVE  Append(Upto(names, k), names[k + 1]) = Upto(names, k + 1)
  <1>1. k \in 0 .. Len(names) - 1 /\ names \in Seq(Octets)
    BY DEF Whole
  <1> QED BY <1>1, UptoSteps

\* The components with a piece that is not empty.
With(components, piece) == IF piece = <<>> THEN components ELSE Append(components, piece)

\* Up to the next backslash is nothing or the next name.
LEMMA NextSplits ==
  ASSUME NEW names, Whole(names), NEW p \in Octets, NEW s \in Nat \ {0}, NEW components,
         SplitAt(p, s, components, names),
         NEW end \in s .. Len(p), p[end] = Delim, \A x \in s .. end - 1 : p[x] # Delim,
         NEW piece, piece = SubSeq(p, s, end - 1)
  PROVE  SplitAt(p, end + 1, With(components, piece), names)
  <1>q. PICK pos : \E gap \in Nat \ {0}, trail \in Nat, k \in 0 .. Len(names) :
           /\ Shaped(p, names, gap, trail, pos)
           /\ components = Upto(names, k)
           /\ s >= pos[k] + 1 /\ s <= pos[k] + Width(names, gap, trail, k) + 1
    BY Zenon DEF SplitAt
  <1>p. PICK gap \in Nat \ {0}, trail \in Nat, k \in 0 .. Len(names) :
           /\ Shaped(p, names, gap, trail, pos)
           /\ components = Upto(names, k)
           /\ s >= pos[k] + 1 /\ s <= pos[k] + Width(names, gap, trail, k) + 1
    BY <1>q, Zenon
  <1>w. PICK w : w = Width(names, gap, trail, k)
    OBVIOUS
  <1>at. PICK at : at = pos[k]
    OBVIOUS
  <1>l. PICK l : l = Len(p)
    OBVIOUS
  <1>0. l \in Nat /\ Len(names) \in Nat /\ s \in Int /\ end \in Int /\ end >= s /\ end <= l
    BY <1>l DEF Octets, Whole
  <1>1. /\ at \in Nat
        /\ \/ s <= at + w /\ s <= l /\ p[s] = Delim
           \/ k = Len(names) /\ s = l + 1
           \/ NameIsAt(p, names, gap, trail, pos, k, s)
    BY <1>0, <1>p, <1>w, <1>at, <1>l, ShapeAt, Zenon
  <1>2. w \in Nat /\ s >= at + 1 /\ s <= at + w + 1
    BY <1>0, <1>p, <1>w, <1>at, WidthIs, Zenon
  <1>3. CASE s <= at + w /\ s <= l /\ p[s] = Delim
    <2>1. end = s
      <3>1. ~(s \in s .. end - 1)
        BY <1>3, Zenon
      <3> QED BY <1>0, <3>1
    <2>2. piece = <<>>
      <3>1. end - 1 \in Int /\ end - 1 < s
        BY <1>0, <2>1
      <3> QED BY <1>0, <3>1, SubSeqEmpty
    <2>3. end + 1 >= at + 1 /\ end + 1 <= at + w + 1
      BY <1>0, <1>1, <1>2, <1>3, <2>1
    <2> QED BY <1>p, <1>w, <1>at, <2>2, <2>3, Zenon DEF SplitAt, With
  <1>4. CASE k = Len(names) /\ s = l + 1
    BY <1>0, <1>4
  <1>5. CASE NameIsAt(p, names, gap, trail, pos, k, s)
    <2>q. PICK q : q = pos[k + 1]
      OBVIOUS
    <2>i. PICK i : i = k + 1
      OBVIOUS
    <2>m. PICK m : m = names[k + 1]
      OBVIOUS
    <2>p. PieceIs(p, s, q, m)
      BY <1>5, <2>q, <2>m, PieceIsName, Zenon
    <2>1. q \in Nat /\ s <= q /\ q <= l /\ \A x \in s .. q : p[x] # Delim
      BY <1>l, <2>p, Zenon DEF PieceIs
    <2>v. PICK v : v = Width(names, gap, trail, i)
      OBVIOUS
    <2>2. /\ i \in 1 .. Len(names)
          /\ \/ q = l
             \/ q + 1 <= l /\ p[q + 1] = Delim /\ v >= 1
      BY <1>5, <1>l, <2>q, <2>i, <2>v, Zenon DEF NameIsAt
    <2>3. q < end
      <3>1. ~(end \in s .. q)
        BY <2>1, Zenon
      <3> QED BY <1>0, <2>1, <3>1
    <2>4. q + 1 <= l /\ p[q + 1] = Delim /\ v >= 1
      BY <1>0, <2>1, <2>2, <2>3
    <2>5. end = q + 1
      <3>1. ~(q + 1 \in s .. end - 1)
        BY <2>4, Zenon
      <3> QED BY <1>0, <2>1, <2>3, <3>1
    <2>6. end - 1 = q
      BY <2>1, <2>5
    <2>7. piece # <<>> /\ Append(components, piece) = Upto(names, i)
      <3>1. piece = m /\ m # <<>>
        BY <2>p, <2>6, Zenon DEF PieceIs
      <3>2. Append(Upto(names, k), m) = Upto(names, i)
        <4>1. k \in Int
          OBVIOUS
        <4> QED BY <2>m, <2>i, <2>2, <4>1, NameSplitOff, Zenon
      <3> QED BY <1>p, <3>1, <3>2, Zenon
    <2>8. i \in 0 .. Len(names) /\ v \in Nat
      <3>1. i \in 0 .. Len(names)
        BY <1>0, <2>2
      <3> QED BY <1>0, <2>v, <3>1, WidthIs, Zenon
    <2>9. end + 1 >= q + 1 /\ end + 1 <= q + v + 1
      BY <2>1, <2>4, <2>5, <2>8
    <2> QED BY <1>p, <2>q, <2>i, <2>v, <2>7, <2>8, <2>9, Zenon DEF SplitAt, With
  <1> QED BY <1>1, <1>3, <1>4, <1>5

\* The piece is the last one.
Completes(components, piece, names) == With(components, piece) = names

\* With what is behind the last backslash, they are all the names.
LEMMA LastSplits ==
  ASSUME NEW names, Whole(names), NEW p \in Octets, NEW s \in Nat \ {0}, NEW components,
         SplitAt(p, s, components, names), \A x \in s .. Len(p) : p[x] # Delim,
         NEW piece, piece = SubSeq(p, s, Len(p))
  PROVE  Completes(components, piece, names)
  <1>q. PICK pos : \E gap \in Nat \ {0}, trail \in Nat, k \in 0 .. Len(names) :
           /\ Shaped(p, names, gap, trail, pos)
           /\ components = Upto(names, k)
           /\ s >= pos[k] + 1 /\ s <= pos[k] + Width(names, gap, trail, k) + 1
    BY Zenon DEF SplitAt
  <1>p. PICK gap \in Nat \ {0}, trail \in Nat, k \in 0 .. Len(names) :
           /\ Shaped(p, names, gap, trail, pos)
           /\ components = Upto(names, k)
           /\ s >= pos[k] + 1 /\ s <= pos[k] + Width(names, gap, trail, k) + 1
    BY <1>q, Zenon
  <1>l. PICK l : l = Len(p)
    OBVIOUS
  <1>0. l \in Nat /\ Len(names) \in Nat /\ s \in Int
    BY <1>l DEF Octets, Whole
  <1>u. Upto(names, Len(names)) = names
    BY UptoSteps DEF Whole
  <1>1. \/ s <= l /\ p[s] = Delim
        \/ k = Len(names) /\ s = l + 1
        \/ NameIsAt(p, names, gap, trail, pos, k, s)
    BY <1>0, <1>p, <1>l, ShapeAt, Zenon
  <1>2. CASE s <= l /\ p[s] = Delim
    <2>1. s \in s .. l
      BY <1>0, <1>2
    <2> QED BY <1>2, <1>l, <2>1, Zenon
  <1>3. CASE k = Len(names) /\ s = l + 1
    <2>1. piece = <<>>
      <3>1. l \in Int /\ l < s
        BY <1>0, <1>3
      <3> QED BY <1>0, <1>l, <3>1, SubSeqEmpty
    <2> QED BY <1>p, <1>u, <1>3, <2>1, Zenon DEF With, Completes
  <1>4. CASE NameIsAt(p, names, gap, trail, pos, k, s)
    <2>q. PICK q : q = pos[k + 1]
      OBVIOUS
    <2>m. PICK m : m = names[k + 1]
      OBVIOUS
    <2>p. PieceIs(p, s, q, m)
      BY <1>4, <2>q, <2>m, PieceIsName, Zenon
    <2>1. q \in Nat /\ s <= q /\ q <= l
      BY <1>l, <2>p, Zenon DEF PieceIs
    <2>2. \/ q = l /\ k + 1 = Len(names)
          \/ q + 1 <= l /\ p[q + 1] = Delim
      BY <1>4, <1>l, <2>q, Zenon DEF NameIsAt
    <2>3. q = l /\ k + 1 = Len(names)
      <3>1. CASE q + 1 <= l /\ p[q + 1] = Delim
        <4>1. q + 1 \in s .. l
          BY <1>0, <2>1, <3>1
        <4> QED BY <1>l, <3>1, <4>1, Zenon
      <3> QED BY <2>2, <3>1, Zenon
    <2>4. piece # <<>> /\ Append(components, piece) = Upto(names, k + 1)
      <3>1. piece = m /\ m # <<>>
        BY <1>l, <2>p, <2>3, Zenon DEF PieceIs
      <3>2. Append(Upto(names, k), m) = Upto(names, k + 1)
        <4>1. k \in Int /\ k + 1 \in 1 .. Len(names)
          BY <1>0, <2>3
        <4> QED BY <2>m, <4>1, NameSplitOff, Zenon
      <3> QED BY <1>p, <3>1, <3>2, Zenon
    <2> QED BY <1>u, <2>3, <2>4, Zenon DEF With, Completes
  <1> QED BY <1>1, <1>2, <1>3, <1>4

\* A call for the path of names that are shown in full has split nothing off it.
LEMMA PathBegins ==
  ASSUME NEW names \in Seq(Octets),
         \A i \in DOMAIN names : IsUtf8(names[i]) /\ Nameable(names[i]),
         NEW gap \in Nat \ {0}, NEW trail \in Nat, NEW s,
         s = convertWstringToUtf8(JoinedPath(Shown(names), gap, trail))
  PROVE  SplitAt(s, 1, <<>>, names)
  <1>b. PICK B : Octets = Seq(B) /\ Delim \in B
    BY DEF Octets, Delim
  <1>1. s = JoinedPath(names, gap, trail)
    <2>n. PICK n \in Nat : DOMAIN names = 1 .. n
      OBVIOUS
    <2>1. names = [i \in DOMAIN names |-> names[i]] /\ gap \in Nat
      OBVIOUS
    <2> QED BY <2>n, <2>1, PathRead, Zenon
  <1>2. PICK pos : Shaped(s, names, gap, trail, pos)
    <2>1. names \in Seq(Seq(B)) /\ gap \in Nat
      BY <1>b, Zenon
    <2> QED BY <1>b, <1>1, <2>1, PathShaped, Zenon
  <1>k. PICK k : k = 0
    OBVIOUS
  <1>w. PICK w : w = Width(names, gap, trail, k)
    OBVIOUS
  <1>3. k \in 0 .. Len(names) /\ w \in Nat
    <2>1. k \in 0 .. Len(names) /\ Len(names) \in Nat
      BY <1>k
    <2> QED BY <1>w, <2>1, WidthIs, Zenon
  <1>4. pos[k] = 0 /\ Upto(names, k) = <<>>
    <2>1. pos[0] = 0
      BY <1>2, Zenon DEF Shaped
    <2> QED BY <1>k, <2>1, UptoSteps
  <1>5. 1 >= pos[k] + 1 /\ 1 <= pos[k] + w + 1
    BY <1>3, <1>4
  <1> QED BY <1>2, <1>w, <1>3, <1>4, <1>5, Zenon DEF SplitAt

\* The name a listing shows is shown in the path behind those of the walk.
LEMMA ShownAppend ==
  ASSUME NEW names \in Seq(Octets), NEW name \in Octets
  PROVE  Append(Shown(names), copyUtf8StringToWcharArr(name, NameSize)) = Shown(Append(names, name))
  <1> DEFINE shows(o) == copyUtf8StringToWcharArr(o, NameSize)
  <1>s. PICK S : \A o \in Octets : shows(o) \in S
    <2>1. \A o \in Octets : shows(o) \in {shows(x) : x \in Octets}
      OBVIOUS
    <2> QED BY <2>1, Zenon
  <1>n. PICK n : n = Len(names)
    OBVIOUS
  <1>t. PICK t : t = Append(names, name)
    OBVIOUS
  <1>1. /\ n \in Nat /\ DOMAIN names = 1 .. n /\ \A i \in 1 .. n : names[i] \in Octets
        /\ t \in Seq(Octets) /\ Len(t) = n + 1 /\ t[n + 1] = name
        /\ \A i \in 1 .. n : t[i] = names[i]
    BY <1>n, <1>t, AppendKeeps
  <1> HIDE DEF shows
  <1>a. PICK a : a = Shown(names)
    OBVIOUS
  <1>2. a = [i \in 1 .. n |-> shows(names[i])]
    BY <1>1, <1>a, Zenon DEF Shown, shows
  <1>3. a \in Seq(S) /\ Len(a) = n /\ \A i \in 1 .. n : a[i] = shows(names[i])
    <2>1. \A i \in 1 .. n : shows(names[i]) \in S
      BY <1>1, <1>s, Zenon
    <2> QED BY <1>1, <1>2, <2>1
  <1>u. PICK u : u = Append(a, shows(name))
    OBVIOUS
  <1>4. /\ u \in Seq(S) /\ Len(u) = n + 1 /\ u[n + 1] = shows(name)
        /\ \A i \in 1 .. n : u[i] = a[i]
    <2>1. shows(name) \in S
      BY <1>s, Zenon
    <2> QED BY <1>3, <1>u, <2>1, AppendKeeps
  <1>5. ASSUME NEW i \in 1 .. n + 1 PROVE u[i] = shows(t[i])
    <2>1. CASE i = n + 1
      BY <1>1, <1>4, <2>1
    <2>2. CASE i # n + 1
      <3>1. i \in 1 .. n
        BY <1>1, <2>2
      <3> QED BY <1>1, <1>3, <1>4, <3>1, Zenon
    <2> QED BY <2>1, <2>2
  <1>6. u = [i \in 1 .. n + 1 |-> u[i]] /\ DOMAIN t = 1 .. n + 1
    BY <1>1, <1>4
  <1>7. u = [i \in DOMAIN t |-> shows(t[i])]
    BY <1>5, <1>6, Zenon
  <1>8. u = Shown(t)
    BY <1>7, Zenon DEF Shown, shows
  <1> QED BY <1>a, <1>t, <1>u, <1>8, Zenon DEF shows

\* Names in UTF-8.
Named(names) == names \in Seq(Octets) /\ \A i \in DOMAIN names : IsUtf8(names[i])

\* One more.
LEMMA NamedAppend ==
  ASSUME NEW names, Named(names), NEW name \in Octets, IsUtf8(name), NEW t, t = Append(names, name)
  PROVE  Named(t)
  <1>1. /\ t \in Seq(Octets) /\ Len(t) = Len(names) + 1 /\ t[Len(names) + 1] = name
        /\ \A i \in 1 .. Len(names) : t[i] = names[i]
    BY AppendKeeps DEF Named
  <1>2. DOMAIN names = 1 .. Len(names) /\ Len(names) \in Nat /\ DOMAIN t = 1 .. Len(names) + 1
    BY <1>1 DEF Named
  <1>3. ASSUME NEW i \in DOMAIN t PROVE IsUtf8(t[i])
    <2>1. CASE i = Len(names) + 1
      BY <1>1, <2>1, Zenon
    <2>2. CASE i # Len(names) + 1
      <3>1. i \in 1 .. Len(names)
        BY <1>2, <2>2
      <3> QED BY <1>1, <1>2, <3>1, Zenon DEF Named
    <2> QED BY <2>1, <2>2
  <1> QED BY <1>1, <1>3, Zenon DEF Named

\* What a path may stand for is such names.
LEMMA NamedAtServer ==
  ASSUME NEW w \in Walks, NEW s \in RStats
  PROVE  Named(<<>>) /\ Named(w) /\ Named(Append(w, s.name))
  <1>1. Named(<<>>)
    BY DEF Named
  <1>2. Named(w) /\ IsUtf8(s.name)
    BY Utf8Assumption, Zenon DEF Named
  <1>3. s.name \in Octets
    BY StatAssumption DEF RStat
  <1> QED BY <1>1, <1>2, <1>3, NamedAppend, Zenon

\* The name the user joins to a path is still the one that was copied from the
\* stat.
ListedName ==
    told.kind = "find" => told.cFileName = copyUtf8StringToWcharArr(rstat.name, NameSize)

\* What is asked for behind a listing is the path of the walk and the name in it.
LEMMA ShownBehind ==
  ASSUME ListedName, rstat \in RStats, walk \in Walks, told.kind = "find"
  PROVE  Append(Shown(walk), told.cFileName) = Shown(Append(walk, rstat.name))
  <1>1. told.cFileName = copyUtf8StringToWcharArr(rstat.name, NameSize)
    BY Zenon DEF ListedName
  <1>2. walk \in Seq(Octets) /\ rstat.name \in Octets
    BY StatAssumption, Utf8Assumption DEF RStat
  <1> QED BY <1>1, <1>2, ShownAppend, Zenon

\* A path of names that are shown, in full or not, is read as octets.
LEMMA PathsAreOctets ==
  ASSUME NEW names, Named(names), NEW s \in Paths(Shown(names))
  PROVE  s \in Octets
  <1>1. PICK gap \in Gaps, trail \in (IF Shown(names) = <<>> THEN Gaps ELSE Gaps \cup {0}) :
           s = convertWstringToUtf8(JoinedPath(Shown(names), gap, trail))
    BY DEF Paths
  <1>2. gap \in Nat /\ trail \in Nat
    BY GapsAssumption
  <1>w. PICK w : w = Shown(names)
    OBVIOUS
  <1>3. w \in Seq(Seq(Units))
    <2>n. PICK n \in Nat : DOMAIN names = 1 .. n
      BY DEF Named
    <2>1. w = [i \in 1 .. n |-> copyUtf8StringToWcharArr(names[i], NameSize)]
      BY <1>w, <2>n, Zenon DEF Shown
    <2>2. \A i \in 1 .. n : copyUtf8StringToWcharArr(names[i], NameSize) \in Seq(Units)
      BY <2>n, NameCopied, Zenon DEF Named
    <2> QED BY <2>1, <2>2
  <1>4. Delim \in Units
    <2>1. Delim \in Nat /\ Delim < 65536
      BY SMT DEF Delim
    <2> QED BY <2>1, Halves, SMT
  <1>5. JoinedPath(w, gap, trail) \in Seq(Units)
    BY <1>2, <1>3, <1>4, PathShaped, Zenon
  <1> QED BY <1>1, <1>w, <1>5, WrittenIsOctets, Zenon

-----------------------------------------------------------------------------
(* The invariant: for the file's path to be octets, it must be made of names *)
(* in UTF-8 or of what a listing shows of them.                             *)

IInv == TypeOK /\ ToldExactly /\ NamesAreWhole /\ ListedName

\* The invariant holds at the start,
LEMMA InvInit == Init => IInv
  <1> SUFFICES ASSUME Init PROVE IInv
    OBVIOUS
  <1>1. told.kind = "nothing" /\ told.kind # "find" /\ told.kind # "handle"
    BY DEF Init, NotTold
  <1>2. rstat \in RStats /\ walk \in Walks /\ asked = "nothing"
    BY DEF Init
  <1>3. SplitTypeOK /\ NamesAreWhole
    <2>1. <<>> \in Octets /\ <<>> \in Seq(Octets) /\ Len(<<>>) = 0
      BY DEF Octets
    <2>2. /\ path = <<>> /\ start = 1 /\ path_components = <<>> /\ returned = TRUE
      BY DEF Init
    <2> QED BY <2>1, <2>2 DEF SplitTypeOK, NamesAreWhole
  <1> QED
    BY <1>1, <1>2, <1>3 DEF IInv, TypeOK, ToldTypeOK, ToldExactly, ListedName

\* What has been told stays right while a path is split.
LEMMA ToldUnchanged ==
  ASSUME IInv, UNCHANGED <<rstat, told>>
  PROVE  ToldTypeOK' /\ ToldExactly' /\ ListedName'
  BY DEF IInv, TypeOK, ToldTypeOK, ToldExactly, ListedName

\* The split stays as it is while something is told.
LEMMA SplitUnchanged ==
  ASSUME IInv, UNCHANGED splitVars
  PROVE  SplitTypeOK' /\ NamesAreWhole'
  BY DEF IInv, TypeOK, splitVars, SplitTypeOK, NamesAreWhole

\* and every step keeps it.
LEMMA InvStep == IInv /\ [Next]_vars => IInv'
  <1> SUFFICES ASSUME IInv, [Next]_vars PROVE IInv'
    OBVIOUS
  <1>1. /\ rstat \in RStats /\ rstat \in RStat /\ walk \in Walks
        /\ SplitTypeOK /\ NamesAreWhole
    BY StatAssumption DEF IInv, TypeOK, ToldTypeOK
  <1>2. CASE FindFiles
    <2>1. PICK s \in Paths(Shown(walk)) : splitToPathComponents(s)
      BY <1>2 DEF FindFiles
    <2>2. s \in Octets
      BY <1>1, <2>1, NamedAtServer, PathsAreOctets
    <2>3. SplitTypeOK' /\ NamesAreWhole'
      BY <2>1, <2>2, SplitBegins
    <2> QED
      BY <1>1, <1>2, <2>3, ToldUnchanged DEF FindFiles, IInv, TypeOK
  <1>3. CASE Split
    BY <1>1, <1>3, SplitKeeps, ToldUnchanged DEF Split, IInv, TypeOK
  <1>4. CASE FindFilesReturns
    <2>1. PICK word : /\ rstat' = rstat
                      /\ told' = [kind |-> "find", common |-> Common(rstat),
                                  cFileName |-> copyUtf8StringToWcharArr(rstat.name, NameSize),
                                  dwReserved |-> word]
      BY <1>4 DEF FindFilesReturns, fillFindDataWithRStat
    <2>2. ToldTypeOK' /\ ToldExactly' /\ ListedName'
      BY <1>1, <2>1, CommonExact, NameCopied, Utf8Assumption DEF ToldTypeOK, ToldExactly, ListedName
    <2> QED
      BY <1>1, <1>4, <2>2, SplitUnchanged DEF FindFilesReturns, IInv, TypeOK
  <1>5. CASE GetFileInformation
    <2>1. PICK s \in Paths(Append(Shown(walk), told.cFileName)) : splitToPathComponents(s)
      BY <1>5 DEF GetFileInformation
    <2>2. s \in Paths(Shown(Append(walk, rstat.name)))
      <3>1. told.kind = "find" /\ ListedName
        BY <1>5 DEF GetFileInformation, IInv
      <3> QED BY <1>1, <2>1, <3>1, ShownBehind
    <2>3. s \in Octets
      BY <1>1, <2>2, NamedAtServer, PathsAreOctets
    <2>4. SplitTypeOK' /\ NamesAreWhole'
      BY <2>1, <2>3, SplitBegins
    <2> QED
      BY <1>1, <1>5, <2>4, ToldUnchanged DEF GetFileInformation, IInv, TypeOK
  <1>6. CASE GetFileInformationReturns
    <2>1. /\ rstat' = rstat
          /\ told' = [kind |-> "handle", common |-> Common(rstat),
                      nFileIndex |-> splitInt64(rstat.path)]
      BY <1>6 DEF GetFileInformationReturns, fillByHandleFileInformation
    <2>2. rstat.path \in 0 .. Half * Half - 1
      BY <1>1 DEF RStat
    <2>3. ToldTypeOK' /\ ToldExactly' /\ ListedName'
      BY <1>1, <2>1, <2>2, CommonExact, SplitJoined DEF ToldTypeOK, ToldExactly, ListedName
    <2> QED
      BY <1>1, <1>6, <2>3, SplitUnchanged DEF GetFileInformationReturns, IInv, TypeOK
  <1>7. CASE Ended \/ UNCHANGED vars
    <2>1. UNCHANGED <<rstat, told>> /\ UNCHANGED splitVars /\ UNCHANGED <<walk, asked>>
      BY <1>7 DEF Ended, vars
    <2> QED
      BY <2>1, <1>1, ToldUnchanged, SplitUnchanged DEF IInv, TypeOK
  <1> QED BY <1>2, <1>3, <1>4, <1>5, <1>6, <1>7 DEF Next

\* The times, lengths and indices of every stat a server may send reach
\* Windows unchanged, in halves that fit, and no name leaves its array
\* (fillByHandleFileInformation, fillFindDataWithRStat).
THEOREM ToldExactlyAlways == Spec => []ToldExactly
  <1>1. IInv => ToldExactly
    BY DEF IInv
  <1> QED BY <1>1, InvInit, InvStep, PTL DEF Spec

\* Of any path a user can join, of any length, splitToPathComponents makes
\* non-empty names without a backslash.
THEOREM NamesAlwaysWhole == Spec => []NamesAreWhole
  <1>1. IInv => NamesAreWhole
    BY DEF IInv
  <1> QED BY <1>1, InvInit, InvStep, PTL DEF Spec

\* The halves of 64-bit values fit, names stay within their array and the split
\* within its path.
THEOREM TypeCorrect == Spec => []TypeOK
  <1>1. IInv => TypeOK
    BY DEF IInv
  <1> QED BY <1>1, InvInit, InvStep, PTL DEF Spec
-----------------------------------------------------------------------------
(* What becomes of the names a listing has shown.                           *)

\* Names shown in full are split off again, one by one.
Opens ==
    (\A i \in DOMAIN Meant : Nameable(Meant[i])) =>
        IF returned THEN path_components = Meant
        ELSE SplitAt(path, start, path_components, Meant)

\* At the start nothing is meant and nothing split,
LEMMA OpensInit == Init => Opens
  BY DEF Init, Opens, Meant

\* the split goes on as it has begun,
LEMMA SplitOpens ==
  ASSUME IInv, Opens, SplitStep, NEW names, names = Meant, names \in Seq(Octets),
         \A i \in DOMAIN names : Nameable(names[i])
  PROVE  IF returned' THEN path_components' = names
         ELSE SplitAt(path', start', path_components', names)
  <1>1. ~returned /\ SplitAt(path, start, path_components, names)
    BY DEF Opens, SplitStep, NextComponent, LastComponent
  <1>2. path \in Octets /\ start \in Nat \ {0}
    BY DEF IInv, TypeOK, SplitTypeOK
  <1>3. Whole(names)
    BY Zenon DEF Whole, Nameable
  <1>4. CASE NextComponent
    <2>1. PICK end \in start .. Len(path) :
            /\ Finds(end)
            /\ path_components' = Pushed(SubSeq(path, start, end - 1))
            /\ start' = end + 1
            /\ UNCHANGED <<path, returned>>
      BY <1>4 DEF NextComponent
    <2>p. PICK piece : piece = SubSeq(path, start, end - 1)
      OBVIOUS
    <2>2. SplitAt(path, end + 1, With(path_components, piece), names)
      <3>1. path[end] = Delim /\ \A x \in start .. end - 1 : path[x] # Delim
        BY <2>1, Zenon DEF Finds
      <3> QED BY <1>1, <1>2, <1>3, <2>p, <3>1, NextSplits, Zenon
    <2>3. path_components' = With(path_components, piece)
      BY <2>1, <2>p, Zenon DEF Pushed, With
    <2>4. SplitAt(path', start', path_components', names)
      BY <2>1, <2>2, <2>3, Zenon
    <2> QED BY <1>1, <2>1, <2>4
  <1>5. CASE LastComponent
    <2>1. /\ FindsNone /\ returned' = TRUE
          /\ path_components' = Pushed(SubSeq(path, start, Len(path)))
      BY <1>5, Zenon DEF LastComponent
    <2>p. PICK piece : piece = SubSeq(path, start, Len(path))
      OBVIOUS
    <2>2. Completes(path_components, piece, names)
      <3>1. \A x \in start .. Len(path) : path[x] # Delim
        BY <2>1, Zenon DEF FindsNone
      <3> QED BY <1>1, <1>2, <1>3, <2>p, <3>1, LastSplits, Zenon
    <2>3. path_components' = names
      BY <2>1, <2>2, <2>p, Zenon DEF Pushed, With, Completes
    <2> QED BY <2>1, <2>3
  <1> QED BY <1>4, <1>5 DEF SplitStep

\* a path of names shown in full is asked for,
LEMMA AskOpens ==
  ASSUME NEW names \in Seq(Octets), \A i \in DOMAIN names : IsUtf8(names[i]),
         \A i \in DOMAIN names : Nameable(names[i]),
         NEW s \in Paths(Shown(names)), splitToPathComponents(s)
  PROVE  ~returned' /\ SplitAt(path', start', path_components', names)
  <1>1. PICK gap \in Gaps, trail \in (IF Shown(names) = <<>> THEN Gaps ELSE Gaps \cup {0}) :
           s = convertWstringToUtf8(JoinedPath(Shown(names), gap, trail))
    BY DEF Paths
  <1>2. gap \in Nat \ {0} /\ trail \in Nat
    BY GapsAssumption
  <1>3. SplitAt(s, 1, <<>>, names)
    BY <1>1, <1>2, PathBegins, Zenon
  <1>4. path' = s /\ start' = 1 /\ path_components' = <<>> /\ returned' = FALSE
    BY DEF splitToPathComponents
  <1> QED BY <1>3, <1>4, Zenon

\* and nothing else disturbs it.
LEMMA OpensStep == IInv /\ IInv' /\ Opens /\ [Next]_vars => Opens'
  <1> SUFFICES ASSUME IInv, IInv', Opens, [Next]_vars,
                      \A i \in DOMAIN Meant' : Nameable(Meant'[i])
               PROVE  IF returned' THEN path_components' = Meant'
                      ELSE SplitAt(path', start', path_components', Meant')
    BY Zenon DEF Opens
  <1>n. PICK names : names = Meant'
    OBVIOUS
  <1>1. /\ names \in Seq(Octets) /\ \A i \in DOMAIN names : IsUtf8(names[i])
        /\ \A i \in DOMAIN names : Nameable(names[i])
    <2>1. walk' \in Walks /\ rstat' \in RStats /\ asked' \in {"nothing", "directory", "file"}
      BY DEF IInv, TypeOK, ToldTypeOK
    <2>2. Named(<<>>) /\ Named(walk') /\ Named(Append(walk', rstat'.name))
      BY <2>1, NamedAtServer, Zenon
    <2>3. Named(names)
      BY <1>n, <2>1, <2>2 DEF Meant
    <2> QED BY <1>n, <2>3, Zenon DEF Named
  <1> DEFINE Goal == IF returned' THEN path_components' = names
                     ELSE SplitAt(path', start', path_components', names)
  <1> SUFFICES Goal
    BY <1>n, Zenon
  <1>2. CASE FindFiles
    <2>1. PICK s \in Paths(Shown(walk)) : splitToPathComponents(s)
      BY <1>2 DEF FindFiles
    <2>2. names = walk
      BY <1>n, <1>2 DEF FindFiles, Meant
    <2>3. ~returned' /\ SplitAt(path', start', path_components', names)
      BY <1>1, <2>1, <2>2, AskOpens, Zenon
    <2> QED BY <2>3, Zenon
  <1>3. CASE Split
    <2>1. names = Meant /\ SplitStep
      BY <1>n, <1>3 DEF Split, Meant
    <2> QED BY <1>1, <2>1, SplitOpens, Zenon
  <1>4. CASE GetFileInformation
    <2>1. PICK s \in Paths(Append(Shown(walk), told.cFileName)) : splitToPathComponents(s)
      BY <1>4 DEF GetFileInformation
    <2>2. names = Append(walk, rstat.name)
      BY <1>n, <1>4 DEF GetFileInformation, Meant
    <2>3. Append(Shown(walk), told.cFileName) = Shown(names)
      BY <1>4, <2>2, ShownBehind DEF GetFileInformation, IInv, TypeOK, ToldTypeOK
    <2>4. s \in Paths(Shown(names))
      BY <2>1, <2>3, Zenon
    <2>5. ~returned' /\ SplitAt(path', start', path_components', names)
      BY <1>1, <2>1, <2>4, AskOpens, Zenon
    <2> QED BY <2>5, Zenon
  <1>5. CASE FindFilesReturns \/ GetFileInformationReturns \/ Ended \/ UNCHANGED vars
    <2>1. UNCHANGED <<path, start, path_components, returned>> /\ UNCHANGED <<walk, asked, rstat>>
      BY <1>5 DEF FindFilesReturns, GetFileInformationReturns, Ended, vars, splitVars,
                  fillFindDataWithRStat, fillByHandleFileInformation
    <2>2. names = Meant
      BY <1>n, <2>1 DEF Meant
    <2>3. IF returned THEN path_components = names
          ELSE SplitAt(path, start, path_components, names)
      BY <1>1, <2>2, Zenon DEF Opens
    <2> QED BY <2>1, <2>3, Zenon
  <1> QED BY <1>2, <1>3, <1>4, <1>5 DEF Next

\* What a listing shows in full can be opened: of names in UTF-8, however many
\* and whatever their characters, the walk has those of the server, octet for
\* octet (copyUtf8StringToWcharArr, convertWstringToUtf8, splitToPathComponents).
THEOREM ListedNamesOpenAlways == Spec => []ListedNamesOpen
  <1>1. Opens => ListedNamesOpen
    BY DEF Opens, ListedNamesOpen
  <1> QED BY <1>1, InvInit, InvStep, OpensInit, OpensStep, PTL DEF Spec
=============================================================================
