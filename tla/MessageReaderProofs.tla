------------------------- MODULE MessageReaderProofs -------------------------
(***************************************************************************)
(* What the parsers of MessageReader read from octets that were written as *)
(* WireFormat has it, for every radix and width and octets of any length.  *)
(***************************************************************************)
EXTENDS MessageReader, DataInduction, SequenceTheorems

-----------------------------------------------------------------------------
(* Integers as octets (WireFormat).                                        *)

\* The first shifts.
Shifts(f, n) ==
    /\ f \in [0 .. n -> Nat \ {0}]
    /\ f[0] = 1
    /\ \A k \in 1 .. n : f[k] = Radix * f[k - 1]

\* Some function obeys the recursion up to any number of shifts.
LEMMA ShiftsExist == \A n \in Nat : \E f : Shifts(f, n)
  <1> DEFINE S == {n \in Nat : \E f : Shifts(f, n)}
  <1>1. 0 \in S
    <2>1. Shifts([k \in 0 .. 0 |-> 1], 0)
      BY DEF Shifts
    <2> QED BY <2>1
  <1>2. ASSUME NEW n \in Nat, n \in S PROVE n + 1 \in S
    <2> PICK f : Shifts(f, n)
      BY <1>2
    <2> DEFINE g == [k \in 0 .. n + 1 |-> IF k = n + 1 THEN Radix * f[n] ELSE f[k]]
    <2>1. Radix * f[n] \in Nat \ {0}
      BY RadixAssumption DEF Shifts
    <2>2. g \in [0 .. n + 1 -> Nat \ {0}]
      BY <2>1 DEF Shifts
    <2>3. g[0] = 1
      BY DEF Shifts
    <2>4. ASSUME NEW k \in 1 .. n + 1 PROVE g[k] = Radix * g[k - 1]
      <3>1. CASE k = n + 1
        <4>1. g[k] = Radix * f[n] /\ k - 1 = n /\ g[n] = f[n]
          BY <3>1
        <4> HIDE DEF g
        <4> QED BY <4>1
      <3>2. CASE k # n + 1
        <4>1. k \in 1 .. n /\ k - 1 \in 0 .. n
          BY <3>2
        <4>2. g[k] = f[k] /\ g[k - 1] = f[k - 1]
          <5>1. k # n + 1 /\ k - 1 # n + 1 /\ k \in 0 .. n + 1 /\ k - 1 \in 0 .. n + 1
            BY <4>1
          <5> QED BY <5>1
        <4> HIDE DEF g
        <4> QED BY <4>1, <4>2 DEF Shifts
      <3> QED BY <3>1, <3>2
    <2> HIDE DEF g
    <2>5. Shifts(g, n + 1)
      BY <2>2, <2>3, <2>4 DEF Shifts
    <2> QED BY <2>5
  <1>3. Nat \subseteq S
    <2> HIDE DEF S
    <2> QED BY <1>1, <1>2, SetInduction
  <1> QED BY <1>3

\* Longer rows of shifts begin as shorter ones.
LEMMA ShiftsAgree ==
  ASSUME NEW n \in Nat, NEW m \in Nat, n <= m, NEW f, NEW g, Shifts(f, n), Shifts(g, m)
  PROVE  f[n] = g[n]
  <1> DEFINE S == {k \in 0 .. n : f[k] = g[k]}
  <1>1. 0 \in S
    BY DEF Shifts
  <1>2. \A k \in 0 .. n - 1 : k \in S => k + 1 \in S
    <2> SUFFICES ASSUME NEW k \in 0 .. n - 1, f[k] = g[k]
                 PROVE  f[k + 1] = g[k + 1] /\ k + 1 \in 0 .. n
      OBVIOUS
    <2>1. k + 1 \in 1 .. n /\ k + 1 \in 1 .. m /\ (k + 1) - 1 = k
      OBVIOUS
    <2>2. f[k + 1] = Radix * f[k] /\ g[k + 1] = Radix * g[k]
      BY <2>1 DEF Shifts
    <2> QED BY <2>1, <2>2
  <1>3. 0 .. n \subseteq S
    <2> HIDE DEF S
    <2> QED BY <1>1, <1>2, UpTo
  <1> QED BY <1>3

\* The recursion of Shift is well founded.
LEMMA ShiftSteps ==
  /\ Shift[0] = 1
  /\ \A i \in Nat : Shift[i] \in Nat \ {0} /\ Shift[i + 1] = Radix * Shift[i]
  <1> DEFINE row(i) == CHOOSE f : Shifts(f, i)
             shift == [i \in Nat |-> row(i)[i]]
  <1>1. \A i \in Nat : Shifts(row(i), i)
    BY ShiftsExist
  <1> HIDE DEF row
  <1>2. ASSUME NEW i \in Nat, i # 0 PROVE row(i)[i] = Radix * row(i - 1)[i - 1]
    <2>1. i - 1 \in Nat /\ i - 1 <= i /\ i \in 1 .. i
      BY <1>2
    <2>2. row(i)[i] = Radix * row(i)[i - 1]
      BY <1>1, <2>1 DEF Shifts
    <2>3. row(i - 1)[i - 1] = row(i)[i - 1]
      BY <1>1, <2>1, ShiftsAgree
    <2> QED BY <2>2, <2>3
  <1>3. row(0)[0] = 1
    BY <1>1 DEF Shifts
  <1>4. shift = [i \in Nat |-> IF i = 0 THEN 1 ELSE Radix * shift[i - 1]]
    <2>1. ASSUME NEW i \in Nat
          PROVE  shift[i] = IF i = 0 THEN 1 ELSE Radix * shift[i - 1]
      <3>1. CASE i = 0
        BY <1>3, <3>1
      <3>2. CASE i # 0
        <4>1. i - 1 \in Nat
          BY <3>2
        <4> QED BY <1>2, <3>2, <4>1
      <3> QED BY <3>1, <3>2
    <2>2. shift = [i \in Nat |-> shift[i]]
      BY Zenon
    <2> HIDE DEF shift
    <2> QED BY <2>1, <2>2, Zenon
  <1>5. Shift = [i \in Nat |-> IF i = 0 THEN 1 ELSE Radix * Shift[i - 1]]
    <2> HIDE DEF shift
    <2> QED BY <1>4, Zenon DEF Shift
  <1>6. Shift[0] = 1
    BY <1>5, Zenon
  <1>7. \A i \in Nat : Shift[i + 1] = Radix * Shift[i]
    <2> TAKE i \in Nat
    <2>1. i + 1 \in Nat /\ i + 1 # 0 /\ (i + 1) - 1 = i
      OBVIOUS
    <2>2. Shift[i + 1] = IF i + 1 = 0 THEN 1 ELSE Radix * Shift[(i + 1) - 1]
      BY <1>5, <2>1, Zenon
    <2> QED BY <2>1, <2>2
  <1>8. \A i \in Nat : Shift[i] \in Nat \ {0}
    <2> DEFINE S == {i \in Nat : Shift[i] \in Nat \ {0}}
    <2>1. 0 \in S
      BY <1>6
    <2>2. \A i \in Nat : i \in S => i + 1 \in S
      BY <1>7, RadixAssumption
    <2> HIDE DEF S
    <2>3. Nat \subseteq S
      BY <2>1, <2>2, SetInduction
    <2> QED BY <2>3 DEF S
  <1> QED BY <1>6, <1>7, <1>8

\* A remainder is known by its size.
LEMMA RemainderUnique ==
  ASSUME NEW d \in Nat \ {0}, NEW a \in Nat, NEW c \in 0 .. d - 1
  PROVE  (d * a + c) % d = c
  <1> DEFINE v == d * a + c
             q == v \div d
             r == v % d
  <1>1. v \in Nat
    OBVIOUS
  <1>2. q \in Int /\ r \in 0 .. d - 1 /\ v = d * q + r
    <2> HIDE DEF v
    <2> QED BY <1>1
  <1> HIDE DEF q, r
  <1>3. d * (a - q) = r - c
    BY <1>2
  <1>4. a = q
    <2>1. a - q < 1
      <3> SUFFICES ASSUME a - q >= 1 PROVE FALSE
        BY <1>2
      <3>1. d * (a - q) >= d * 1
        BY <1>2
      <3> QED BY <1>2, <1>3, <3>1
    <2>2. a - q > -1
      <3> SUFFICES ASSUME q - a >= 1 PROVE FALSE
        BY <1>2
      <3>1. d * (q - a) >= d * 1
        BY <1>2
      <3>2. d * (q - a) = c - r
        BY <1>2
      <3> QED BY <1>2, <3>1, <3>2
    <2> QED BY <1>2, <2>1, <2>2
  <1>5. r = c
    BY <1>2, <1>4
  <1> QED BY <1>5 DEF r

\* The remainder by a product, one factor after the other.
LEMMA RemainderOfProduct ==
  ASSUME NEW v \in Nat, NEW p \in Nat \ {0}, NEW r \in Nat \ {0}
  PROVE  v % (r * p) = (v % p) + ((v \div p) % r) * p
  <1> DEFINE q == v \div p
             low == v % p
             a == q \div r
             b == q % r
  <1>1. q \in Nat /\ low \in 0 .. p - 1 /\ v = p * q + low
    OBVIOUS
  <1> HIDE DEF q, low
  <1>2. a \in Nat /\ b \in 0 .. r - 1 /\ q = r * a + b
    BY <1>1
  <1> HIDE DEF a, b
  <1>3. v = (r * p) * a + (low + b * p)
    BY <1>1, <1>2
  <1>4. r * p \in Nat \ {0} /\ low + b * p \in Nat
    BY <1>1, <1>2
  <1>5. low + b * p <= r * p - 1
    <2>1. b * p <= (r - 1) * p
      BY <1>2
    <2>2. (r - 1) * p = r * p - p
      OBVIOUS
    <2>3. b * p \in Nat
      BY <1>2
    <2> QED BY <1>1, <1>4, <2>1, <2>2, <2>3
  <1>6. low + b * p \in 0 .. (r * p) - 1
    BY <1>4, <1>5
  <1>7. ((r * p) * a + (low + b * p)) % (r * p) = low + b * p
    BY <1>2, <1>4, <1>6, RemainderUnique
  <1> QED BY <1>3, <1>7 DEF low, a, b, q

\* The octets of an integer are octets.
LEMMA LittleEndianType ==
  ASSUME NEW v \in Nat, NEW w \in Nat
  PROVE  LittleEndian(v, w) \in Seq(Octets) /\ Len(LittleEndian(v, w)) = w
  <1>1. ASSUME NEW i \in 1 .. w PROVE (v \div Shift[i - 1]) % Radix \in Octets
    <2>1. Shift[i - 1] \in Nat \ {0}
      BY ShiftSteps
    <2>2. v \div Shift[i - 1] \in Nat
      BY <2>1
    <2> QED BY <2>2, RadixAssumption DEF Octets
  <1> QED BY <1>1 DEF LittleEndian

\* The mask undoes the sign of a char.
LEMMA ByteIsOctet == \A o \in Octets : Byte(o) = o
  <1> SUFFICES ASSUME NEW o \in Octets PROVE Byte(o) = o
    OBVIOUS
  <1>1. Radix \in Nat \ {0} /\ o \in 0 .. Radix - 1
    BY RadixAssumption DEF Octets
  <1>2. o % Radix = o
    BY <1>1
  <1>3. CASE 2 * o < Radix
    BY <1>2, <1>3 DEF Byte, Char
  <1>4. CASE ~(2 * o < Radix)
    <2>1. (o - Radix) % Radix = o
      BY <1>1
    <2> QED BY <1>4, <2>1 DEF Byte, Char
  <1> QED BY <1>3, <1>4

\* The recursion of LowEndianValue is well founded.
LEMMA ValueSteps ==
  ASSUME NEW s \in Seq(Octets)
  PROVE  \E value : /\ value \in [0 .. Len(s) -> Nat]
                    /\ value[0] = 0
                    /\ \A k \in 1 .. Len(s) : value[k] = value[k - 1] + s[k] * Shift[k - 1]
                    /\ LowEndianValue(s) = value[Len(s)]
  <1> DEFINE n == Len(s)
             t == [k \in 1 .. n |-> s[k] * Shift[k - 1]]
  <1>1. n \in Nat
    OBVIOUS
  <1>2. \A k \in 1 .. n : s[k] * Shift[k - 1] \in Nat
    <2> TAKE k \in 1 .. n
    <2>1. s[k] \in Nat /\ k - 1 \in Nat
      BY RadixAssumption DEF Octets
    <2>2. Shift[k - 1] \in Nat
      BY <2>1, ShiftSteps
    <2> QED BY <2>1, <2>2
  <1>3. t \in Seq(Nat) /\ Len(t) = n
    BY <1>1, <1>2
  <1> PICK sum : IsSum(t, sum)
    BY <1>3, TotalIsSum
  <1>4. /\ sum \in [0 .. n -> Nat] /\ sum[0] = 0
        /\ \A k \in 1 .. n : sum[k] = sum[k - 1] + s[k] * Shift[k - 1]
    BY <1>3 DEF IsSum
  <1> DEFINE IsValue(f) ==
        f = [i \in 0 .. n |-> IF i = 0 THEN 0 ELSE f[i - 1] + Byte(s[i]) * Shift[i - 1]]
  <1>5. IsValue(sum)
    <2>1. \A i \in 0 .. n : i # 0 => i \in 1 .. n
      BY <1>1
    <2>2. \A i \in 0 .. n :
            sum[i] = IF i = 0 THEN 0 ELSE sum[i - 1] + Byte(s[i]) * Shift[i - 1]
      <3>1. \A i \in 1 .. n : Byte(s[i]) = s[i]
        BY ByteIsOctet
      <3> QED BY <1>4, <2>1, <3>1
    <2>3. sum = [i \in 0 .. n |-> sum[i]]
      BY <1>4
    <2> HIDE DEF n
    <2> QED BY <2>2, <2>3, Zenon
  <1> DEFINE value == CHOOSE f : IsValue(f)
  <1>6. IsValue(value)
    <2> HIDE DEF IsValue
    <2> QED BY <1>5, Zenon
  <1>7. LowEndianValue(s) = value[n]
    BY Zenon DEF LowEndianValue
  <1>8. \A i \in 0 .. n :
          value[i] = IF i = 0 THEN 0 ELSE value[i - 1] + Byte(s[i]) * Shift[i - 1]
    <2> HIDE DEF value, n
    <2> QED BY <1>6, Zenon
  <1> HIDE DEF value
  <1>9. value[0] = 0 /\ \A k \in 1 .. n : value[k] = value[k - 1] + s[k] * Shift[k - 1]
    <2>1. 0 \in 0 .. n /\ \A k \in 1 .. n : k # 0 /\ k \in 0 .. n
      BY <1>1
    <2>2. \A k \in 1 .. n : Byte(s[k]) = s[k]
      BY ByteIsOctet
    <2> HIDE DEF n
    <2> QED BY <1>8, <2>1, <2>2
  <1>10. \A i \in 0 .. n : value[i] \in Nat
    <2> DEFINE S == {i \in 0 .. n : value[i] \in Nat}
    <2>1. 0 \in S
      BY <1>1, <1>9
    <2>2. \A k \in 0 .. n - 1 : k \in S => k + 1 \in S
      <3> SUFFICES ASSUME NEW k \in 0 .. n - 1, value[k] \in Nat
                   PROVE  value[k + 1] \in Nat /\ k + 1 \in 0 .. n
        OBVIOUS
      <3>1. k + 1 \in 1 .. n /\ (k + 1) - 1 = k
        BY <1>1
      <3>2. value[k + 1] = value[k] + s[k + 1] * Shift[(k + 1) - 1]
        BY <1>9, <3>1
      <3>3. s[k + 1] * Shift[(k + 1) - 1] \in Nat
        BY <1>2, <3>1
      <3> HIDE DEF n
      <3> QED BY <1>1, <3>1, <3>2, <3>3
    <2> HIDE DEF S
    <2>3. 0 .. n \subseteq S
      BY <1>1, <2>1, <2>2, UpTo
    <2> QED BY <2>3 DEF S
  <1>11. value \in [0 .. n -> Nat]
    <2> HIDE DEF n
    <2>1. value = [i \in 0 .. n |-> value[i]]
      BY <1>6, Zenon
    <2> QED BY <1>10, <2>1
  <1> QED BY <1>7, <1>9, <1>11

\* An integer is read as it was written, up to the width of its type
\* (writeLowEndianInteger, parseInteger).
THEOREM IntegerRoundTrip ==
  ASSUME NEW v \in Nat, NEW w \in Nat
  PROVE  LowEndianValue(LittleEndian(v, w)) = v % Shift[w]
  <1> DEFINE s == LittleEndian(v, w)
  <1>1. s \in Seq(Octets) /\ Len(s) = w
    BY LittleEndianType
  <1>2. \A k \in 1 .. w : s[k] = (v \div Shift[k - 1]) % Radix
    BY DEF LittleEndian
  <1> HIDE DEF s
  <1> PICK value : /\ value \in [0 .. Len(s) -> Nat]
                   /\ value[0] = 0
                   /\ \A k \in 1 .. Len(s) : value[k] = value[k - 1] + s[k] * Shift[k - 1]
                   /\ LowEndianValue(s) = value[Len(s)]
    BY <1>1, ValueSteps
  <1> DEFINE S == {k \in 0 .. w : value[k] = v % Shift[k]}
  <1>3. 0 \in S
    <2>1. v % 1 = 0 /\ 0 \in 0 .. w
      OBVIOUS
    <2> QED BY <2>1, ShiftSteps
  <1>4. \A k \in 0 .. w - 1 : k \in S => k + 1 \in S
    <2> SUFFICES ASSUME NEW k \in 0 .. w - 1, value[k] = v % Shift[k]
                 PROVE  value[k + 1] = v % Shift[k + 1] /\ k + 1 \in 0 .. w
      OBVIOUS
    <2>1. k + 1 \in 1 .. w /\ (k + 1) - 1 = k /\ k \in Nat /\ k + 1 \in 0 .. w
      OBVIOUS
    <2>2. value[k + 1] = value[k] + ((v \div Shift[k]) % Radix) * Shift[k]
      BY <1>1, <1>2, <2>1
    <2>3. Shift[k] \in Nat \ {0} /\ Shift[k + 1] = Radix * Shift[k]
      BY <2>1, ShiftSteps
    <2>4. v % (Radix * Shift[k]) = (v % Shift[k]) + ((v \div Shift[k]) % Radix) * Shift[k]
      <3>1. Radix \in Nat \ {0}
        BY RadixAssumption
      <3> QED BY <2>3, <3>1, RemainderOfProduct, Zenon
    <2>5. value[k + 1] = v % (Radix * Shift[k])
      BY <2>2, <2>4, Zenon
    <2> QED BY <2>1, <2>3, <2>5
  <1>5. w \in S
    <2>1. 0 .. w \subseteq S
      <3> HIDE DEF S
      <3> QED BY <1>3, <1>4, UpTo
    <2> QED BY <2>1
  <1> QED BY <1>1, <1>5 DEF s

\* A kind of integer has an octet at least, and a value.
LEMMA LimitPositive ==
  ASSUME NEW kind \in Kinds
  PROVE  Width[kind] \in Nat \ {0} /\ Limit(kind) \in Nat \ {0}
  BY WidthsAssumption, ShiftSteps DEF Limit

\* The kinds a message is made of.
LEMMA KindsAre == \A kind \in {"u8", "u16", "u32", "u64"} : kind \in Kinds
  BY DEF Kinds
-----------------------------------------------------------------------------
(* Fields, read one after the other                                         *)

ReadField(v, kind) ==
    IF v.thrown THEN v ELSE IF kind = "string" THEN parseString(v) ELSE parseInteger(v, kind)

\* The recursion of ParseFields, as IsFold is that of a sum.
IsReading(v, kinds, n, fold) ==
    fold = [p \in SUBSET (1 .. n) |->
              IF p = {} THEN v ELSE ReadField(fold[p \ {Max(p)}], kinds[Max(p)])]

\* Some function obeys the recursion up to any number of fields.
LEMMA ReadingExists ==
  ASSUME NEW v, NEW kinds, NEW n \in Nat
  PROVE  \E fold : IsReading(v, kinds, n, fold)
  <1> DEFINE S == {k \in Nat : \E fold : IsReading(v, kinds, k, fold)}
  <1>1. 0 \in S
    <2> DEFINE fold == [p \in SUBSET (1 .. 0) |-> v]
    <2>1. \A p \in SUBSET (1 .. 0) : p = {}
      OBVIOUS
    <2>2. fold = [p \in SUBSET (1 .. 0) |->
              IF p = {} THEN v ELSE ReadField(fold[p \ {Max(p)}], kinds[Max(p)])]
      BY <2>1
    <2> QED BY <2>2 DEF IsReading
  <1>2. ASSUME NEW k \in Nat, k \in S PROVE k + 1 \in S
    <2>1. PICK f : IsReading(v, kinds, k, f)
      BY <1>2
    <2> DEFINE last == k + 1
               fold == [p \in SUBSET (1 .. last) |->
                          IF last \in p THEN ReadField(f[p \ {last}], kinds[last]) ELSE f[p]]
    <2>2. ASSUME NEW p \in SUBSET (1 .. last)
          PROVE  fold[p] = IF p = {} THEN v
                           ELSE ReadField(fold[p \ {Max(p)}], kinds[Max(p)])
      <3>1. CASE last \in p
        <4>1. Max(p) = last
          <5>1. Max(p) \in 1 .. last /\ last <= Max(p)
            <6>1. last \in Nat /\ p # {}
              BY <3>1
            <6> HIDE DEF last
            <6> QED BY <3>1, <6>1, LastPlace
          <5> QED BY <5>1
        <4>2. p \ {last} \in SUBSET (1 .. last) /\ last \notin p \ {last}
          OBVIOUS
        <4>3. fold[p \ {last}] = f[p \ {last}]
          BY <4>2
        <4>4. fold[p] = ReadField(f[p \ {last}], kinds[last])
          BY <3>1
        <4> HIDE DEF fold, last
        <4> QED BY <3>1, <4>1, <4>3, <4>4
      <3>2. CASE last \notin p /\ p # {}
        <4>1. p \in SUBSET (1 .. k)
          BY <3>2
        <4>2. f[p] = ReadField(f[p \ {Max(p)}], kinds[Max(p)])
          <5>1. f[p] = IF p = {} THEN v ELSE ReadField(f[p \ {Max(p)}], kinds[Max(p)])
            BY <2>1, <4>1, Zenon DEF IsReading
          <5> QED BY <3>2, <5>1
        <4>3. fold[p] = f[p] /\ fold[p \ {Max(p)}] = f[p \ {Max(p)}]
          BY <3>2
        <4> HIDE DEF fold, last
        <4> QED BY <3>2, <4>2, <4>3
      <3>3. CASE p = {}
        <4>1. f[{}] = v
          <5>1. {} \in SUBSET (1 .. k)
            OBVIOUS
          <5> QED BY <2>1, <5>1, Zenon DEF IsReading
        <4>2. fold[p] = f[{}]
          BY <3>3
        <4> HIDE DEF fold, last
        <4> QED BY <3>3, <4>1, <4>2
      <3> QED BY <3>1, <3>2, <3>3
    <2>3. IsReading(v, kinds, last, fold)
      <3>1. fold = [p \in SUBSET (1 .. last) |-> fold[p]]
        BY Zenon
      <3> HIDE DEF fold
      <3> QED BY <2>2, <3>1, Zenon DEF IsReading
    <2> QED BY <2>3
  <1>3. Nat \subseteq S
    <2> HIDE DEF S
    <2> QED BY <1>1, <1>2, SetInduction
  <1> QED BY <1>3

\* The views while fields are read: views[k] is what k fields leave.
LEMMA ParseSteps ==
  ASSUME NEW v, NEW n \in Nat, NEW kinds, DOMAIN kinds = 1 .. n
  PROVE  \E views : /\ views[0] = v
                    /\ \A k \in 1 .. n : views[k] = ReadField(views[k - 1], kinds[k])
                    /\ ParseFields(v, kinds) = views[n]
  <1> DEFINE fold == CHOOSE f : f = [p \in SUBSET (DOMAIN kinds) |->
                       IF p = {} THEN v ELSE ReadField(f[p \ {Max(p)}], kinds[Max(p)])]
             views == [k \in 0 .. n |-> fold[1 .. k]]
  <1>1. ParseFields(v, kinds) = fold[DOMAIN kinds]
    BY Zenon DEF ParseFields, FoldLeft, MapThenFoldSet, ReadField
  <1>2. fold = [p \in SUBSET (DOMAIN kinds) |->
                  IF p = {} THEN v ELSE ReadField(fold[p \ {Max(p)}], kinds[Max(p)])]
    <2>1. \E f : f = [p \in SUBSET (DOMAIN kinds) |->
                  IF p = {} THEN v ELSE ReadField(f[p \ {Max(p)}], kinds[Max(p)])]
      <3> PICK f : IsReading(v, kinds, n, f)
        BY ReadingExists
      <3> QED BY Zenon DEF IsReading
    <2> QED BY <2>1, Zenon
  <1> HIDE DEF fold
  <1>3. fold[1 .. 0] = v
    <2>1. 1 .. 0 = {} /\ {} \in SUBSET (DOMAIN kinds)
      OBVIOUS
    <2>2. fold[{}] = IF {} = {} THEN v ELSE ReadField(fold[{} \ {Max({})}], kinds[Max({})])
      BY <1>2, <2>1, Zenon
    <2> QED BY <2>1, <2>2
  <1>4. ASSUME NEW k \in 1 .. n
        PROVE  fold[1 .. k] = ReadField(fold[1 .. k - 1], kinds[k])
    <2>1. k \in Nat /\ k # 0 /\ k \in 1 .. k /\ \A i \in 1 .. k : i \in 1 .. n
      OBVIOUS
    <2>2. 1 .. k # {} /\ 1 .. k \in SUBSET (DOMAIN kinds)
      BY <2>1, Zenon
    <2>3. fold[1 .. k] = IF 1 .. k = {} THEN v
                         ELSE ReadField(fold[(1 .. k) \ {Max(1 .. k)}], kinds[Max(1 .. k)])
      BY <1>2, <2>2, Zenon
    <2>4. Max(1 .. k) = k /\ (1 .. k) \ {k} = 1 .. k - 1
      BY <2>1, LastOfAll
    <2> QED BY <2>2, <2>3, <2>4
  <1>5. views[0] = v /\ views[n] = ParseFields(v, kinds)
    BY <1>1, <1>3
  <1>6. ASSUME NEW k \in 1 .. n PROVE views[k] = ReadField(views[k - 1], kinds[k])
    <2>1. k \in 0 .. n /\ k - 1 \in 0 .. n
      OBVIOUS
    <2>2. views[k] = fold[1 .. k] /\ views[k - 1] = fold[1 .. k - 1]
      BY <2>1, Zenon
    <2> HIDE DEF views
    <2> QED BY <1>4, <2>2
  <1> HIDE DEF views
  <1> QED BY <1>5, <1>6

-----------------------------------------------------------------------------
(* What is read from octets that hold it                                    *)

Values == Nat \cup Seq(Octets)

Views == [rest : Seq(Octets), values : Seq(Values), thrown : BOOLEAN, beyond : BOOLEAN]

\* What is left of the octets behind place p.
Rest(octets, p) == SubSeq(octets, p + 1, Len(octets))

\* The octets, read up to place p, with the values vs.
At(octets, p, vs) ==
    [rest |-> Rest(octets, p), values |-> vs, thrown |-> FALSE, beyond |-> FALSE]

\* The rest is the octets from there on.
LEMMA RestIs ==
  ASSUME NEW octets \in Seq(Octets), NEW p \in 0 .. Len(octets)
  PROVE  /\ Rest(octets, p) \in Seq(Octets)
         /\ Len(Rest(octets, p)) = Len(octets) - p
         /\ \A j \in 1 .. Len(octets) - p : Rest(octets, p)[j] = octets[p + j]
  <1> DEFINE n == Len(octets)
             rest == SubSeq(octets, p + 1, n)
  <1>1. n \in Nat /\ p + 1 \in Int /\ \A i \in p + 1 .. n : octets[i] \in Octets
    OBVIOUS
  <1>2. /\ rest \in Seq(Octets)
        /\ Len(rest) = IF p + 1 <= n THEN n - (p + 1) + 1 ELSE 0
        /\ \A j \in 1 .. n - (p + 1) + 1 : rest[j] = octets[p + 1 + j - 1]
    BY <1>1, SubSeqProperties
  <1>3. n - (p + 1) + 1 = n - p
    BY <1>1
  <1>4. \A j \in 1 .. n - p : p + 1 + j - 1 = p + j
    BY <1>1
  <1> HIDE DEF n, rest
  <1>5. Len(rest) = n - p
    BY <1>1, <1>2 DEF n
  <1> QED BY <1>2, <1>3, <1>4, <1>5, Zenon DEF n, rest, Rest

\* Octets are taken from the rest.
LEMMA RestAfter ==
  ASSUME NEW octets \in Seq(Octets), NEW p \in 0 .. Len(octets),
         NEW n \in 0 .. Len(octets) - p, NEW q, q = p + n
  PROVE  /\ SubSeq(Rest(octets, p), n + 1, Len(Rest(octets, p))) = Rest(octets, q)
         /\ q \in 0 .. Len(octets)
  <1> DEFINE rest == Rest(octets, p)
             left == Rest(rest, n)
             same == Rest(octets, q)
  <1>1. /\ rest \in Seq(Octets) /\ Len(rest) = Len(octets) - p
        /\ \A j \in 1 .. Len(octets) - p : rest[j] = octets[p + j]
    BY RestIs
  <1> HIDE DEF rest
  <1>2. n \in 0 .. Len(rest) /\ q \in 0 .. Len(octets)
    BY <1>1
  <1>3. /\ left \in Seq(Octets) /\ Len(left) = Len(rest) - n
        /\ \A j \in 1 .. Len(rest) - n : left[j] = rest[n + j]
    BY <1>1, <1>2, RestIs
  <1>4. /\ same \in Seq(Octets) /\ Len(same) = Len(octets) - q
        /\ \A j \in 1 .. Len(octets) - q : same[j] = octets[q + j]
    BY <1>2, RestIs
  <1> HIDE DEF left, same
  <1>5. Len(left) = Len(same) /\ \A j \in 1 .. Len(left) : left[j] = same[j]
    <2>1. Len(left) = Len(octets) - p - n /\ Len(same) = Len(left)
      BY <1>1, <1>3, <1>4
    <2>2. ASSUME NEW j \in 1 .. Len(left) PROVE left[j] = same[j]
      <3>1. n + j \in 1 .. Len(octets) - p /\ p + (n + j) = q + j
        BY <2>1
      <3>2. left[j] = octets[p + (n + j)]
        BY <1>1, <1>3, <2>1, <3>1
      <3> QED BY <1>4, <2>1, <3>1, <3>2
    <2> QED BY <2>1, <2>2
  <1>6. left = same
    BY <1>3, <1>4, <1>5, SeqEqual
  <1> QED BY <1>2, <1>6 DEF left, same, rest, Rest

\* What stands there is the beginning of the rest.
LEMMA RestBegins ==
  ASSUME NEW octets \in Seq(Octets), NEW p \in 0 .. Len(octets),
         NEW s \in Seq(Octets), StandsAt(octets, p, s)
  PROVE  /\ Len(s) \in 0 .. Len(octets) - p /\ Len(s) <= Len(Rest(octets, p))
         /\ SubSeq(Rest(octets, p), 1, Len(s)) = s
         /\ \A i \in 1 .. Len(s) : i <= Len(Rest(octets, p)) /\ Rest(octets, p)[i] = s[i]
  <1> DEFINE rest == Rest(octets, p)
             front == SubSeq(rest, 1, Len(s))
  <1>1. /\ rest \in Seq(Octets) /\ Len(rest) = Len(octets) - p
        /\ \A j \in 1 .. Len(octets) - p : rest[j] = octets[p + j]
    BY RestIs
  <1>2. Len(s) \in Nat /\ Len(s) <= Len(rest) /\ Len(s) \in 0 .. Len(octets) - p
    BY <1>1 DEF StandsAt
  <1>3. ASSUME NEW i \in 1 .. Len(s) PROVE rest[i] = s[i] /\ i <= Len(rest)
    BY <1>1, <1>2 DEF StandsAt
  <1> HIDE DEF rest
  <1>4. front = s
    <2>1. \A i \in 1 .. Len(s) : rest[i] \in Octets
      BY <1>3
    <2>2. /\ front \in Seq(Octets)
          /\ Len(front) = IF 1 <= Len(s) THEN Len(s) - 1 + 1 ELSE 0
          /\ \A i \in 1 .. Len(s) - 1 + 1 : front[i] = rest[1 + i - 1]
      BY <1>2, <2>1, SubSeqProperties
    <2> HIDE DEF front
    <2>3. Len(front) = Len(s)
      BY <1>2, <2>2
    <2>4. \A i \in 1 .. Len(s) : front[i] = s[i]
      BY <1>2, <1>3, <2>2
    <2> QED BY <2>2, <2>3, <2>4, SeqEqual
  <1> QED BY <1>2, <1>3, <1>4 DEF rest, front

\* The last value appended is the last one there is.
LEMMA AppendedLast ==
  ASSUME NEW vs \in Seq(Values), NEW x \in Values
  PROVE  /\ Append(vs, x) \in Seq(Values)
         /\ Last(Append(vs, x)) = x
         /\ Front(Append(vs, x)) = vs
  <1> DEFINE t == Append(vs, x)
             n == Len(vs)
  <1>1. /\ t \in Seq(Values) /\ n \in Nat /\ Len(t) = n + 1
        /\ t[n + 1] = x /\ \A i \in 1 .. n : t[i] = vs[i]
    OBVIOUS
  <1> HIDE DEF t
  <1>2. Last(t) = x
    BY <1>1 DEF Last
  <1>3. Front(t) = vs
    <2> DEFINE f == SubSeq(t, 1, Len(t) - 1)
    <2>1. Len(t) - 1 = n /\ \A i \in 1 .. n : t[i] \in Values
      BY <1>1
    <2>2. /\ f \in Seq(Values) /\ Len(f) = IF 1 <= n THEN n - 1 + 1 ELSE 0
          /\ \A i \in 1 .. n - 1 + 1 : f[i] = t[1 + i - 1]
      BY <1>1, <2>1, SubSeqProperties
    <2> HIDE DEF f
    <2>3. Len(f) = n /\ \A i \in 1 .. n : f[i] = vs[i]
      BY <1>1, <2>2
    <2>4. f = vs
      BY <2>2, <2>3, SeqEqual
    <2> QED BY <2>4 DEF f, Front
  <1> QED BY <1>1, <1>2, <1>3 DEF t

\* The parts of such a view,
LEMMA AtIs ==
  ASSUME NEW octets \in Seq(Octets), NEW p \in 0 .. Len(octets), NEW vs \in Seq(Values)
  PROVE  /\ At(octets, p, vs) \in Views
         /\ At(octets, p, vs).rest = Rest(octets, p)
         /\ At(octets, p, vs).values = vs
         /\ At(octets, p, vs).thrown = FALSE
         /\ At(octets, p, vs).beyond = FALSE
  <1>1. Rest(octets, p) \in Seq(Octets)
    BY RestIs
  <1> QED BY <1>1 DEF At, Views

\* which make it what it is.
LEMMA IsAt ==
  ASSUME NEW octets, NEW p, NEW vs, NEW v \in Views,
         v.rest = Rest(octets, p), v.values = vs, v.thrown = FALSE, v.beyond = FALSE
  PROVE  v = At(octets, p, vs)
  <1>1. v = [rest |-> v.rest, values |-> v.values, thrown |-> v.thrown, beyond |-> v.beyond]
    BY DEF Views
  <1> QED BY <1>1, Zenon DEF At

\* A number below the modulus is its own remainder.
LEMMA WithinModulus ==
  ASSUME NEW n \in Nat, NEW x \in 0 .. n - 1
  PROVE  x % n = x
  OBVIOUS

\* An integer is read as it was written.
LEMMA ReadInteger ==
  ASSUME NEW octets \in Seq(Octets), NEW p \in 0 .. Len(octets), NEW vs \in Seq(Values),
         NEW kind \in Kinds, NEW x \in 0 .. Limit(kind) - 1,
         StandsAt(octets, p, LittleEndian(x, Width[kind])),
         NEW q, q = p + Width[kind]
  PROVE  /\ parseInteger(At(octets, p, vs), kind) = At(octets, q, Append(vs, x))
         /\ q \in 0 .. Len(octets)
  <1> PICK w : w = Width[kind]
    OBVIOUS
  <1> PICK s : s = LittleEndian(x, w)
    OBVIOUS
  <1> PICK rest : rest = Rest(octets, p)
    OBVIOUS
  <1> PICK v : v = At(octets, p, vs)
    OBVIOUS
  <1> PICK newVs : newVs = Append(vs, x)
    OBVIOUS
  <1> PICK newRest : newRest = SubSeq(rest, w + 1, Len(rest))
    OBVIOUS
  <1>1. w \in Nat /\ Limit(kind) \in Nat /\ x \in Nat /\ Limit(kind) = Shift[w]
    BY LimitPositive DEF Limit
  <1>2. s \in Seq(Octets) /\ Len(s) = w
    BY <1>1, LittleEndianType
  <1>3. LowEndianValue(s) = x
    <2>1. LowEndianValue(s) = x % Shift[w]
      BY <1>1, IntegerRoundTrip
    <2>2. x % Shift[w] = x
      <3> PICK limit : limit = Shift[w]
        OBVIOUS
      <3>1. limit \in Nat /\ x \in 0 .. limit - 1
        BY <1>1
      <3>2. x % limit = x
        BY <3>1, WithinModulus
      <3> QED BY <3>2
    <2> QED BY <2>1, <2>2
  <1>4. w \in 0 .. Len(octets) - p /\ w <= Len(rest) /\ SubSeq(rest, 1, w) = s
    <2>1. StandsAt(octets, p, s)
      OBVIOUS
    <2>2. /\ Len(s) \in 0 .. Len(octets) - p /\ Len(s) <= Len(Rest(octets, p))
          /\ SubSeq(Rest(octets, p), 1, Len(s)) = s
      BY <1>2, <2>1, RestBegins
    <2> QED BY <1>2, <2>2
  <1>5. newRest = Rest(octets, q) /\ q \in 0 .. Len(octets)
    BY <1>4, RestAfter
  <1>6. Outside \notin ToSet(s)
    <2>1. ASSUME NEW i \in DOMAIN s PROVE s[i] # Outside
      <3>1. s[i] \in Octets
        BY <1>2
      <3> QED BY <3>1, RadixAssumption DEF Octets, Outside
    <2> QED BY <2>1 DEF ToSet
  <1>7. Len(rest) \in Nat /\ ~(Len(rest) < w)
    <2>1. rest \in Seq(Octets)
      BY RestIs
    <2>2. w <= Len(rest)
      BY <1>4, Zenon
    <2>l. PICK l : l = Len(rest)
      OBVIOUS
    <2>3. l \in Nat /\ w <= l
      BY <2>1, <2>2, <2>l
    <2>4. ~(l < w)
      BY <1>1, <2>3
    <2> QED BY <2>3, <2>4, <2>l, Zenon
  <1>8. /\ v \in Views /\ v.rest = rest /\ v.values = vs
        /\ v.thrown = FALSE /\ v.beyond = FALSE
    BY AtIs
  <1>9. newRest \in Seq(Octets) /\ newVs \in Seq(Values)
    BY <1>1, <1>5, RestIs, AppendedLast DEF Values
  <1> PICK u : u = parseInteger(v, kind)
    OBVIOUS
  <1>10. u = [v EXCEPT !.values = newVs, !.rest = newRest]
    BY <1>3, <1>4, <1>6, <1>7, <1>8, Zenon DEF parseInteger
  <1>11. /\ u \in Views /\ u.rest = newRest /\ u.values = newVs
         /\ u.thrown = FALSE /\ u.beyond = FALSE
    BY <1>8, <1>9, <1>10 DEF Views
  <1>12. u = At(octets, q, newVs)
    BY <1>5, <1>11, IsAt
  <1> QED BY <1>5, <1>12

\* What is appended to a row in the octets stands behind it.
LEMMA StandsBehind ==
  ASSUME NEW octets \in Seq(Octets), NEW p \in Nat, NEW s \in Seq(Octets),
         NEW t \in Seq(Octets), StandsAt(octets, p, s \o t)
  PROVE  StandsAt(octets, p, s) /\ StandsAt(octets, p + Len(s), t)
  <1> DEFINE st == s \o t
             m == Len(s)
             n == Len(t)
  <1>1. /\ m \in Nat /\ n \in Nat /\ Len(st) = m + n
        /\ \A i \in 1 .. m + n : st[i] = IF i <= m THEN s[i] ELSE t[i - m]
    BY ConcatProperties
  <1>2. p + (m + n) <= Len(octets) /\ \A j \in 1 .. m + n : octets[p + j] = st[j]
    BY <1>1 DEF StandsAt
  <1>3. Len(octets) \in Nat
    OBVIOUS
  <1> HIDE DEF st, m, n
  <1>4. StandsAt(octets, p, s)
    <2>1. p + m <= Len(octets)
      BY <1>1, <1>2, <1>3
    <2>2. ASSUME NEW j \in 1 .. m PROVE octets[p + j] = s[j]
      <3>1. j \in 1 .. m + n /\ j <= m
        BY <1>1
      <3> QED BY <1>1, <1>2, <3>1
    <2> QED BY <2>1, <2>2 DEF StandsAt, m
  <1>5. StandsAt(octets, p + m, t)
    <2>1. p + m + n <= Len(octets)
      BY <1>1, <1>2, <1>3
    <2>2. ASSUME NEW j \in 1 .. n PROVE octets[p + m + j] = t[j]
      <3>1. m + j \in 1 .. m + n /\ ~(m + j <= m) /\ (m + j) - m = j /\ p + (m + j) = p + m + j
        BY <1>1
      <3>2. octets[p + (m + j)] = st[m + j] /\ st[m + j] = t[(m + j) - m]
        BY <1>1, <1>2, <3>1
      <3> QED BY <3>1, <3>2
    <2> QED BY <2>1, <2>2 DEF StandsAt, n
  <1> QED BY <1>4, <1>5 DEF m

\* Taking the n octets of s leaves a view of what is behind them.
Takes(octets, p, vs, s, n, q) ==
    /\ extractDataView(At(octets, p, vs), n) = At(octets, q, Append(vs, s))
    /\ q \in 0 .. Len(octets)

\* Octets that are there are taken as they are.
LEMMA Take ==
  ASSUME NEW octets \in Seq(Octets), NEW p \in 0 .. Len(octets), NEW vs \in Seq(Values),
         NEW s \in Seq(Octets), StandsAt(octets, p, s),
         NEW n, n = Len(s), NEW q, q = p + n
  PROVE  Takes(octets, p, vs, s, n, q)
  <1> PICK rest : rest = Rest(octets, p)
    OBVIOUS
  <1> PICK v : v = At(octets, p, vs)
    OBVIOUS
  <1> PICK newVs : newVs = Append(vs, s)
    OBVIOUS
  <1> PICK newRest : newRest = SubSeq(rest, n + 1, Len(rest))
    OBVIOUS
  <1>1. /\ n \in 0 .. Len(octets) - p /\ n <= Len(rest)
        /\ \A i \in 1 .. n : i <= Len(rest) /\ rest[i] = s[i]
    BY RestBegins
  <1>2. [i \in 1 .. n |-> IF i <= Len(rest) THEN rest[i] ELSE Outside] = s
    <2>1. s = [i \in 1 .. n |-> s[i]]
      OBVIOUS
    <2> QED BY <1>1, <2>1
  <1>3. newRest = Rest(octets, q) /\ q \in 0 .. Len(octets)
    BY <1>1, RestAfter
  <1>4. /\ v \in Views /\ v.rest = rest /\ v.values = vs
        /\ v.thrown = FALSE /\ v.beyond = FALSE
    BY AtIs
  <1>5. newRest \in Seq(Octets) /\ newVs \in Seq(Values)
    BY <1>3, RestIs, AppendedLast DEF Values
  <1>6. (n > Len(rest)) = FALSE
    BY <1>1, RestIs
  <1> PICK u : u = extractDataView(v, n)
    OBVIOUS
  <1> DEFINE beyond == v.beyond \/ n > Len(rest)
  <1>7. u = [v EXCEPT !.values = newVs, !.rest = newRest, !.beyond = beyond]
    BY <1>2, <1>4, Zenon DEF extractDataView, beyond
  <1>8. beyond = FALSE
    BY <1>4, <1>6
  <1> HIDE DEF beyond
  <1>9. /\ u \in Views /\ u.rest = newRest /\ u.values = newVs
        /\ u.thrown = FALSE /\ u.beyond = FALSE
    <2>1. beyond \in BOOLEAN
      BY <1>8
    <2>2. /\ u \in Views /\ u.rest = newRest /\ u.values = newVs
          /\ u.thrown = v.thrown /\ u.beyond = beyond
      BY <1>4, <1>5, <1>7, <2>1 DEF Views
    <2> QED BY <1>4, <1>8, <2>2
  <1>10. u = At(octets, q, newVs)
    BY <1>3, <1>9, IsAt
  <1> QED BY <1>3, <1>10, Zenon DEF Takes

\* A parser takes the size it has read back from the values.
WithoutLast(v) == [v EXCEPT !.values = Front(@)]

\* Without its last value the view is as before it.
TakesBack(octets, p, vs, longer) == WithoutLast(At(octets, p, longer)) = At(octets, p, vs)

\* The size just read is taken back from the values.
LEMMA SizeTaken ==
  ASSUME NEW octets \in Seq(Octets), NEW p \in 0 .. Len(octets), NEW vs \in Seq(Values),
         NEW x \in Values, NEW longer, longer = Append(vs, x)
  PROVE  TakesBack(octets, p, vs, longer)
  <1> PICK v : v = At(octets, p, longer)
    OBVIOUS
  <1>1. longer \in Seq(Values) /\ Front(longer) = vs
    BY AppendedLast
  <1>2. /\ v \in Views /\ v.rest = Rest(octets, p) /\ v.values = longer
        /\ v.thrown = FALSE /\ v.beyond = FALSE
    BY <1>1, AtIs
  <1> PICK u : u = WithoutLast(v)
    OBVIOUS
  <1>3. u = [v EXCEPT !.values = vs]
    BY <1>1, <1>2, Zenon DEF WithoutLast
  <1>4. /\ u \in Views /\ u.rest = v.rest /\ u.values = vs
        /\ u.thrown = v.thrown /\ u.beyond = v.beyond
    BY <1>2, <1>3 DEF Views
  <1>5. u = At(octets, p, vs)
    BY <1>2, <1>4, IsAt
  <1> QED BY <1>5, Zenon DEF TakesBack

\* From p to q there are the octets s with their size in front.
SizedAt(octets, p, kind, s, q) ==
    /\ Len(s) < Limit(kind)
    /\ StandsAt(octets, p, LittleEndian(Len(s), Width[kind]))
    /\ StandsAt(octets, p + Width[kind], s)
    /\ q = p + Width[kind] + Len(s)

\* The size can be read and the octets be taken.
SizeFits(octets, w, s, q, vs) ==
    /\ w.thrown = FALSE
    /\ Last(w.values) = Len(s)
    /\ Len(s) <= Len(w.rest) /\ Len(w.rest) \in Nat
    /\ extractDataView(WithoutLast(w), Len(s)) = At(octets, q, Append(vs, s))
    /\ q \in 0 .. Len(octets)

\* The steps of parseString and SizedView.
LEMMA TakeSized ==
  ASSUME NEW octets \in Seq(Octets), NEW p \in 0 .. Len(octets), NEW vs \in Seq(Values),
         NEW kind \in Kinds, NEW s \in Seq(Octets), NEW q, SizedAt(octets, p, kind, s, q)
  PROVE  SizeFits(octets, parseInteger(At(octets, p, vs), kind), s, q, vs)
  <1> PICK n : n = Len(s)
    OBVIOUS
  <1> PICK at : at = p + Width[kind]
    OBVIOUS
  <1> PICK size : size = LittleEndian(n, Width[kind])
    OBVIOUS
  <1> PICK longer : longer = Append(vs, n)
    OBVIOUS
  <1> PICK w : w = parseInteger(At(octets, p, vs), kind)
    OBVIOUS
  <1>1. /\ Width[kind] \in Nat /\ Limit(kind) \in Nat /\ n \in Nat
        /\ n \in 0 .. Limit(kind) - 1 /\ q = at + n
    BY LimitPositive DEF SizedAt
  <1>2. StandsAt(octets, p, size) /\ StandsAt(octets, at, s)
    BY DEF SizedAt
  <1>3. w = At(octets, at, longer) /\ at \in 0 .. Len(octets)
    BY <1>1, <1>2, ReadInteger
  <1>4. n \in Values /\ longer \in Seq(Values) /\ Last(longer) = n
    <2>1. n \in Values
      BY <1>1 DEF Values
    <2> QED BY <2>1, AppendedLast
  <1>5. w.thrown = FALSE /\ w.values = longer /\ w.rest = Rest(octets, at)
    <2>1. /\ At(octets, at, longer).thrown = FALSE /\ At(octets, at, longer).values = longer
          /\ At(octets, at, longer).rest = Rest(octets, at)
      BY <1>3, <1>4, AtIs
    <2> QED BY <1>3, <2>1
  <1>6. n <= Len(w.rest) /\ Len(w.rest) \in Nat
    <2>1. n <= Len(Rest(octets, at))
      BY <1>2, <1>3, RestBegins
    <2>2. Rest(octets, at) \in Seq(Octets)
      BY <1>3, RestIs
    <2> QED BY <1>5, <2>1, <2>2
  <1>7. WithoutLast(w) = At(octets, at, vs)
    <2>1. at \in 0 .. Len(octets) /\ longer = Append(vs, n) /\ n \in Values
      BY <1>3, <1>4, Zenon
    <2>2. TakesBack(octets, at, vs, longer)
      BY <2>1, SizeTaken, Zenon
    <2> QED BY <1>3, <2>2, Zenon DEF TakesBack
  <1>8. /\ extractDataView(WithoutLast(w), n) = At(octets, q, Append(vs, s))
        /\ q \in 0 .. Len(octets)
    <2>1. Takes(octets, at, vs, s, n, q)
      BY <1>1, <1>2, <1>3, Take, Zenon
    <2> QED BY <1>7, <2>1, Zenon DEF Takes
  <1> QED BY <1>4, <1>5, <1>6, <1>8 DEF SizeFits

\* A string is read as it was written.
LEMMA ReadString ==
  ASSUME NEW octets \in Seq(Octets), NEW p \in 0 .. Len(octets), NEW vs \in Seq(Values),
         NEW s \in Seq(Octets), Len(s) < Limit("u16"),
         StandsAt(octets, p, LittleEndian(Len(s), Width["u16"]) \o s),
         NEW q, q = p + Width["u16"] + Len(s)
  PROVE  /\ parseString(At(octets, p, vs)) = At(octets, q, Append(vs, s))
         /\ q \in 0 .. Len(octets)
  <1> PICK v : v = At(octets, p, vs)
    OBVIOUS
  <1> PICK w : w = parseInteger(v, "u16")
    OBVIOUS
  <1> PICK size : size = LittleEndian(Len(s), Width["u16"])
    OBVIOUS
  <1> PICK at : at = p + Width["u16"]
    OBVIOUS
  <1>1. "u16" \in Kinds /\ Len(s) \in Nat /\ Width["u16"] \in Nat
    BY KindsAre, LimitPositive
  <1>2. size \in Seq(Octets) /\ Len(size) = Width["u16"]
    BY <1>1, LittleEndianType
  <1>3. StandsAt(octets, p, size) /\ StandsAt(octets, at, s)
    <2>1. p \in Nat /\ StandsAt(octets, p, size \o s)
      OBVIOUS
    <2> QED BY <1>2, <2>1, StandsBehind
  <1>4. SizedAt(octets, p, "u16", s, q)
    BY <1>3 DEF SizedAt
  <1>5. SizeFits(octets, w, s, q, vs)
    BY <1>1, <1>4, TakeSized
  <1>6. Last(w.values) # Outside /\ (Last(w.values) > Len(w.rest)) = FALSE
    BY <1>1, <1>5 DEF SizeFits, Outside
  <1>7. parseString(v) = extractDataView(WithoutLast(w), Len(s))
    BY <1>5, <1>6, Zenon DEF parseString, WithoutLast, SizeFits
  <1> QED BY <1>5, <1>7 DEF SizeFits

\* And so are octets behind their size.
LEMMA ReadSized ==
  ASSUME NEW octets \in Seq(Octets), NEW p \in 0 .. Len(octets), NEW vs \in Seq(Values),
         NEW kind \in Kinds, NEW s \in Seq(Octets), NEW q, SizedAt(octets, p, kind, s, q)
  PROVE  /\ SizedView(At(octets, p, vs), kind) = At(octets, q, Append(vs, s))
         /\ q \in 0 .. Len(octets)
  <1> PICK v : v = At(octets, p, vs)
    OBVIOUS
  <1> PICK w : w = parseInteger(v, kind)
    OBVIOUS
  <1>1. SizeFits(octets, w, s, q, vs)
    BY TakeSized
  <1>2. Last(w.values) # Outside
    BY <1>1 DEF SizeFits, Outside
  <1>3. SizedView(v, kind) = extractDataView(WithoutLast(w), Len(s))
    BY <1>1, <1>2, Zenon DEF SizedView, WithoutLast, SizeFits
  <1> QED BY <1>1, <1>3 DEF SizeFits

-----------------------------------------------------------------------------
(* Rows of fields *)

\* From p to q there is the encoding of a value of this kind.
FieldAt(octets, p, kind, x, q) ==
    \/ /\ kind = "string"
       /\ x \in Seq(Octets) /\ Len(x) < Limit("u16")
       /\ StandsAt(octets, p, LittleEndian(Len(x), Width["u16"]) \o x)
       /\ q = p + Width["u16"] + Len(x)
    \/ /\ kind \in Kinds
       /\ x \in 0 .. Limit(kind) - 1
       /\ StandsAt(octets, p, LittleEndian(x, Width[kind]))
       /\ q = p + Width[kind]

\* The view v is the octets read up to q, with the values vs.
ReadTo(v, octets, q, vs) ==
    /\ v = At(octets, q, vs)
    /\ q \in 0 .. Len(octets)
    /\ vs \in Seq(Values)

\* A parser reads the field that stands where it is and goes on behind it.
LEMMA ReadOne ==
  ASSUME NEW octets \in Seq(Octets), NEW p, NEW vs, NEW v, ReadTo(v, octets, p, vs),
         NEW kind, NEW x, NEW q, FieldAt(octets, p, kind, x, q)
  PROVE  ReadTo(ReadField(v, kind), octets, q, Append(vs, x))
  <1>1. p \in 0 .. Len(octets) /\ vs \in Seq(Values) /\ v = At(octets, p, vs)
    BY DEF ReadTo
  <1>2. v.thrown = FALSE
    <2>1. At(octets, p, vs).thrown = FALSE
      BY DEF At
    <2> QED BY <1>1, <2>1
  <1>3. CASE /\ kind = "string"
             /\ x \in Seq(Octets) /\ Len(x) < Limit("u16")
             /\ StandsAt(octets, p, LittleEndian(Len(x), Width["u16"]) \o x)
             /\ q = p + Width["u16"] + Len(x)
    <2>1. parseString(At(octets, p, vs)) = At(octets, q, Append(vs, x)) /\ q \in 0 .. Len(octets)
      BY <1>1, <1>3, ReadString
    <2>2. ReadField(v, kind) = parseString(v)
      BY <1>2, <1>3, Zenon DEF ReadField
    <2>3. Append(vs, x) \in Seq(Values)
      BY <1>1, <1>3 DEF Values
    <2> QED BY <1>1, <2>1, <2>2, <2>3 DEF ReadTo
  <1>4. CASE /\ kind \in Kinds
             /\ x \in 0 .. Limit(kind) - 1
             /\ StandsAt(octets, p, LittleEndian(x, Width[kind]))
             /\ q = p + Width[kind]
    <2>1. parseInteger(At(octets, p, vs), kind) = At(octets, q, Append(vs, x))
          /\ q \in 0 .. Len(octets)
      BY <1>1, <1>4, ReadInteger
    <2>2. kind # "string"
      BY <1>4 DEF Kinds
    <2>3. ReadField(v, kind) = parseInteger(v, kind)
      BY <1>2, <2>2, Zenon DEF ReadField
    <2>4. Append(vs, x) \in Seq(Values)
      <3>1. Limit(kind) \in Nat
        BY <1>4, LimitPositive
      <3>2. x \in Values
        BY <1>4, <3>1 DEF Values
      <3> QED BY <1>1, <3>2
    <2> QED BY <1>1, <2>1, <2>3, <2>4 DEF ReadTo
  <1> QED BY <1>3, <1>4, Zenon DEF FieldAt

\* n values of these kinds stand at the places at, each behind the other.
RowAt(octets, at, n, kinds, values) ==
    \A k \in 1 .. n : FieldAt(octets, at[k - 1], kinds[k], values[k], at[k])

\* The first n values of a row.
Until(values, n) == [i \in 1 .. n |-> values[i]]

\* Of no values, and of one more.
LEMMA UntilNone == \A values : Until(values, 0) = <<>>
  <1> TAKE values
  <1> PICK t : t = Until(values, 0)
    OBVIOUS
  <1>1. t \in Seq(Nat) /\ Len(t) = 0
    BY DEF Until
  <1> QED BY <1>1

\* A value read behind the others makes one more of the row.
LEMMA UntilNext ==
  ASSUME NEW vs \in Seq(Values), NEW k \in Nat \ {0}, NEW values,
         vs \o Until(values, k - 1) \in Seq(Values)
  PROVE  Append(vs \o Until(values, k - 1), values[k]) = vs \o Until(values, k)
  <1> DEFINE before == Until(values, k - 1)
             upto == Until(values, k)
             V == {values[i] : i \in 1 .. k}
             U == Values \cup V
  <1>1. /\ before \in Seq(U) /\ Len(before) = k - 1
        /\ \A i \in 1 .. k - 1 : before[i] = values[i]
    BY DEF Until
  <1>2. /\ upto \in Seq(U) /\ Len(upto) = k
        /\ \A i \in 1 .. k : upto[i] = values[i]
    BY DEF Until
  <1>3. vs \in Seq(U) /\ Len(vs) \in Nat /\ values[k] \in U
    OBVIOUS
  <1> DEFINE left == Append(vs \o before, values[k])
             right == vs \o upto
  <1> HIDE DEF before, upto, V, U
  <1>4. /\ left \in Seq(U) /\ Len(left) = Len(vs) + k
        /\ \A i \in 1 .. Len(vs) + k :
             left[i] = IF i <= Len(vs) THEN vs[i] ELSE IF i = Len(vs) + k THEN values[k]
                       ELSE before[i - Len(vs)]
    BY <1>1, <1>3
  <1>5. /\ right \in Seq(U) /\ Len(right) = Len(vs) + k
        /\ \A i \in 1 .. Len(vs) + k :
             right[i] = IF i <= Len(vs) THEN vs[i] ELSE upto[i - Len(vs)]
    BY <1>2, <1>3
  <1> HIDE DEF left, right
  <1>6. \A i \in 1 .. Len(vs) + k : left[i] = right[i]
    <2> TAKE i \in 1 .. Len(vs) + k
    <2>1. CASE i <= Len(vs)
      BY <1>4, <1>5, <2>1
    <2>2. CASE i > Len(vs)
      <3> PICK j : j = i - Len(vs)
        OBVIOUS
      <3>1. j \in 1 .. k /\ ~(i <= Len(vs)) /\ (i = Len(vs) + k <=> j = k)
            /\ (j # k => j \in 1 .. k - 1)
        BY <1>3, <2>2
      <3>2. right[i] = upto[j] /\ upto[j] = values[j]
        BY <1>2, <1>5, <3>1
      <3>3. left[i] = IF j = k THEN values[k] ELSE before[j]
        BY <1>4, <3>1
      <3>4. left[i] = values[j]
        BY <1>1, <3>1, <3>3
      <3> QED BY <3>2, <3>4
    <2> QED BY <1>3, <2>1, <2>2
  <1>7. left = right
    BY <1>3, <1>4, <1>5, <1>6, SeqEqual
  <1> QED BY <1>7 DEF left, right, before, upto

\* Fields are read one after the other.
LEMMA ReadRow ==
  ASSUME NEW octets \in Seq(Octets), NEW n \in Nat, NEW at, NEW kinds, DOMAIN kinds = 1 .. n,
         NEW values, RowAt(octets, at, n, kinds, values),
         NEW vs, NEW v, ReadTo(v, octets, at[0], vs)
  PROVE  ReadTo(ParseFields(v, kinds), octets, at[n], vs \o Until(values, n))
  <1> PICK views : /\ views[0] = v
                   /\ \A k \in 1 .. n : views[k] = ReadField(views[k - 1], kinds[k])
                   /\ ParseFields(v, kinds) = views[n]
    BY ParseSteps
  <1> DEFINE S == {k \in 0 .. n : ReadTo(views[k], octets, at[k], vs \o Until(values, k))}
  <1>1. 0 \in S
    <2>1. vs \o Until(values, 0) = vs
      <3>1. vs \in Seq(Values)
        BY DEF ReadTo
      <3>2. Until(values, 0) = <<>>
        BY UntilNone
      <3> QED BY <3>1, <3>2
    <2>2. ReadTo(views[0], octets, at[0], vs \o Until(values, 0))
      BY <2>1
    <2> QED BY <2>2
  <1>2. ASSUME NEW k \in 0 .. n - 1, k \in S PROVE k + 1 \in S
    <2> PICK m : m = k + 1
      OBVIOUS
    <2>1. m \in 1 .. n /\ m - 1 = k /\ m \in Nat \ {0}
      OBVIOUS
    <2>2. ReadTo(views[k], octets, at[k], vs \o Until(values, k))
      BY <1>2
    <2>3. FieldAt(octets, at[k], kinds[m], values[m], at[m]) /\ views[m] = ReadField(views[k], kinds[m])
      BY <2>1 DEF RowAt
    <2>4. ReadTo(views[m], octets, at[m], Append(vs \o Until(values, k), values[m]))
      <3> PICK before : before = vs \o Until(values, k)
        OBVIOUS
      <3>1. ReadTo(views[k], octets, at[k], before)
        BY <2>2
      <3>2. ReadTo(ReadField(views[k], kinds[m]), octets, at[m], Append(before, values[m]))
        BY <2>3, <3>1, ReadOne
      <3> QED BY <2>3, <3>2
    <2>5. Append(vs \o Until(values, k), values[m]) = vs \o Until(values, m)
      <3>1. vs \in Seq(Values) /\ vs \o Until(values, m - 1) \in Seq(Values)
        BY <2>1, <2>2 DEF ReadTo
      <3>2. Append(vs \o Until(values, m - 1), values[m]) = vs \o Until(values, m)
        BY <2>1, <3>1, UntilNext
      <3> QED BY <2>1, <3>2
    <2>6. m \in 0 .. n
      BY <2>1
    <2> QED BY <2>4, <2>5, <2>6
  <1>3. n \in S
    <2> HIDE DEF S
    <2>1. 0 .. n \subseteq S
      BY <1>1, <1>2, UpTo
    <2> QED BY <2>1
  <1> QED BY <1>3

\* A view whose values are set aside.
WithoutValues(v) == [v EXCEPT !.values = <<>>]

\* Setting the values aside leaves the place in the octets.
LEMMA Emptied ==
  ASSUME NEW octets \in Seq(Octets), NEW p, NEW vs, NEW v, ReadTo(v, octets, p, vs)
  PROVE  ReadTo(WithoutValues(v), octets, p, <<>>)
  <1>1. p \in 0 .. Len(octets) /\ vs \in Seq(Values) /\ v = At(octets, p, vs)
    BY DEF ReadTo
  <1>2. /\ v \in Views /\ v.rest = Rest(octets, p)
        /\ v.thrown = FALSE /\ v.beyond = FALSE
    BY <1>1, AtIs
  <1> PICK none : none = <<>>
    OBVIOUS
  <1> PICK u : u = WithoutValues(v)
    OBVIOUS
  <1>3. none \in Seq(Values)
    OBVIOUS
  <1>4. u = [v EXCEPT !.values = none]
    BY Zenon DEF WithoutValues
  <1>5. /\ u \in Views /\ u.rest = v.rest /\ u.values = none
        /\ u.thrown = v.thrown /\ u.beyond = v.beyond
    BY <1>2, <1>3, <1>4 DEF Views
  <1>6. u.rest = Rest(octets, p) /\ u.thrown = FALSE /\ u.beyond = FALSE
    BY <1>2, <1>5
  <1>7. u = At(octets, p, none)
    BY <1>5, <1>6, IsAt
  <1> QED BY <1>1, <1>3, <1>7 DEF ReadTo

\* The octets before anything is read of them.
LEMMA ReadNothing ==
  ASSUME NEW octets \in Seq(Octets)
  PROVE  ReadTo(View(octets), octets, 0, <<>>)
  <1>1. Rest(octets, 0) = octets
    <2>1. /\ Rest(octets, 0) \in Seq(Octets) /\ Len(Rest(octets, 0)) = Len(octets)
          /\ \A j \in 1 .. Len(octets) : Rest(octets, 0)[j] = octets[j]
      <3>1. 0 \in 0 .. Len(octets) /\ Len(octets) \in Nat
        OBVIOUS
      <3>2. /\ Rest(octets, 0) \in Seq(Octets)
            /\ Len(Rest(octets, 0)) = Len(octets) - 0
            /\ \A j \in 1 .. Len(octets) - 0 : Rest(octets, 0)[j] = octets[0 + j]
        BY <3>1, RestIs
      <3>3. Len(octets) - 0 = Len(octets) /\ \A j \in 1 .. Len(octets) : 0 + j = j
        BY <3>1
      <3> QED BY <3>2, <3>3
    <2> PICK rest : rest = Rest(octets, 0)
      OBVIOUS
    <2>2. /\ rest \in Seq(Octets) /\ Len(rest) = Len(octets)
          /\ \A j \in 1 .. Len(rest) : rest[j] = octets[j]
      BY <2>1
    <2>3. rest = octets
      BY <2>2, SeqEqual
    <2> QED BY <2>3
  <1>2. View(octets) = At(octets, 0, <<>>)
    BY <1>1, Zenon DEF View, At
  <1> QED BY <1>2 DEF ReadTo

\* The values of what is read.
LEMMA ReadValues ==
  ASSUME NEW octets, NEW p, NEW v, NEW vs, ReadTo(v, octets, p, vs)
  PROVE  v.values = vs /\ v.thrown = FALSE /\ v.rest = Rest(octets, p)
  <1>1. v = At(octets, p, vs)
    BY DEF ReadTo
  <1>2. /\ At(octets, p, vs).values = vs /\ At(octets, p, vs).thrown = FALSE
        /\ At(octets, p, vs).rest = Rest(octets, p)
    BY DEF At
  <1> QED BY <1>1, <1>2

\* One field is read.
LEMMA ReadSingle ==
  ASSUME NEW octets \in Seq(Octets), NEW p, NEW vs, NEW v, ReadTo(v, octets, p, vs),
         NEW kind, NEW x, NEW q, FieldAt(octets, p, kind, x, q)
  PROVE  ReadTo(ParseFields(v, <<kind>>), octets, q, Append(vs, x))
  <1> PICK at : at = [k \in 0 .. 1 |-> IF k = 0 THEN p ELSE q]
    OBVIOUS
  <1> PICK kinds : kinds = <<kind>>
    OBVIOUS
  <1> PICK values : values = <<x>>
    OBVIOUS
  <1>1. at[0] = p /\ at[1] = q /\ DOMAIN kinds = 1 .. 1 /\ kinds[1] = kind /\ values[1] = x
    OBVIOUS
  <1>2. RowAt(octets, at, 1, kinds, values)
    BY <1>1 DEF RowAt
  <1>3. ReadTo(ParseFields(v, kinds), octets, at[1], vs \o Until(values, 1))
    BY <1>1, <1>2, ReadRow
  <1>4. vs \o Until(values, 1) = Append(vs, x)
    <2>1. vs \in Seq(Values)
      BY DEF ReadTo
    <2>2. vs \o Until(values, 0) = vs
      <3>1. Until(values, 0) = <<>>
        BY UntilNone
      <3> QED BY <2>1, <3>1
    <2>3. 1 \in Nat \ {0} /\ 1 - 1 = 0
      OBVIOUS
    <2>4. Append(vs \o Until(values, 1 - 1), values[1]) = vs \o Until(values, 1)
      <3>1. vs \o Until(values, 1 - 1) \in Seq(Values)
        BY <2>1, <2>2, <2>3
      <3> QED BY <2>1, <2>3, <3>1, UntilNext
    <2> QED BY <1>1, <2>2, <2>3, <2>4
  <1> QED BY <1>1, <1>3, <1>4

\* Octets behind their size are read.
LEMMA ReadSizedTo ==
  ASSUME NEW octets \in Seq(Octets), NEW p, NEW vs, NEW v, ReadTo(v, octets, p, vs),
         NEW kind \in Kinds, NEW s \in Seq(Octets), NEW q, SizedAt(octets, p, kind, s, q)
  PROVE  ReadTo(SizedView(v, kind), octets, q, Append(vs, s))
  <1>1. v = At(octets, p, vs) /\ p \in 0 .. Len(octets) /\ vs \in Seq(Values)
    BY DEF ReadTo
  <1>2. /\ SizedView(At(octets, p, vs), kind) = At(octets, q, Append(vs, s))
        /\ q \in 0 .. Len(octets)
    BY <1>1, ReadSized
  <1>3. Append(vs, s) \in Seq(Values)
    BY <1>1 DEF Values
  <1> QED BY <1>1, <1>2, <1>3 DEF ReadTo

-----------------------------------------------------------------------------
(* A view of the rest                                                       *)

\* What stands behind a place stands in the rest behind it.
LEMMA StandsInRest ==
  ASSUME NEW octets \in Seq(Octets), NEW b \in 0 .. Len(octets), NEW p \in Nat,
         NEW s \in Seq(Octets), StandsAt(octets, b + p, s)
  PROVE  StandsAt(Rest(octets, b), p, s)
  <1> PICK rest : rest = Rest(octets, b)
    OBVIOUS
  <1>1. /\ Len(rest) = Len(octets) - b /\ Len(octets) \in Nat
        /\ \A j \in 1 .. Len(octets) - b : rest[j] = octets[b + j]
    <2>1. /\ Len(Rest(octets, b)) = Len(octets) - b
          /\ \A j \in 1 .. Len(octets) - b : Rest(octets, b)[j] = octets[b + j]
      BY RestIs
    <2> QED BY <2>1
  <1>2. (b + p) + Len(s) <= Len(octets) /\ \A j \in 1 .. Len(s) : octets[(b + p) + j] = s[j]
    BY DEF StandsAt
  <1>3. p + Len(s) <= Len(rest)
    BY <1>1, <1>2
  <1>4. ASSUME NEW j \in 1 .. Len(s) PROVE rest[p + j] = s[j]
    <2>1. p + j \in 1 .. Len(octets) - b /\ b + (p + j) = (b + p) + j
      BY <1>1, <1>2
    <2> QED BY <1>1, <1>2, <2>1
  <1> QED BY <1>3, <1>4 DEF StandsAt

\* A field that stands in the octets stands in what is left of them.
LEMMA FieldInRest ==
  ASSUME NEW octets \in Seq(Octets), NEW b \in 0 .. Len(octets), NEW p \in Nat, NEW q \in Nat,
         NEW kind, NEW x, FieldAt(octets, b + p, kind, x, b + q)
  PROVE  FieldAt(Rest(octets, b), p, kind, x, q)
  <1>1. CASE /\ kind = "string"
             /\ x \in Seq(Octets) /\ Len(x) < Limit("u16")
             /\ StandsAt(octets, b + p, LittleEndian(Len(x), Width["u16"]) \o x)
             /\ b + q = b + p + Width["u16"] + Len(x)
    <2> PICK size : size = LittleEndian(Len(x), Width["u16"])
      OBVIOUS
    <2>1. size \in Seq(Octets)
      <3>1. Len(x) \in Nat /\ Width["u16"] \in Nat
        BY <1>1, KindsAre, LimitPositive
      <3> QED BY <3>1, LittleEndianType
    <2>2. size \o x \in Seq(Octets)
      BY <1>1, <2>1, ConcatProperties
    <2>3. StandsAt(Rest(octets, b), p, size \o x)
      BY <1>1, <2>2, StandsInRest
    <2>4. q = p + Width["u16"] + Len(x)
      <3>1. Width["u16"] \in Nat /\ Len(x) \in Nat
        BY <1>1, KindsAre, LimitPositive
      <3>2. b + q = b + p + Width["u16"] + Len(x)
        BY <1>1, Zenon
      <3>w. PICK w \in Nat, l \in Nat : w = Width["u16"] /\ l = Len(x)
        BY <3>1
      <3>3. b + q = b + p + w + l
        BY <3>2, <3>w, Zenon
      <3>4. q = p + w + l
        BY <3>3
      <3> QED BY <3>4, <3>w, Zenon
    <2> QED BY <1>1, <2>3, <2>4 DEF FieldAt
  <1>2. CASE /\ kind \in Kinds
             /\ x \in 0 .. Limit(kind) - 1
             /\ StandsAt(octets, b + p, LittleEndian(x, Width[kind]))
             /\ b + q = b + p + Width[kind]
    <2>1. Width[kind] \in Nat /\ x \in Nat
      BY <1>2, LimitPositive
    <2> PICK s : s = LittleEndian(x, Width[kind])
      OBVIOUS
    <2>2. s \in Seq(Octets)
      BY <2>1, LittleEndianType
    <2>3. StandsAt(Rest(octets, b), p, s)
      BY <1>2, <2>2, StandsInRest
    <2>4. q = p + Width[kind]
      BY <1>2, <2>1
    <2> QED BY <1>2, <2>3, <2>4 DEF FieldAt
  <1> QED BY <1>1, <1>2, Zenon DEF FieldAt

\* The view of a stat within the view it was read from.
Inner(w) == [w EXCEPT !.rest = Last(w.values), !.values = <<>>]

\* The inner view begins at the start of the octets it was given.
LEMMA ReadInner ==
  ASSUME NEW octets, NEW q, NEW s \in Seq(Octets), NEW w, NEW vs, vs = <<s>>,
         ReadTo(w, octets, q, vs)
  PROVE  ReadTo(Inner(w), s, 0, <<>>)
  <1>1. /\ w = [rest |-> Rest(octets, q), values |-> vs, thrown |-> FALSE, beyond |-> FALSE]
        /\ Last(w.values) = s
    <2>1. w = [rest |-> Rest(octets, q), values |-> vs, thrown |-> FALSE, beyond |-> FALSE]
      BY Zenon DEF ReadTo, At
    <2>2. w.values = vs
      BY ReadValues
    <2>3. Last(vs) = s
      BY DEF Last
    <2> QED BY <2>1, <2>2, <2>3
  <1> PICK none : none = <<>>
    OBVIOUS
  <1>2. Inner(w) = [w EXCEPT !.rest = s, !.values = none]
    BY <1>1, Zenon DEF Inner
  <1>3. Inner(w) = [rest |-> s, values |-> none, thrown |-> FALSE, beyond |-> FALSE]
    BY <1>1, <1>2
  <1>4. Inner(w) = View(s)
    BY <1>3, Zenon DEF View
  <1> QED BY <1>4, ReadNothing

\* A qid is a row of kinds.
LEMMA QidKinds == Qid \in Seq(Kinds \cup {"string"})
  BY KindsAre DEF Qid

\* A stat is a row of kinds.
LEMMA StatKinds == Stat \in Seq(Kinds \cup {"string"})
  <1>1. /\ <<"u16", "u32">> \in Seq(Kinds \cup {"string"})
        /\ <<"u32", "u32", "u32", "u64">> \in Seq(Kinds \cup {"string"})
        /\ <<"string", "string", "string", "string">> \in Seq(Kinds \cup {"string"})
    BY KindsAre
  <1> QED BY <1>1, QidKinds DEF Stat
=============================================================================
