--------------------------- MODULE TxMessageProofs ---------------------------
(***************************************************************************)
(* Theorems about TxMessage, for every octet and width, every buffer and   *)
(* every row of calls of the build functions.                              *)
(***************************************************************************)
EXTENDS TxMessage, MessageReaderProofs

-----------------------------------------------------------------------------
(* Numbers                                                                  *)

\* p counts x from b.
Counts(p, x, b) == p \in Nat /\ x = b + p

\* A difference is a natural number that gives back what it was taken from.
LEMMA Subtracted ==
  ASSUME NEW x \in Nat, NEW b \in Nat, x >= b, NEW p, p = x - b
  PROVE  Counts(p, x, b)
  BY DEF Counts

\* The sum of two natural numbers is one.
LEMMA SumNat == \A a, b \in Nat : a + b \in Nat
  OBVIOUS

\* What stands before an end is no longer than the room.
LEMMA Inside ==
  ASSUME NEW a \in Nat, NEW l \in Nat, NEW b, b = a + l, NEW n \in Nat, b <= n,
         NEW room \in Nat, n <= room
  PROVE  l <= room
  OBVIOUS

\* It is below what the room is below.
LEMMA BelowLimit ==
  ASSUME NEW l \in Nat, NEW room \in Nat, l <= room, NEW limit \in Nat, room < limit
  PROVE  l < limit
  OBVIOUS

\* b is l behind a.
Behind(b, a, l) == b = a + l

\* What takes two parts takes the second behind the first.
LEMMA SecondPart ==
  ASSUME NEW w \in Nat, NEW l \in Nat, NEW a \in Nat, NEW s, s = w + l, NEW b, b = a + s
  PROVE  Behind(b, a + w, l)
  BY DEF Behind

\* What takes one more than n takes n behind the next place.
LEMMA OneMore ==
  ASSUME NEW c \in Nat, NEW n \in Nat, NEW l, l = n + 1, NEW b, b = c + l, NEW q, q = c + 1
  PROVE  Behind(b, q, n)
  BY DEF Behind

\* A place that steps by a width and a size stays ahead of a counter.
LEMMA StepsUp ==
  ASSUME NEW i \in Nat, NEW a \in Nat, i <= a, NEW w \in Nat \ {0}, NEW size \in Nat,
         NEW b, b = a + (w + size), NEW k, k = i + 1
  PROVE  k <= b
  OBVIOUS

\* Sums behind a place add up.
LEMMA AddOn ==
  ASSUME NEW b \in Nat, NEW s \in Nat, NEW f \in Nat, NEW a, a = b + s, NEW d, d = a + f,
         NEW t, t = s + f
  PROVE  Behind(d, b, t)
  BY DEF Behind

-----------------------------------------------------------------------------
(* The fields of a message                                                  *)

WireFields == [kind : Kinds, value : Nat]
                  \cup [kind : {"string", "raw"}, value : Seq(Octets)]

Sizes(fields) == [i \in DOMAIN fields |-> FieldSize(fields[i])]

\* A value and its kind make a field.
LEMMA FieldTyped ==
  ASSUME NEW kind \in Kinds \cup {"string"}, NEW value \in Argument(kind)
  PROVE  Field(kind, value) \in WireFields
  <1>1. CASE kind = "string"
    BY <1>1 DEF Argument, Field, WireFields
  <1>2. CASE kind # "string"
    <2>1. value \in Nat /\ kind \in Kinds
      BY <1>2, LimitPositive DEF Argument
    <2> QED BY <2>1 DEF Field, WireFields
  <1> QED BY <1>1, <1>2

\* So do a row of values and their kinds.
LEMMA FieldsTyped ==
  ASSUME NEW kinds \in Seq(Kinds \cup {"string"}), NEW values, Arguments(kinds, values)
  PROVE  FieldsOf(kinds, values) \in Seq(WireFields)
  <1>1. \A i \in 1 .. Len(kinds) : Field(kinds[i], values[i]) \in WireFields
    BY FieldTyped DEF Arguments
  <1> QED BY <1>1 DEF FieldsOf

\* The size of a field.
LEMMA FieldSizeType ==
  ASSUME NEW f \in WireFields
  PROVE  FieldSize(f) \in Nat
  <1>1. CASE f \in [kind : Kinds, value : Nat]
    <2>1. f.kind \in Kinds /\ f.kind # "raw" /\ f.kind # "string"
      BY <1>1 DEF Kinds
    <2> QED BY <2>1, LimitPositive DEF FieldSize, EncodedSize
  <1>2. CASE f \in [kind : {"string", "raw"}, value : Seq(Octets)]
    <2>1. Len(f.value) \in Nat /\ f.kind \in {"string", "raw"}
      BY <1>2
    <2>2. Width["u16"] \in Nat
      BY KindsAre, LimitPositive
    <2> QED BY <2>1, <2>2 DEF FieldSize, EncodedSize
  <1> QED BY <1>1, <1>2 DEF WireFields

\* The sizes of a row of fields are a row of naturals.
LEMMA SizesType ==
  ASSUME NEW fields \in Seq(WireFields)
  PROVE  Sizes(fields) \in Seq(Nat) /\ Len(Sizes(fields)) = Len(fields)
  BY FieldSizeType DEF Sizes

\* A row of fields takes what its first and its others take.
LEMMA SizesSteps ==
  ASSUME NEW fields \in Seq(WireFields)
  PROVE  /\ Total(Sizes(fields)) \in Nat
         /\ fields # <<>> => Total(Sizes(fields)) =
                               FieldSize(Head(fields)) + Total(Sizes(Tail(fields)))
  <1>1. Total(Sizes(fields)) \in Nat
    BY SizesType, TotalSteps
  <1>2. ASSUME fields # <<>>
        PROVE  Total(Sizes(fields)) = FieldSize(Head(fields)) + Total(Sizes(Tail(fields)))
    <2>1. Sizes(fields) \in Seq(Nat) /\ Sizes(fields) # <<>>
      BY <1>2, SizesType
    <2>2. Head(Sizes(fields)) = FieldSize(Head(fields))
      BY <1>2 DEF Sizes
    <2>3. Tail(Sizes(fields)) = Sizes(Tail(fields))
      BY <1>2, <2>1 DEF Sizes
    <2> QED BY <2>1, <2>2, <2>3, TotalSteps
  <1> QED BY <1>1, <1>2

\* FullLength is the sum of those sizes.
LEMMA LengthIsTotal ==
  ASSUME NEW m
  PROVE  FullLength(m) = Width["u32"] + Width["u8"] + Total(Sizes(BuildFields(m)))
  BY Zenon DEF FullLength, Total, Sizes

Types == {"TVersion", "TAuth", "TAttach", "TFlush", "TWalk", "TOpen", "TCreate", "TRead",
          "TWrite", "TClunk", "TRemove", "TStat", "TWStat"}

\* The T-messages by name.
LEMMA TypesAre == Range(RequestNames) \ {"none"} = Types
  BY DEF Range, RequestNames, Types

\* What a build function writes as it is has a kind each.
LEMMA ArgKindsType ==
  ASSUME NEW type \in Types
  PROVE  ArgKinds(type) \in Seq(Kinds \cup {"string"})
  <1> DEFINE K == Kinds \cup {"string"}
  <1>1. "u8" \in K /\ "u16" \in K /\ "u32" \in K /\ "u64" \in K /\ "string" \in K
    BY KindsAre
  <1> HIDE DEF K
  <1>2. /\ <<"u16", "u32", "string">> \in Seq(K)
        /\ <<"u16", "u32", "string", "string">> \in Seq(K)
        /\ <<"u16", "u16">> \in Seq(K)
        /\ <<"u16", "u32", "u32", "string", "string">> \in Seq(K)
        /\ <<"u16", "u32">> \in Seq(K)
        /\ <<"u16", "u32", "string", "u32", "u8">> \in Seq(K)
        /\ <<"u16", "u32", "u64", "u32">> \in Seq(K)
        /\ <<"u16", "u32", "u32">> \in Seq(K)
        /\ <<"u16", "u32", "u64">> \in Seq(K)
    BY <1>1
  <1>3. ArgKinds(type) \in Seq(K)
    BY <1>2, Zenon DEF ArgKinds, Types
  <1> QED BY <1>3 DEF K

\* The octet of a file mode.
LEMMA EncodeType ==
  ASSUME NEW mode \in FileModes
  PROVE  encode(mode) \in Nat
  <1>1. encodeFileModeAccess(mode.access) \in 0 .. 3
    BY DEF FileModes, Range, Access, encodeFileModeAccess
  <1> QED BY <1>1 DEF encode, Flag, OTRUNC, ORCLOSE

\* The size in front of a stat.
LEMMA StatSizeType ==
  ASSUME NEW stat, Arguments(Stat, stat)
  PROVE  EncodedStatSize(stat) \in Nat
  <1> DEFINE sizes == [i \in DOMAIN Stat |-> EncodedSize(Stat[i], stat[i])]
  <1>1. ASSUME NEW i \in DOMAIN Stat PROVE EncodedSize(Stat[i], stat[i]) \in Nat
    <2>1. Stat[i] \in Kinds \cup {"string"} /\ stat[i] \in Argument(Stat[i])
      BY StatKinds DEF Arguments
    <2>2. Width["u16"] \in Nat
      BY KindsAre, LimitPositive
    <2> QED BY <2>1, <2>2, LimitPositive DEF EncodedSize, Argument
  <1>2. sizes \in Seq(Nat)
    BY <1>1, StatKinds
  <1>3. EncodedStatSize(stat) = Total(sizes)
    BY Zenon DEF EncodedStatSize, Total
  <1> HIDE DEF sizes
  <1> QED BY <1>2, <1>3, TotalSteps

\* What is narrowed to a kind can be written as that kind.
LEMMA NarrowType ==
  ASSUME NEW n \in Nat, NEW kind \in Kinds
  PROVE  Narrow(n, kind) \in Nat /\ Field(kind, Narrow(n, kind)) \in WireFields
  <1>1. Narrow(n, kind) \in Nat
    BY LimitPositive DEF Narrow
  <1> QED BY <1>1 DEF Field, WireFields

\* A build function writes fields.
LEMMA BuildFieldsType ==
  ASSUME NEW m, Call(m)
  PROVE  BuildFields(m) \in Seq(WireFields)
  <1> DEFINE fixed == FieldsOf(ArgKinds(m.type), m.args)
             last == Last(m.args)
  <1>1. m.type \in Types
    BY TypesAre DEF Call
  <1>2. fixed \in Seq(WireFields)
    <2>1. Arguments(ArgKinds(m.type), m.args)
      BY DEF Call
    <2> QED BY <1>1, <2>1, ArgKindsType, FieldsTyped
  <1>3. m.type \in {"TWalk", "TOpen", "TWrite", "TWStat"} => LastArgument(m.type, last)
    BY DEF Call
  <1> HIDE DEF fixed, last
  <1>4. CASE m.type = "TWalk"
    <2>1. last \in Seq(Seq(Octets))
      BY <1>3, <1>4 DEF LastArgument
    <2>2. <<Field("u16", Narrow(Len(last), "u16"))>> \in Seq(WireFields)
      BY <2>1, KindsAre, NarrowType
    <2>3. [i \in DOMAIN last |-> Field("string", last[i])] \in Seq(WireFields)
      <3>1. \A i \in 1 .. Len(last) : Field("string", last[i]) \in WireFields
        BY <2>1 DEF Field, WireFields
      <3> QED BY <2>1, <3>1
    <2>4. BuildFields(m) = fixed \o <<Field("u16", Narrow(Len(last), "u16"))>>
                                 \o [i \in DOMAIN last |-> Field("string", last[i])]
      BY <1>4 DEF BuildFields, fixed, last
    <2> QED BY <1>2, <2>2, <2>3, <2>4
  <1>5. CASE m.type = "TOpen"
    <2>1. <<Field("u8", encode(last))>> \in Seq(WireFields)
      <3>1. last \in FileModes
        BY <1>3, <1>5 DEF LastArgument
      <3> QED BY <3>1, EncodeType, KindsAre DEF Field, WireFields
    <2>2. BuildFields(m) = fixed \o <<Field("u8", encode(last))>>
      BY <1>5 DEF BuildFields, fixed, last
    <2> QED BY <1>2, <2>1, <2>2
  <1>6. CASE m.type = "TWrite"
    <2>1. last \in Seq(Octets)
      BY <1>3, <1>6 DEF LastArgument
    <2>2. <<Field("u32", Narrow(Len(last), "u32")), Field("raw", last)>> \in Seq(WireFields)
      <3>1. Field("raw", last) \in WireFields
        BY <2>1 DEF Field, WireFields
      <3> QED BY <2>1, <3>1, KindsAre, NarrowType
    <2>3. BuildFields(m) =
            fixed \o <<Field("u32", Narrow(Len(last), "u32")), Field("raw", last)>>
      BY <1>6 DEF BuildFields, fixed, last
    <2> QED BY <1>2, <2>2, <2>3
  <1>7. CASE m.type = "TWStat"
    <2>1. Arguments(Stat, last)
      BY <1>3, <1>7 DEF LastArgument
    <2>2. <<Field("u16", Narrow(EncodedStatSize(last), "u16"))>> \in Seq(WireFields)
      BY <2>1, StatSizeType, KindsAre, NarrowType
    <2>3. FieldsOf(Stat, last) \in Seq(WireFields)
      BY <2>1, StatKinds, FieldsTyped
    <2>4. BuildFields(m) = fixed \o <<Field("u16", Narrow(EncodedStatSize(last), "u16"))>>
                                 \o FieldsOf(Stat, last)
      BY <1>7 DEF BuildFields, fixed, last
    <2> QED BY <1>2, <2>2, <2>3, <2>4
  <1>8. CASE m.type \notin {"TWalk", "TOpen", "TWrite", "TWStat"}
    <2>1. BuildFields(m) = fixed
      BY <1>8 DEF BuildFields, fixed
    <2> QED BY <1>2, <2>1
  <1> QED BY <1>4, <1>5, <1>6, <1>7, <1>8

-----------------------------------------------------------------------------
(* The buffer                                                               *)

\* What is written and what is still to be written is no longer than the
\* message.
Progress ==
    /\ todo \in Seq(WireFields)
    /\ request = NoRequest \/ view # <<>> => todo = <<>>
    /\ request # NoRequest => cursor + Total(Sizes(todo)) <= FullLength(request)

TxInv == TypeOK /\ Progress /\ SizeIsExact

\* The invariant holds of the buffer before the first message.
LEMMA InitTx == Init => TxInv
  <1> SUFFICES ASSUME Init PROVE TxInv
    OBVIOUS
  <1>1. mem \in [Addresses -> Octets]
    BY OldOctetAssumption DEF Init
  <1>2. cursor \in Width["u32"] .. Capacity + Beyond
    BY CapacityAssumption, KindsAre, LimitPositive DEF Init
  <1>3. request = NoRequest /\ todo = <<>> /\ view = <<>> /\ built = 0
    BY DEF Init
  <1>4. <<>> \in Seq(WireFields) /\ <<>> \in Seq(Octets)
    OBVIOUS
  <1> QED
    BY <1>1, <1>2, <1>3, <1>4, MaxMessagesIsNat DEF TxInv, TypeOK, Progress, SizeIsExact

\* The memory that has been written holds octets.
LEMMA WrittenType ==
  ASSUME mem \in [Addresses -> Octets], NEW a \in Nat, NEW s \in Seq(Octets)
  PROVE  Written(a, s) \in [Addresses -> Octets]
  <1>1. \A i \in Addresses : i \in a .. a + Len(s) - 1 => s[i - a + 1] \in Octets
    <2> SUFFICES ASSUME NEW i \in Addresses, i \in a .. a + Len(s) - 1
                 PROVE  s[i - a + 1] \in Octets
      OBVIOUS
    <2>1. i - a + 1 \in 1 .. Len(s)
      OBVIOUS
    <2> QED BY <2>1
  <1> QED BY <1>1 DEF Written

\* What fits the model's memory keeps the cursor in it.
LEMMA LengthInMemory ==
  ASSUME NEW m \in Requests
  PROVE  /\ Call(m)
         /\ FullLength(m) \in Nat
         /\ FullLength(m) <= Capacity + Beyond
  <1>1. Call(m) /\ FullLength(m) <= Capacity + Beyond
    BY RequestsAssumption
  <1>2. Total(Sizes(BuildFields(m))) \in Nat
    BY <1>1, BuildFieldsType, SizesSteps
  <1>3. Width["u32"] \in Nat /\ Width["u8"] \in Nat
    BY KindsAre, LimitPositive
  <1> QED BY <1>1, <1>2, <1>3, LengthIsTotal

\* A message begins.
LEMMA InitializeTx ==
  ASSUME TxInv, NEW m \in Requests, initialize(m)
  PROVE  TxInv'
  <1> DEFINE s == LittleEndian(RequestCode(m.type), Width["u8"])
             w == Width["u32"]
  <1>1. w \in Nat /\ Width["u8"] \in Nat
    BY KindsAre, LimitPositive
  <1>2. s \in Seq(Octets) /\ Len(s) = Width["u8"]
    <2>1. RequestCode(m.type) \in DOMAIN RequestNames
      <3>1. \E c \in DOMAIN RequestNames : RequestNames[c] = m.type
        BY LengthInMemory DEF Call, Range
      <3> QED BY <3>1 DEF RequestCode
    <2>2. RequestCode(m.type) \in Nat
      BY <2>1 DEF RequestNames
    <2> QED BY <1>1, <2>2, LittleEndianType
  <1>3. /\ request' = m /\ todo' = BuildFields(m) /\ mem' = Written(w, s)
        /\ cursor' = w + Len(s) /\ view' = <<>>
        /\ built < MaxMessages /\ built' = built + 1
    BY DEF initialize
  <1>4. BuildFields(m) \in Seq(WireFields) /\ Total(Sizes(BuildFields(m))) \in Nat
    BY LengthInMemory, BuildFieldsType, SizesSteps
  <1>5. cursor' + Total(Sizes(todo')) = FullLength(m)
    BY <1>1, <1>2, <1>3, <1>4, LengthIsTotal
  <1>6. mem' \in [Addresses -> Octets]
    BY <1>1, <1>2, <1>3, WrittenType DEF TxInv, TypeOK
  <1>7. cursor' \in w .. Capacity + Beyond
    <2> HIDE DEF w
    <2>1. cursor' \in Nat /\ cursor' >= w
      BY <1>1, <1>2, <1>3
    <2> QED BY <1>1, <1>3, <1>4, <1>5, <2>1, LengthInMemory, CapacityAssumption
  <1>8. TypeOK'
    <2>1. view' \in Seq(Octets) /\ built' \in 0 .. MaxMessages
      BY <1>3, MaxMessagesIsNat DEF TxInv, TypeOK
    <2> QED BY <1>3, <1>6, <1>7, <2>1 DEF TypeOK
  <1>9. Progress'
    <2>1. request' # NoRequest
      <3>1. m.type # "none"
        BY LengthInMemory DEF Call
      <3> QED BY <1>3, <3>1 DEF NoRequest
    <2>2. cursor' + Total(Sizes(todo')) <= FullLength(request')
      BY <1>3, <1>5, LengthInMemory
    <2> QED BY <1>3, <1>4, <2>1, <2>2 DEF Progress
  <1>10. SizeIsExact'
    BY <1>3 DEF SizeIsExact
  <1> QED BY <1>8, <1>9, <1>10 DEF TxInv

\* A field is written, or left out.
LEMMA WriteFieldTx ==
  ASSUME TxInv, todo # <<>>, todo' = Tail(todo), UNCHANGED <<request, view, built>>,
         NEW s \in Seq(Octets), Len(s) <= FieldSize(Head(todo)),
         Write(s) \/ UNCHANGED <<mem, cursor>>
  PROVE  TxInv'
  <1> DEFINE rest == Total(Sizes(Tail(todo)))
  <1>1. /\ todo \in Seq(WireFields) /\ Head(todo) \in WireFields
        /\ Tail(todo) \in Seq(WireFields)
    BY DEF TxInv, Progress
  <1>2. /\ rest \in Nat /\ FieldSize(Head(todo)) \in Nat
        /\ Total(Sizes(todo)) = FieldSize(Head(todo)) + rest
    BY <1>1, SizesSteps, FieldSizeType
  <1>3. request \in Requests /\ cursor + Total(Sizes(todo)) <= FullLength(request)
    BY DEF TxInv, TypeOK, Progress
  <1>4. FullLength(request) \in Nat /\ FullLength(request) <= Capacity + Beyond
    BY <1>3, LengthInMemory
  <1>5. Width["u32"] \in Nat /\ cursor \in Nat /\ cursor >= Width["u32"]
    BY KindsAre, LimitPositive DEF TxInv, TypeOK
  <1>6. cursor' \in {cursor, cursor + Len(s)}
    BY DEF Write
  <1>7. cursor' \in Nat /\ cursor <= cursor' /\ cursor' + rest <= FullLength(request)
    <2> HIDE DEF rest
    <2> QED BY <1>2, <1>3, <1>4, <1>5, <1>6
  <1>8. mem' \in [Addresses -> Octets]
    BY <1>5, WrittenType DEF TxInv, TypeOK, Write
  <1>9. TypeOK'
    <2>1. cursor' \in Width["u32"] .. Capacity + Beyond
      <3> HIDE DEF rest
      <3> QED BY <1>2, <1>4, <1>5, <1>7, CapacityAssumption
    <2> QED BY <1>8, <2>1 DEF TxInv, TypeOK
  <1>10. Progress'
    BY <1>1, <1>3, <1>7 DEF TxInv, Progress
  <1>11. SizeIsExact'
    BY DEF TxInv, SizeIsExact
  <1> QED BY <1>9, <1>10, <1>11 DEF TxInv

\* The size is written in front, and what is sent ends at the cursor.
LEMMA GetDataTx ==
  ASSUME TxInv, getData
  PROVE  TxInv'
  <1> DEFINE w == Width["u32"]
             s == LittleEndian(cursor, w)
  <1>1. w \in Nat \ {0} /\ Limit("u32") \in Nat \ {0}
    BY KindsAre, LimitPositive
  <1>2. cursor \in Nat /\ w <= cursor /\ cursor <= Capacity + Beyond
    BY <1>1, CapacityAssumption DEF TxInv, TypeOK
  <1>3. cursor < Limit("u32") /\ Narrow(cursor, "u32") = cursor
    <2>1. cursor < Limit("u32")
      <3> HIDE DEF w
      <3> QED BY <1>1, <1>2, CapacityAssumption
    <2>2. cursor % Limit("u32") = cursor
      BY <1>1, <1>2, <2>1
    <2> QED BY <2>1, <2>2 DEF Narrow
  <1>4. /\ mem' = Written(0, s)
        /\ view' = [i \in 1 .. cursor |-> mem'[i - 1]]
        /\ UNCHANGED <<cursor, todo, request, built>>
    BY <1>3 DEF getData
  <1>5. s \in Seq(Octets) /\ Len(s) = w
    BY <1>1, <1>2, LittleEndianType
  <1>6. LowEndianValue(s) = cursor
    <2>1. LowEndianValue(s) = cursor % Shift[w]
      BY <1>1, <1>2, IntegerRoundTrip
    <2> QED BY <1>3, <2>1 DEF Limit, Narrow
  <1> HIDE DEF s
  <1>7. mem' \in [Addresses -> Octets]
    BY <1>4, <1>5, WrittenType DEF TxInv, TypeOK
  <1>8. \A i \in 1 .. cursor : i - 1 \in Addresses
    BY <1>2, CapacityAssumption DEF Addresses
  <1>9. view' \in Seq(Octets) /\ Len(view') = cursor
    BY <1>2, <1>4, <1>7, <1>8
  <1>10. SubSeq(view', 1, w) = s
    <2>1. \A i \in 1 .. w : view'[i] = s[i]
      <3> TAKE i \in 1 .. w
      <3>1. i \in 1 .. cursor /\ i - 1 \in Addresses
        BY <1>1, <1>2, <1>8
      <3>2. i - 1 \in 0 .. 0 + Len(s) - 1 /\ (i - 1) - 0 + 1 = i
        BY <1>1, <1>5
      <3>3. Written(0, s)[i - 1] = s[(i - 1) - 0 + 1]
        BY <3>1, <3>2 DEF Written
      <3> QED BY <1>4, <3>1, <3>2, <3>3
    <2> HIDE DEF w
    <2> QED BY <1>1, <1>2, <1>5, <1>9, <2>1
  <1>11. SizeIsExact'
    BY <1>6, <1>9, <1>10 DEF SizeIsExact
  <1>12. TypeOK'
    BY <1>4, <1>7, <1>9 DEF TxInv, TypeOK
  <1>13. Progress'
    <2>1. todo = <<>>
      BY DEF getData
    <2> QED BY <1>4, <2>1 DEF TxInv, Progress
  <1> QED BY <1>11, <1>12, <1>13 DEF TxInv

\* Every step keeps the invariant.
LEMMA TxStep == TxInv /\ [Next]_vars => TxInv'
  <1> SUFFICES ASSUME TxInv, [Next]_vars PROVE TxInv'
    OBVIOUS
  <1>todo. todo \in Seq(WireFields)
    BY DEF TxInv, Progress
  <1>1. ASSUME NEW m \in Requests, initialize(m) PROVE TxInv'
    BY <1>1, InitializeTx
  <1>2. CASE writeInteger
    <2> DEFINE f == Head(todo)
               s == LittleEndian(f.value, Width[f.kind])
    <2>1. /\ todo # <<>> /\ f.kind \in Kinds /\ todo' = Tail(todo)
          /\ UNCHANGED <<request, view, built>> /\ Write(s)
      BY <1>2 DEF writeInteger, NextField
    <2>2. f \in WireFields
      BY <1>todo, <2>1
    <2>3. f.value \in Nat /\ f.kind # "string" /\ f.kind # "raw"
      BY <2>1, <2>2 DEF WireFields, Kinds
    <2>4. s \in Seq(Octets) /\ Len(s) = Width[f.kind]
      BY <2>1, <2>3, LimitPositive, LittleEndianType
    <2>5. FieldSize(f) = Width[f.kind]
      BY <2>3 DEF FieldSize, EncodedSize
    <2>6. Len(s) <= FieldSize(f)
      BY <2>1, <2>4, <2>5, LimitPositive
    <2> HIDE DEF s
    <2> QED BY <2>1, <2>4, <2>6, WriteFieldTx
  <1>3. CASE writeString
    <2> DEFINE f == Head(todo)
    <2> DEFINE size == LittleEndian(Len(f.value), Width["u16"])
               s == size \o f.value
    <2>1. /\ todo # <<>> /\ f.kind = "string" /\ todo' = Tail(todo)
          /\ UNCHANGED <<request, view, built>>
          /\ Write(s) \/ UNCHANGED <<mem, cursor>>
      BY <1>3 DEF writeString, NextField
    <2>2. f \in WireFields
      BY <1>todo, <2>1
    <2>3. f.value \in Seq(Octets)
      BY <2>1, <2>2, KindsAre DEF WireFields, Kinds
    <2>4. Width["u16"] \in Nat /\ Len(f.value) \in Nat
      BY <2>3, KindsAre, LimitPositive
    <2>5. size \in Seq(Octets) /\ Len(size) = Width["u16"]
      BY <2>4, LittleEndianType
    <2>6. s \in Seq(Octets) /\ Len(s) = Width["u16"] + Len(f.value)
      <3> HIDE DEF size
      <3> QED BY <2>3, <2>5 DEF s
    <2>7. FieldSize(f) = Width["u16"] + Len(f.value)
      BY <2>1 DEF FieldSize, EncodedSize
    <2> HIDE DEF s
    <2>8. Len(s) <= FieldSize(f)
      BY <2>4, <2>6, <2>7
    <2> QED BY <2>1, <2>6, <2>8, WriteFieldTx
  <1>4. CASE writeRawData
    <2> DEFINE f == Head(todo)
    <2>1. /\ todo # <<>> /\ f.kind = "raw" /\ todo' = Tail(todo)
          /\ UNCHANGED <<request, view, built>> /\ Write(f.value)
      BY <1>4 DEF writeRawData, NextField
    <2>2. f \in WireFields
      BY <1>todo, <2>1
    <2>3. f.value \in Seq(Octets)
      BY <2>1, <2>2 DEF WireFields, Kinds
    <2>4. Len(f.value) <= FieldSize(f)
      BY <2>1, <2>3 DEF FieldSize
    <2> QED BY <2>1, <2>3, <2>4, WriteFieldTx
  <1>5. CASE getData
    BY <1>5, GetDataTx
  <1>6. CASE Sent
    <2>1. <<>> \in Seq(Octets) /\ todo = <<>>
      BY <1>6 DEF Sent, TxInv, Progress
    <2> QED BY <1>6, <2>1 DEF Sent, TxInv, TypeOK, Progress, SizeIsExact
  <1>7. CASE UNCHANGED vars
    BY <1>7 DEF vars, TxInv, TypeOK, Progress, SizeIsExact
  <1> QED BY <1>1, <1>2, <1>3, <1>4, <1>5, <1>6, <1>7 DEF Next, Finished

\* The invariant holds throughout.
LEMMA TxAlways == Spec => []TxInv
  BY InitTx, TxStep, PTL DEF Spec

\* The cursor stays in the memory, and the buffer holds octets.
THEOREM TypeCorrect == Spec => []TypeOK
  <1>1. TxInv => TypeOK
    BY DEF TxInv
  <1> QED BY <1>1, TxAlways, PTL

\* A message that fits stays within the buffer at every one of its writes,
\* although no write looks for the end of it (TxMessage::writeString).
THEOREM WithinBufferAlways == Spec => []WithinBuffer
  <1>1. TxInv => WithinBuffer
    <2> SUFFICES ASSUME TxInv, request # NoRequest, FullLength(request) <= Capacity
                 PROVE  cursor <= Capacity
      BY DEF WithinBuffer, Fits
    <2>1. request \in Requests /\ cursor + Total(Sizes(todo)) <= FullLength(request)
      BY DEF TxInv, TypeOK, Progress
    <2>2. Total(Sizes(todo)) \in Nat
      BY SizesSteps DEF TxInv, Progress
    <2>3. cursor \in Int /\ FullLength(request) \in Nat
      BY <2>1, LengthInMemory DEF TxInv, TypeOK
    <2> QED BY <2>1, <2>2, <2>3, CapacityAssumption
  <1> QED BY <1>1, TxAlways, PTL

\* The size in front of any message is the number of octets sent, also when
\* strings were left out of it (TxMessage::getData).
THEOREM SizeIsExactAlways == Spec => []SizeIsExact
  <1>1. TxInv => SizeIsExact
    BY DEF TxInv
  <1> QED BY <1>1, TxAlways, PTL

-----------------------------------------------------------------------------
(* What stands in the buffer                                                *)

\* A memory as a row of octets.
Memory(m) == [i \in 1 .. Capacity + Beyond |-> m[i - 1]]

\* It has the octet of each address, counted from one.
LEMMA MemoryIs ==
  ASSUME NEW m \in [Addresses -> Octets]
  PROVE  /\ Memory(m) \in Seq(Octets) /\ Len(Memory(m)) = Capacity + Beyond
         /\ \A i \in 1 .. Capacity + Beyond : Memory(m)[i] = m[i - 1]
  <1>1. Capacity \in Nat /\ Beyond \in Nat
    BY CapacityAssumption
  <1>2. \A i \in 1 .. Capacity + Beyond : i - 1 \in Addresses
    BY <1>1 DEF Addresses
  <1>3. \A i \in 1 .. Capacity + Beyond : m[i - 1] \in Octets
    BY <1>2
  <1> QED BY <1>1, <1>3 DEF Memory

\* What is written stands there, and what stood elsewhere still does.
LEMMA WrittenStands ==
  ASSUME mem \in [Addresses -> Octets], NEW a \in Nat, NEW s \in Seq(Octets),
         a + Len(s) <= Capacity + Beyond
  PROVE  /\ StandsAt(Memory(Written(a, s)), a, s)
         /\ \A p \in Nat, t \in Seq(Octets) :
               /\ StandsAt(Memory(mem), p, t)
               /\ p + Len(t) <= a \/ a + Len(s) <= p
               => StandsAt(Memory(Written(a, s)), p, t)
  <1> PICK after : after = Memory(Written(a, s))
    OBVIOUS
  <1> PICK size : size = Capacity + Beyond
    OBVIOUS
  <1>1. size \in Nat /\ Addresses = 0 .. size - 1
    BY CapacityAssumption DEF Addresses
  <1>2. /\ Len(after) = size
        /\ \A i \in 1 .. size : after[i] = Written(a, s)[i - 1]
    BY WrittenType, MemoryIs
  <1>3. /\ Len(Memory(mem)) = size
        /\ \A i \in 1 .. size : Memory(mem)[i] = mem[i - 1]
    BY MemoryIs
  <1>4. \A i \in 0 .. size - 1 :
            Written(a, s)[i] = IF i \in a .. a + Len(s) - 1 THEN s[i - a + 1] ELSE mem[i]
    BY <1>1 DEF Written
  <1>5. StandsAt(after, a, s)
    <2>1. ASSUME NEW j \in 1 .. Len(s) PROVE after[a + j] = s[j]
      <3> PICK i : i = a + j - 1
        OBVIOUS
      <3>1. /\ a + j \in 1 .. size /\ (a + j) - 1 = i
            /\ i \in 0 .. size - 1 /\ i \in a .. a + Len(s) - 1 /\ i - a + 1 = j
        BY <1>1
      <3>2. after[a + j] = Written(a, s)[i] /\ Written(a, s)[i] = s[i - a + 1]
        BY <1>2, <1>4, <3>1
      <3> QED BY <3>1, <3>2
    <2> QED BY <1>2, <2>1 DEF StandsAt
  <1>6. ASSUME NEW p \in Nat, NEW t \in Seq(Octets), StandsAt(Memory(mem), p, t),
               p + Len(t) <= a \/ a + Len(s) <= p
        PROVE  StandsAt(after, p, t)
    <2>1. p + Len(t) <= size /\ \A j \in 1 .. Len(t) : Memory(mem)[p + j] = t[j]
      BY <1>3, <1>6 DEF StandsAt
    <2>2. ASSUME NEW j \in 1 .. Len(t) PROVE after[p + j] = t[j]
      <3> PICK i : i = p + j - 1
        OBVIOUS
      <3>1. /\ p + j \in 1 .. size /\ (p + j) - 1 = i
            /\ i \in 0 .. size - 1 /\ i \notin a .. a + Len(s) - 1
        BY <1>1, <1>6, <2>1
      <3>2. after[p + j] = Written(a, s)[i] /\ Written(a, s)[i] = mem[i]
        BY <1>2, <1>4, <3>1
      <3>3. Memory(mem)[p + j] = mem[i]
        BY <1>3, <3>1
      <3> QED BY <2>1, <3>2, <3>3
    <2> QED BY <1>2, <2>1, <2>2 DEF StandsAt
  <1> QED BY <1>5, <1>6

\* The octets of a field.
FieldOctets(f) ==
    CASE f.kind = "raw" -> f.value
      [] f.kind = "string" -> LittleEndian(Len(f.value), Width["u16"]) \o f.value
      [] OTHER -> LittleEndian(f.value, Width[f.kind])

\* They are as many as the field takes.
LEMMA FieldOctetsType ==
  ASSUME NEW f \in WireFields
  PROVE  FieldOctets(f) \in Seq(Octets) /\ Len(FieldOctets(f)) = FieldSize(f)
  <1>1. CASE f.kind = "raw"
    <2>1. f.value \in Seq(Octets)
      BY <1>1 DEF WireFields, Kinds
    <2> QED BY <1>1, <2>1 DEF FieldOctets, FieldSize
  <1>2. CASE f.kind = "string"
    <2> PICK size : size = LittleEndian(Len(f.value), Width["u16"])
      OBVIOUS
    <2>1. f.value \in Seq(Octets) /\ Len(f.value) \in Nat
      BY <1>2 DEF WireFields, Kinds
    <2>2. size \in Seq(Octets) /\ Len(size) = Width["u16"] /\ Width["u16"] \in Nat
      <3>1. Width["u16"] \in Nat
        BY KindsAre, LimitPositive
      <3> QED BY <2>1, <3>1, LittleEndianType
    <2>3. FieldOctets(f) = size \o f.value
      BY <1>2 DEF FieldOctets
    <2>4. FieldSize(f) = Width["u16"] + Len(f.value)
      BY <1>2 DEF FieldSize, EncodedSize
    <2> PICK value : value = f.value
      OBVIOUS
    <2> PICK octets : octets = size \o value
      OBVIOUS
    <2>5. octets \in Seq(Octets) /\ Len(octets) = Width["u16"] + Len(value)
      <3>1. value \in Seq(Octets) /\ size \in Seq(Octets)
        BY <2>1, <2>2
      <3>2. octets \in Seq(Octets) /\ Len(octets) = Len(size) + Len(value)
        BY <3>1, ConcatProperties
      <3> QED BY <2>2, <3>2
    <2>6. FieldOctets(f) = octets
      BY <2>3
    <2> QED BY <2>4, <2>5, <2>6
  <1>3. CASE f.kind \notin {"raw", "string"}
    <2>1. f.kind \in Kinds /\ f.value \in Nat
      BY <1>3 DEF WireFields
    <2>2. Width[f.kind] \in Nat
      BY <2>1, LimitPositive
    <2>3. FieldOctets(f) = LittleEndian(f.value, Width[f.kind])
      BY <1>3 DEF FieldOctets
    <2>4. FieldSize(f) = Width[f.kind]
      BY <1>3 DEF FieldSize, EncodedSize
    <2> QED BY <2>1, <2>2, <2>3, <2>4, LittleEndianType
  <1> QED BY <1>1, <1>2, <1>3

\* The first n fields stand in the octets, each at its place.
Placed(octets, fields, n, pos) ==
    /\ pos \in [0 .. n -> Nat]
    /\ pos[0] = Width["u32"] + Width["u8"]
    /\ \A k \in 0 .. n : pos[k] <= pos[n]
    /\ \A k \in 1 .. n : /\ pos[k] = pos[k - 1] + FieldSize(fields[k])
                         /\ StandsAt(octets, pos[k - 1], FieldOctets(fields[k]))

\* Up to the cursor there are the fields that are not still to be written.
UpToCursor(octets, fields, n, pos) ==
    /\ Placed(octets, fields, n, pos)
    /\ pos[n] = cursor
    /\ Len(fields) = n + Len(todo)
    /\ \A i \in 1 .. Len(todo) : todo[i] = fields[n + i]

\* The octets of the type.
TypeOctets(m) == LittleEndian(RequestCode(m.type), Width["u8"])

\* The buffer has the message as far as it is written,
InBuffer ==
    request # NoRequest /\ Fits(request) =>
        /\ StandsAt(Memory(mem), Width["u32"], TypeOctets(request))
        /\ \E n \in Nat : \E pos : UpToCursor(Memory(mem), BuildFields(request), n, pos)

\* and what is sent is the buffer up to the cursor, with the size in front.
InView ==
    view # <<>> =>
        /\ request # NoRequest /\ todo = <<>> /\ Len(view) = cursor
        /\ \A i \in 1 .. cursor : view[i] = mem[i - 1]
        /\ StandsAt(Memory(mem), 0, LittleEndian(cursor, Width["u32"]))

\* The inductive invariant behind ServerReadsRequest.
BufferInv == TxInv /\ InBuffer /\ InView

\* The type of a call is one of RequestNames and takes one u8.
LEMMA TypeOctetsType ==
  ASSUME NEW m, Call(m)
  PROVE  /\ RequestCode(m.type) \in 1 .. 14
         /\ RequestNames[RequestCode(m.type)] = m.type
         /\ TypeOctets(m) \in Seq(Octets) /\ Len(TypeOctets(m)) = Width["u8"]
         /\ Width["u8"] \in Nat
  <1>1. Width["u8"] \in Nat
    BY KindsAre, LimitPositive
  <1>2. RequestCode(m.type) \in DOMAIN RequestNames /\ RequestNames[RequestCode(m.type)] = m.type
    <2>1. \E c \in DOMAIN RequestNames : RequestNames[c] = m.type
      BY DEF Call, Range
    <2> QED BY <2>1 DEF RequestCode
  <1>3. RequestCode(m.type) \in 1 .. 14
    BY <1>2 DEF RequestNames
  <1>4. RequestCode(m.type) \in Nat
    BY <1>3
  <1>5. TypeOctets(m) \in Seq(Octets) /\ Len(TypeOctets(m)) = Width["u8"]
    BY <1>1, <1>4, LittleEndianType DEF TypeOctets
  <1> QED BY <1>1, <1>2, <1>3, <1>5

\* What stands in the octets before this place also stands in others.
KeptBefore(octets, after, place) ==
    \A p \in Nat, t \in Seq(Octets) :
        StandsAt(octets, p, t) /\ p + Len(t) <= place => StandsAt(after, p, t)

\* The first n fields stand in the octets up to a place.
PlacedUpTo(octets, fields, n, end) == \E pos : Placed(octets, fields, n, pos) /\ pos[n] = end

\* What is written at the cursor is the next field.
LEMMA PlaceNext ==
  ASSUME NEW octets, NEW after, NEW fields \in Seq(WireFields), NEW n \in Nat, NEW pos,
         Placed(octets, fields, n, pos), NEW m, m = n + 1, m <= Len(fields),
         StandsAt(after, pos[n], FieldOctets(fields[m])),
         KeptBefore(octets, after, pos[n]),
         NEW end, end = pos[n] + FieldSize(fields[m])
  PROVE  PlacedUpTo(after, fields, m, end)
  <1> PICK longer : longer = [k \in 0 .. m |-> IF k <= n THEN pos[k] ELSE end]
    OBVIOUS
  <1>1. m \in 1 .. Len(fields) /\ m \in Nat /\ m - 1 = n /\ m > n
    OBVIOUS
  <1>2. \A k \in 1 .. m : /\ fields[k] \in WireFields
                         /\ FieldSize(fields[k]) \in Nat
                         /\ FieldOctets(fields[k]) \in Seq(Octets)
                         /\ Len(FieldOctets(fields[k])) = FieldSize(fields[k])
    BY <1>1, FieldSizeType, FieldOctetsType
  <1>3. /\ \A k \in 0 .. n : pos[k] \in Nat /\ pos[k] <= pos[n]
        /\ \A k \in 1 .. n : /\ pos[k] = pos[k - 1] + FieldSize(fields[k])
                             /\ StandsAt(octets, pos[k - 1], FieldOctets(fields[k]))
        /\ pos[0] = Width["u32"] + Width["u8"]
    BY DEF Placed
  <1>4. pos[n] \in Nat /\ end \in Nat /\ pos[n] <= end
    <2>1. n \in 0 .. n /\ m \in 1 .. m
      BY <1>1
    <2> QED BY <1>2, <1>3, <2>1
  <1>5. /\ \A k \in 0 .. n : longer[k] = pos[k]
        /\ longer[m] = end
    BY <1>1
  <1>6. longer \in [0 .. m -> Nat] /\ \A k \in 0 .. m : longer[k] <= longer[m]
    <2>1. \A k \in 0 .. m : longer[k] \in Nat /\ longer[k] <= end
      <3> TAKE k \in 0 .. m
      <3>1. CASE k <= n
        BY <1>3, <1>4, <1>5, <3>1
      <3>2. CASE k > n
        <4>1. k = m
          BY <1>1, <3>2
        <4> QED BY <1>4, <1>5, <4>1
      <3> QED BY <1>1, <3>1, <3>2
    <2> QED BY <1>5, <2>1
  <1>7. ASSUME NEW k \in 1 .. m
        PROVE  /\ longer[k] = longer[k - 1] + FieldSize(fields[k])
               /\ StandsAt(after, longer[k - 1], FieldOctets(fields[k]))
    <2>1. CASE k \in 1 .. n
      <3>1. k \in 0 .. n /\ k - 1 \in 0 .. n
        BY <2>1
      <3>2. longer[k] = pos[k] /\ longer[k - 1] = pos[k - 1] /\ pos[k - 1] \in Nat
        BY <1>3, <1>5, <3>1
      <3>3. pos[k - 1] + Len(FieldOctets(fields[k])) <= pos[n]
        BY <1>2, <1>3, <2>1, <3>1
      <3>4. StandsAt(after, pos[k - 1], FieldOctets(fields[k]))
        BY <1>2, <1>3, <2>1, <3>2, <3>3 DEF KeptBefore
      <3> QED BY <1>3, <2>1, <3>2, <3>4
    <2>2. CASE k = m
      <3>1. n \in 0 .. n /\ longer[n] = pos[n]
        BY <1>5
      <3> QED BY <1>1, <1>5, <2>2, <3>1
    <2> QED BY <1>1, <2>1, <2>2
  <1>8. longer[0] = Width["u32"] + Width["u8"]
    BY <1>3, <1>5
  <1>9. Placed(after, fields, m, longer)
    BY <1>6, <1>7, <1>8 DEF Placed
  <1> QED BY <1>5, <1>9 DEF PlacedUpTo

\* The buffer is filled with the rest of the invariant kept.
LEMMA InitializeInBuffer ==
  ASSUME BufferInv, NEW m \in Requests, initialize(m)
  PROVE  InBuffer' /\ InView'
  <1> PICK w : w = Width["u32"]
    OBVIOUS
  <1> PICK s : s = TypeOctets(m)
    OBVIOUS
  <1>1. w \in Nat /\ Call(m)
    BY KindsAre, LimitPositive, LengthInMemory
  <1>2. s \in Seq(Octets) /\ Len(s) = Width["u8"] /\ Width["u8"] \in Nat
    BY <1>1, TypeOctetsType
  <1>3. /\ request' = m /\ todo' = BuildFields(m) /\ mem' = Written(w, s)
        /\ cursor' = w + Len(s) /\ view' = <<>>
    BY DEF initialize, TypeOctets
  <1>4. ASSUME Fits(m)
        PROVE  /\ StandsAt(Memory(mem'), w, s)
               /\ \E n \in Nat : \E pos : UpToCursor(Memory(mem), BuildFields(m), n, pos)'
    <2>1. w + Len(s) <= Capacity + Beyond
      <3>1. TxInv'
        BY InitializeTx DEF BufferInv
      <3> QED BY <1>3, <3>1 DEF TxInv, TypeOK
    <2>2. StandsAt(Memory(mem'), w, s)
      BY <1>1, <1>2, <1>3, <2>1, WrittenStands DEF BufferInv, TxInv, TypeOK
    <2> PICK pos : pos = [k \in 0 .. 0 |-> cursor']
      OBVIOUS
    <2> PICK fields : fields = BuildFields(m)
      OBVIOUS
    <2>3. pos \in [0 .. 0 -> Nat] /\ pos[0] = cursor' /\ cursor' = Width["u32"] + Width["u8"]
      BY <1>1, <1>2, <1>3
    <2>4. Placed(Memory(mem'), fields, 0, pos)
      BY <2>3 DEF Placed
    <2>5. fields \in Seq(WireFields) /\ todo' = fields
      BY <1>1, <1>3, BuildFieldsType
    <2>6. Len(fields) = 0 + Len(todo') /\ \A i \in 1 .. Len(todo') : todo'[i] = fields[0 + i]
      BY <2>5
    <2>7. UpToCursor(Memory(mem), fields, 0, pos)'
      BY <2>3, <2>4, <2>6 DEF UpToCursor
    <2> QED BY <2>2, <2>7
  <1>5. InBuffer'
    BY <1>3, <1>4 DEF InBuffer
  <1>6. InView'
    BY <1>3 DEF InView
  <1> QED BY <1>5, <1>6

\* A field is written: with those before it, it stands in the buffer.
LEMMA WriteInBuffer ==
  ASSUME BufferInv, todo # <<>>, todo' = Tail(todo), UNCHANGED <<request, view, built>>,
         request # NoRequest /\ Fits(request) => Write(FieldOctets(Head(todo))),
         NEW s, Len(s) <= FieldSize(Head(todo)), s \in Seq(Octets),
         Write(s) \/ UNCHANGED <<mem, cursor>>
  PROVE  InBuffer' /\ InView'
  <1> PICK f : f = Head(todo)
    OBVIOUS
  <1> PICK octets : octets = FieldOctets(f)
    OBVIOUS
  <1> PICK w : w = Width["u32"]
    OBVIOUS
  <1>1. /\ todo \in Seq(WireFields) /\ f \in WireFields /\ f = todo[1]
        /\ Len(todo') = Len(todo) - 1 /\ Len(todo) \in Nat \ {0}
        /\ \A i \in 1 .. Len(todo) - 1 : todo'[i] = todo[i + 1]
    BY DEF BufferInv, TxInv, Progress
  <1>2. w \in Nat /\ mem \in [Addresses -> Octets] /\ cursor \in Nat /\ w <= cursor
    BY KindsAre, LimitPositive DEF BufferInv, TxInv, TypeOK
  <1>3. octets \in Seq(Octets) /\ Len(octets) = FieldSize(f)
    BY <1>1, FieldOctetsType
  <1>4. view = <<>>
    BY DEF BufferInv, InView
  <1>5. InView'
    BY <1>4 DEF InView
  <1>6. ASSUME request # NoRequest, Fits(request)
        PROVE  /\ StandsAt(Memory(mem'), w, TypeOctets(request))
               /\ \E n \in Nat : \E pos : UpToCursor(Memory(mem), BuildFields(request), n, pos)'
    <2> PICK fields : fields = BuildFields(request)
      OBVIOUS
    <2>1. request \in Requests /\ Call(request) /\ fields \in Seq(WireFields)
      BY <1>6, LengthInMemory, BuildFieldsType DEF BufferInv, TxInv, TypeOK
    <2>2. /\ StandsAt(Memory(mem), w, TypeOctets(request))
          /\ \E n \in Nat : \E pos : UpToCursor(Memory(mem), fields, n, pos)
      BY <1>6 DEF BufferInv, InBuffer
    <2> PICK n \in Nat : \E pos : UpToCursor(Memory(mem), fields, n, pos)
      BY <2>2
    <2> PICK pos : UpToCursor(Memory(mem), fields, n, pos)
      OBVIOUS
    <2>3. /\ Placed(Memory(mem), fields, n, pos) /\ pos[n] = cursor
          /\ Len(fields) = n + Len(todo)
          /\ \A i \in 1 .. Len(todo) : todo[i] = fields[n + i]
      BY DEF UpToCursor
    <2>4. n + 1 <= Len(fields) /\ fields[n + 1] = f
      BY <1>1, <2>3
    <2>5. mem' = Written(cursor, octets) /\ cursor' = cursor + Len(octets)
      BY <1>6 DEF Write
    <2>6. cursor + Len(octets) <= Capacity + Beyond
      <3>1. TxInv'
        BY WriteFieldTx DEF BufferInv
      <3> QED BY <2>5, <3>1 DEF TxInv, TypeOK
    <2>7. /\ StandsAt(Memory(mem'), cursor, octets)
          /\ KeptBefore(Memory(mem), Memory(mem'), cursor)
      BY <1>2, <1>3, <2>5, <2>6, WrittenStands DEF KeptBefore
    <2>8. StandsAt(Memory(mem'), w, TypeOctets(request))
      <3>1. /\ TypeOctets(request) \in Seq(Octets) /\ Len(TypeOctets(request)) = Width["u8"]
        BY <2>1, TypeOctetsType, Zenon
      <3>2. w + Width["u8"] <= cursor
        <4>1. 0 \in 0 .. n
          OBVIOUS
        <4> QED BY <2>3, <4>1 DEF Placed
      <3> QED BY <1>2, <2>2, <2>7, <3>1, <3>2 DEF KeptBefore
    <2> PICK m : m = n + 1
      OBVIOUS
    <2>9. PlacedUpTo(Memory(mem'), fields, m, cursor')
      <3>1. /\ StandsAt(Memory(mem'), pos[n], FieldOctets(fields[m]))
            /\ KeptBefore(Memory(mem), Memory(mem'), pos[n])
            /\ cursor' = pos[n] + FieldSize(fields[m])
        BY <1>3, <2>3, <2>4, <2>5, <2>7
      <3> QED BY <2>1, <2>3, <2>4, <3>1, PlaceNext
    <2> PICK longer : Placed(Memory(mem'), fields, m, longer) /\ longer[m] = cursor'
      BY <2>9 DEF PlacedUpTo
    <2>10. /\ Len(fields) = (n + 1) + Len(todo')
           /\ \A i \in 1 .. Len(todo') : todo'[i] = fields[(n + 1) + i]
      <3>1. Len(fields) = (n + 1) + Len(todo')
        BY <1>1, <2>3
      <3>2. ASSUME NEW i \in 1 .. Len(todo') PROVE todo'[i] = fields[(n + 1) + i]
        <4>1. i \in 1 .. Len(todo) - 1 /\ i + 1 \in 1 .. Len(todo) /\ n + (i + 1) = (n + 1) + i
          BY <1>1
        <4>2. todo'[i] = todo[i + 1] /\ todo[i + 1] = fields[n + (i + 1)]
          BY <1>1, <2>3, <4>1
        <4> QED BY <4>1, <4>2
      <3> QED BY <3>1, <3>2
    <2>11. UpToCursor(Memory(mem), fields, m, longer)'
      BY <2>10 DEF UpToCursor
    <2> QED BY <2>8, <2>11
  <1>7. InBuffer'
    BY <1>6 DEF InBuffer
  <1> QED BY <1>5, <1>7

\* The size is written in front of the fields, which stay where they are.
LEMMA GetDataInBuffer ==
  ASSUME BufferInv, getData
  PROVE  InBuffer' /\ InView'
  <1> PICK w : w = Width["u32"]
    OBVIOUS
  <1> PICK s : s = LittleEndian(cursor, w)
    OBVIOUS
  <1>1. w \in Nat \ {0} /\ Limit("u32") \in Nat \ {0}
    BY KindsAre, LimitPositive
  <1>2. cursor \in Nat /\ w <= cursor /\ cursor <= Capacity + Beyond
        /\ mem \in [Addresses -> Octets]
    BY <1>1, CapacityAssumption DEF BufferInv, TxInv, TypeOK
  <1>3. Narrow(cursor, "u32") = cursor
    <2>1. cursor \in 0 .. Limit("u32") - 1
      BY <1>1, <1>2, CapacityAssumption
    <2> QED BY <1>1, <2>1, WithinModulus DEF Narrow
  <1>4. /\ mem' = Written(0, s)
        /\ view' = [i \in 1 .. cursor |-> mem'[i - 1]]
        /\ UNCHANGED <<cursor, todo, request, built>>
        /\ todo = <<>> /\ request # NoRequest
    BY <1>3 DEF getData
  <1>5. s \in Seq(Octets) /\ Len(s) = w
    BY <1>1, <1>2, LittleEndianType
  <1>6. /\ StandsAt(Memory(mem'), 0, s)
        /\ \A p \in Nat, t \in Seq(Octets) :
              StandsAt(Memory(mem), p, t) /\ w <= p => StandsAt(Memory(mem'), p, t)
    <2>1. 0 + Len(s) <= Capacity + Beyond /\ 0 + Len(s) = w
      BY <1>1, <1>2, <1>5, CapacityAssumption
    <2> QED BY <1>2, <1>4, <1>5, <2>1, WrittenStands
  <1>7. InView'
    <2>1. /\ \A i \in 1 .. cursor : view'[i] = mem'[i - 1]
          /\ Len(view') = cursor
      <3>1. TxInv'
        BY GetDataTx DEF BufferInv
      <3>2. DOMAIN view' = 1 .. cursor /\ view' \in Seq(Octets)
        BY <1>4, <3>1 DEF TxInv, TypeOK
      <3> QED BY <1>2, <1>4, <3>2
    <2> QED BY <1>4, <1>6, <2>1 DEF InView
  <1>8. InBuffer'
    <2> SUFFICES ASSUME Fits(request)
                 PROVE  /\ StandsAt(Memory(mem'), w, TypeOctets(request))
                        /\ \E n \in Nat : \E pos :
                              UpToCursor(Memory(mem), BuildFields(request), n, pos)'
      BY <1>4 DEF InBuffer
    <2> PICK fields : fields = BuildFields(request)
      OBVIOUS
    <2>1. request \in Requests /\ Call(request) /\ fields \in Seq(WireFields)
      BY <1>4, LengthInMemory, BuildFieldsType DEF BufferInv, TxInv, TypeOK
    <2>2. /\ StandsAt(Memory(mem), w, TypeOctets(request))
          /\ \E n \in Nat : \E pos : UpToCursor(Memory(mem), fields, n, pos)
      BY <1>4 DEF BufferInv, InBuffer
    <2>3. StandsAt(Memory(mem'), w, TypeOctets(request))
      BY <1>1, <1>6, <2>1, <2>2, TypeOctetsType
    <2> PICK n \in Nat : \E pos : UpToCursor(Memory(mem), fields, n, pos)
      BY <2>2
    <2> PICK pos : UpToCursor(Memory(mem), fields, n, pos)
      OBVIOUS
    <2>4. /\ Placed(Memory(mem), fields, n, pos) /\ pos[n] = cursor
          /\ Len(fields) = n + Len(todo)
          /\ \A i \in 1 .. Len(todo) : todo[i] = fields[n + i]
      BY DEF UpToCursor
    <2>5. /\ pos \in [0 .. n -> Nat]
          /\ pos[0] = Width["u32"] + Width["u8"]
          /\ \A k \in 0 .. n : pos[k] <= pos[n]
          /\ \A k \in 1 .. n : /\ pos[k] = pos[k - 1] + FieldSize(fields[k])
                               /\ StandsAt(Memory(mem), pos[k - 1], FieldOctets(fields[k]))
      BY <2>4 DEF Placed
    <2>6. Len(fields) = n
      BY <1>4, <2>1, <2>4
    <2>7. \A k \in 0 .. n : w <= pos[k]
      <3> DEFINE S == {k \in 0 .. n : w <= pos[k]}
      <3>1. 0 \in S
        <4>1. Width["u8"] \in Nat /\ 0 \in 0 .. n
          BY KindsAre, LimitPositive
        <4> QED BY <1>1, <2>5, <4>1
      <3>2. ASSUME NEW k \in 0 .. n - 1, k \in S PROVE k + 1 \in S
        <4> PICK m : m = k + 1
          OBVIOUS
        <4>1. m \in 1 .. n /\ m - 1 = k /\ m \in 0 .. n /\ k \in 0 .. n
          OBVIOUS
        <4>2. FieldSize(fields[m]) \in Nat
          BY <2>1, <2>6, <4>1, FieldSizeType
        <4>3. pos[m] = pos[k] + FieldSize(fields[m]) /\ pos[k] \in Nat /\ w <= pos[k]
          BY <2>5, <3>2, <4>1
        <4>4. w <= pos[m]
          BY <1>1, <4>2, <4>3
        <4> QED BY <4>1, <4>4
      <3> HIDE DEF S
      <3>3. 0 .. n \subseteq S
        BY <3>1, <3>2, UpTo
      <3> QED BY <3>3 DEF S
    <2>8. ASSUME NEW k \in 1 .. n
          PROVE  StandsAt(Memory(mem'), pos[k - 1], FieldOctets(fields[k]))
      <3>1. k - 1 \in 0 .. n /\ k \in 1 .. Len(fields)
        BY <2>6
      <3>2. fields[k] \in WireFields /\ pos[k - 1] \in Nat /\ w <= pos[k - 1]
        BY <2>1, <2>5, <2>7, <3>1
      <3>3. FieldOctets(fields[k]) \in Seq(Octets)
        BY <3>2, FieldOctetsType
      <3> QED BY <1>6, <2>5, <3>2, <3>3
    <2>9. Placed(Memory(mem'), fields, n, pos)
      BY <2>5, <2>8 DEF Placed
    <2>10. UpToCursor(Memory(mem), fields, n, pos)'
      BY <1>4, <2>4, <2>9 DEF UpToCursor
    <2> QED BY <1>4, <2>3, <2>10
  <1> QED BY <1>7, <1>8

\* The invariant holds before the first message,
LEMMA BufferInit == Init => BufferInv
  <1> SUFFICES ASSUME Init PROVE BufferInv
    OBVIOUS
  <1>1. request = NoRequest /\ view = <<>>
    BY DEF Init
  <1> QED BY <1>1, InitTx DEF BufferInv, InBuffer, InView

\* every step keeps it,
LEMMA BufferStep == BufferInv /\ [Next]_vars => BufferInv'
  <1> SUFFICES ASSUME BufferInv, [Next]_vars PROVE InBuffer' /\ InView'
    BY TxStep DEF BufferInv
  <1>todo. /\ todo \in Seq(WireFields)
           /\ todo # <<>> => Head(todo) \in WireFields /\ Tail(todo) \in Seq(WireFields)
    BY DEF BufferInv, TxInv, Progress
  <1>1. ASSUME NEW m \in Requests, initialize(m) PROVE InBuffer' /\ InView'
    BY <1>1, InitializeInBuffer
  <1>2. CASE writeInteger
    <2> PICK f : f = Head(todo)
      OBVIOUS
    <2> PICK s : s = LittleEndian(f.value, Width[f.kind])
      OBVIOUS
    <2>1. /\ todo # <<>> /\ f.kind \in Kinds /\ todo' = Tail(todo)
          /\ UNCHANGED <<request, view, built>> /\ Write(s)
      BY <1>2 DEF writeInteger, NextField
    <2>2. f \in WireFields /\ f.kind # "string" /\ f.kind # "raw"
      BY <1>todo, <2>1 DEF Kinds
    <2>3. s = FieldOctets(f)
      BY <2>2 DEF FieldOctets
    <2>4. s \in Seq(Octets) /\ Len(s) = FieldSize(f) /\ FieldSize(f) \in Nat
      BY <2>2, <2>3, FieldOctetsType, FieldSizeType
    <2>5. Len(s) <= FieldSize(f)
      BY <2>4
    <2> QED BY <2>1, <2>3, <2>4, <2>5, WriteInBuffer
  <1>3. CASE writeString
    <2> PICK f : f = Head(todo)
      OBVIOUS
    <2> PICK s : s = FieldOctets(f)
      OBVIOUS
    <2>1. /\ todo # <<>> /\ f.kind = "string" /\ todo' = Tail(todo)
          /\ UNCHANGED <<request, view, built>>
      BY <1>3 DEF writeString, NextField
    <2>2. IF hasRoomFor(Len(f.value)) /\ Len(f.value) < Limit("u16")
          THEN Write(LittleEndian(Len(f.value), Width["u16"]) \o f.value)
          ELSE UNCHANGED <<mem, cursor>>
      BY <1>3, Zenon DEF writeString
    <2>3. f \in WireFields /\ s = LittleEndian(Len(f.value), Width["u16"]) \o f.value
      BY <1>todo, <2>1 DEF FieldOctets
    <2>4. s \in Seq(Octets) /\ Len(s) = FieldSize(f) /\ FieldSize(f) \in Nat
      BY <2>3, FieldOctetsType, FieldSizeType
    <2>5. ASSUME request # NoRequest, Fits(request) PROVE Write(s)
      <3>1. f.value \in Seq(Octets)
        BY <2>1, <2>3, KindsAre DEF WireFields, Kinds
      <3>2. FieldSize(f) = Width["u16"] + Len(f.value)
        BY <2>1 DEF FieldSize, EncodedSize
      <3>3. Width["u16"] \in Nat /\ Len(f.value) \in Nat /\ cursor \in Int /\ cursor >= 0
        <4>1. Width["u16"] \in Nat /\ Width["u32"] \in Nat
          BY KindsAre, LimitPositive
        <4> QED BY <3>1, <4>1 DEF BufferInv, TxInv, TypeOK
      <3>4. /\ Total(Sizes(todo)) = FieldSize(f) + Total(Sizes(Tail(todo)))
            /\ Total(Sizes(Tail(todo))) \in Nat
        <4> PICK rest : rest = Tail(todo)
          OBVIOUS
        <4>1. rest \in Seq(WireFields)
          BY <1>todo, <2>1
        <4>2. Total(Sizes(rest)) \in Nat
          BY <4>1, SizesSteps
        <4>3. Total(Sizes(todo)) = FieldSize(Head(todo)) + Total(Sizes(Tail(todo)))
          BY <1>todo, <2>1, SizesSteps
        <4> QED BY <4>2, <4>3
      <3>5. /\ cursor + Total(Sizes(todo)) <= FullLength(request)
            /\ FullLength(request) <= Capacity /\ FullLength(request) \in Nat
        <4>1. request \in Requests
          BY <2>5 DEF BufferInv, TxInv, TypeOK
        <4> QED BY <2>5, <4>1, LengthInMemory DEF BufferInv, TxInv, Progress, Fits
      <3> PICK rest : rest = Total(Sizes(Tail(todo)))
        OBVIOUS
      <3> PICK length : length = FullLength(request)
        OBVIOUS
      <3>6. Len(f.value) <= Capacity
        <4>1. cursor + (Width["u16"] + Len(f.value) + rest) <= length
          BY <3>2, <3>4, <3>5
        <4>2. rest \in Nat /\ length \in Nat /\ length <= Capacity /\ Capacity \in Nat
          BY <3>4, <3>5, CapacityAssumption
        <4> QED BY <3>3, <4>1, <4>2
      <3>7. Len(f.value) < Limit("u16")
        <4>1. Limit("u16") \in Nat
          BY KindsAre, LimitPositive
        <4> QED BY <3>3, <3>6, <4>1, CapacityAssumption
      <3> QED BY <2>2, <2>3, <3>6, <3>7 DEF hasRoomFor
    <2>6. Write(s) \/ UNCHANGED <<mem, cursor>>
      BY <2>2, <2>3
    <2>7. Len(s) <= FieldSize(f)
      BY <2>4
    <2> QED BY <2>1, <2>4, <2>5, <2>6, <2>7, WriteInBuffer
  <1>4. CASE writeRawData
    <2> PICK f : f = Head(todo)
      OBVIOUS
    <2> PICK s : s = f.value
      OBVIOUS
    <2>1. /\ todo # <<>> /\ f.kind = "raw" /\ todo' = Tail(todo)
          /\ UNCHANGED <<request, view, built>> /\ Write(s)
      BY <1>4 DEF writeRawData, NextField
    <2>2. f \in WireFields /\ s = FieldOctets(f)
      BY <1>todo, <2>1 DEF FieldOctets
    <2>3. s \in Seq(Octets) /\ Len(s) = FieldSize(f) /\ FieldSize(f) \in Nat
      BY <2>2, FieldOctetsType, FieldSizeType
    <2>4. Len(s) <= FieldSize(f)
      BY <2>3
    <2> QED BY <2>1, <2>2, <2>3, <2>4, WriteInBuffer
  <1>5. CASE getData
    BY <1>5, GetDataInBuffer
  <1>6. CASE Sent
    <2>1. request' = NoRequest /\ view' = <<>>
      BY <1>6 DEF Sent
    <2> QED BY <2>1 DEF InBuffer, InView
  <1>7. CASE UNCHANGED vars
    <2>1. UNCHANGED <<mem, cursor, todo, request, view>>
      BY <1>7 DEF vars
    <2>2. InView'
      BY <2>1 DEF InView, BufferInv
    <2>3. InBuffer'
      <3> SUFFICES ASSUME request # NoRequest, Fits(request)
                   PROVE  /\ StandsAt(Memory(mem), Width["u32"], TypeOctets(request))
                          /\ \E n \in Nat : \E pos :
                                UpToCursor(Memory(mem), BuildFields(request), n, pos)'
        BY <2>1 DEF InBuffer
      <3>1. /\ StandsAt(Memory(mem), Width["u32"], TypeOctets(request))
            /\ \E n \in Nat : \E pos : UpToCursor(Memory(mem), BuildFields(request), n, pos)
        BY DEF BufferInv, InBuffer
      <3> PICK n \in Nat : \E pos : UpToCursor(Memory(mem), BuildFields(request), n, pos)
        BY <3>1
      <3> PICK pos : UpToCursor(Memory(mem), BuildFields(request), n, pos)
        OBVIOUS
      <3>2. UpToCursor(Memory(mem), BuildFields(request), n, pos)'
        BY <2>1 DEF UpToCursor
      <3> QED BY <3>1, <3>2
    <2> QED BY <2>2, <2>3
  <1> QED BY <1>1, <1>2, <1>3, <1>4, <1>5, <1>6, <1>7 DEF Next, Finished

\* and so it holds throughout.
LEMMA BufferAlways == Spec => []BufferInv
  BY BufferInit, BufferStep, PTL DEF Spec

-----------------------------------------------------------------------------
(* What the server reads                                                    *)

\* A row is the first of its values, all of them.
LEMMA UntilAll ==
  ASSUME NEW values, NEW n \in Nat
  PROVE  /\ Row(values, n) => Until(values, n) = values
         /\ <<>> \o Until(values, n) = Until(values, n)
         /\ Len(Until(values, n)) = n
         /\ \A i \in 1 .. n : Until(values, n)[i] = values[i]
         /\ Row(values, n + 1) => /\ Append(Until(values, n), values[n + 1]) = values
                                  /\ Last(values) = values[n + 1]
  <1> PICK V : V = {values[i] : i \in 1 .. n + 1}
    OBVIOUS
  <1> PICK s : s = Until(values, n)
    OBVIOUS
  <1>1. \A i \in 1 .. n + 1 : values[i] \in V
    OBVIOUS
  <1>2. s \in Seq(V) /\ Len(s) = n /\ \A i \in 1 .. n : s[i] = values[i]
    BY <1>1 DEF Until
  <1>3. Row(values, n) => s = values
    BY Zenon DEF Row, Until
  <1>4. <<>> \o s = s
    BY <1>2
  <1>5. ASSUME Row(values, n + 1)
        PROVE  Append(s, values[n + 1]) = values /\ Last(values) = values[n + 1]
    <2>1. values = [i \in 1 .. n + 1 |-> values[i]]
      BY <1>5 DEF Row
    <2>f. PICK f : f = [i \in 1 .. n + 1 |-> values[i]]
      OBVIOUS
    <2>g. f \in Seq(V) /\ Len(f) = n + 1
      BY <1>1, <2>f
    <2>2. values \in Seq(V) /\ Len(values) = n + 1
      BY Zenon, <2>1, <2>f, <2>g
    <2>3. n + 1 \in 1 .. n + 1 /\ values[n + 1] \in V
      BY <1>1
    <2> PICK t : t = Append(s, values[n + 1])
      OBVIOUS
    <2>4. t \in Seq(V) /\ Len(t) = n + 1 /\ \A i \in 1 .. n + 1 : t[i] = values[i]
      BY <1>2, <2>3
    <2>5. t = values
      BY <2>2, <2>4, SeqEqual
    <2>6. Last(values) = values[n + 1]
      BY <2>2 DEF Last
    <2> QED BY <2>5, <2>6
  <1> QED BY <1>2, <1>3, <1>4, <1>5

\* The whole message stands in the octets.
Placement(octets, fields, pos) ==
    /\ octets \in Seq(Octets) /\ Len(octets) <= Capacity
    /\ fields \in Seq(WireFields)
    /\ Placed(octets, fields, Len(fields), pos)
    /\ pos[Len(fields)] = Len(octets)

\* The octets are the message: size, type and fields.
Holds(octets, m) ==
    /\ octets \in Seq(Octets) /\ Len(octets) <= Capacity
    /\ StandsAt(octets, 0, LittleEndian(Len(octets), Width["u32"]))
    /\ StandsAt(octets, Width["u32"], TypeOctets(m))
    /\ \E pos : Placement(octets, BuildFields(m), pos)

\* What getData returns of a message that fits is that message.
LEMMA ViewHolds ==
  ASSUME BufferInv, view # <<>>, Fits(request)
  PROVE  request \in Requests /\ Holds(view, request)
  <1> PICK w : w = Width["u32"]
    OBVIOUS
  <1> PICK fields : fields = BuildFields(request)
    OBVIOUS
  <1>1. /\ request # NoRequest /\ todo = <<>> /\ Len(view) = cursor
        /\ \A i \in 1 .. cursor : view[i] = mem[i - 1]
        /\ StandsAt(Memory(mem), 0, LittleEndian(cursor, w))
    BY DEF BufferInv, InView
  <1>2. /\ request \in Requests /\ view \in Seq(Octets) /\ cursor \in Nat
        /\ cursor <= Capacity + Beyond /\ mem \in [Addresses -> Octets] /\ w <= cursor
        /\ w \in Nat
    <2>1. w \in Nat
      BY KindsAre, LimitPositive
    <2> QED BY <1>1, <2>1, CapacityAssumption DEF BufferInv, TxInv, TypeOK
  <1>3. Call(request) /\ fields \in Seq(WireFields)
    BY <1>2, LengthInMemory, BuildFieldsType
  <1>4. cursor <= Capacity
    <2>1. cursor + Total(Sizes(todo)) <= FullLength(request)
      BY <1>1 DEF BufferInv, TxInv, Progress
    <2>2. Total(Sizes(todo)) \in Nat
      BY SizesSteps DEF BufferInv, TxInv, Progress
    <2>3. FullLength(request) \in Nat /\ FullLength(request) <= Capacity
      BY <1>2, LengthInMemory DEF Fits
    <2> QED BY <1>2, <2>1, <2>2, <2>3, CapacityAssumption
  <1>5. /\ StandsAt(Memory(mem), w, TypeOctets(request))
        /\ \E n \in Nat : \E pos : UpToCursor(Memory(mem), fields, n, pos)
    BY <1>1 DEF BufferInv, InBuffer
  <1>6. ASSUME NEW p \in Nat, NEW t \in Seq(Octets), p + Len(t) <= cursor,
               StandsAt(Memory(mem), p, t)
        PROVE  StandsAt(view, p, t)
    <2>1. ASSUME NEW j \in 1 .. Len(t) PROVE view[p + j] = t[j]
      <3>1. p + j \in 1 .. cursor /\ p + j \in 1 .. Capacity + Beyond
        BY <1>2, <1>6, CapacityAssumption
      <3>2. view[p + j] = mem[(p + j) - 1] /\ Memory(mem)[p + j] = mem[(p + j) - 1]
        BY <1>1, <1>2, <3>1, MemoryIs
      <3>3. Memory(mem)[p + j] = t[j]
        BY <1>6 DEF StandsAt
      <3> QED BY <3>2, <3>3
    <2> QED BY <1>1, <1>6, <2>1 DEF StandsAt
  <1>7. StandsAt(view, 0, LittleEndian(Len(view), w))
    <2>1. LittleEndian(cursor, w) \in Seq(Octets) /\ Len(LittleEndian(cursor, w)) = w
      BY <1>2, LittleEndianType
    <2>2. 0 + Len(LittleEndian(cursor, w)) <= cursor
      BY <1>2, <2>1
    <2> QED BY <1>1, <1>6, <2>1, <2>2
  <1> PICK n \in Nat : \E pos : UpToCursor(Memory(mem), fields, n, pos)
    BY <1>5
  <1> PICK pos : UpToCursor(Memory(mem), fields, n, pos)
    OBVIOUS
  <1>8. Placed(Memory(mem), fields, n, pos) /\ pos[n] = cursor /\ Len(fields) = n
    BY <1>1, <1>3 DEF UpToCursor
  <1>9. /\ pos \in [0 .. n -> Nat]
        /\ pos[0] = Width["u32"] + Width["u8"]
        /\ \A k \in 0 .. n : pos[k] <= pos[n]
        /\ \A k \in 1 .. n : /\ pos[k] = pos[k - 1] + FieldSize(fields[k])
                             /\ StandsAt(Memory(mem), pos[k - 1], FieldOctets(fields[k]))
    BY <1>8 DEF Placed
  <1>10. StandsAt(view, w, TypeOctets(request))
    <2>1. TypeOctets(request) \in Seq(Octets) /\ Len(TypeOctets(request)) = Width["u8"]
      BY <1>3, TypeOctetsType, Zenon
    <2>2. w + Len(TypeOctets(request)) <= cursor
      <3>1. 0 \in 0 .. n
        OBVIOUS
      <3> QED BY <1>8, <1>9, <2>1, <3>1
    <2> QED BY <1>2, <1>5, <1>6, <2>1, <2>2
  <1>11. ASSUME NEW k \in 1 .. n PROVE StandsAt(view, pos[k - 1], FieldOctets(fields[k]))
    <2>1. fields[k] \in WireFields /\ k - 1 \in 0 .. n /\ k \in 0 .. n
      BY <1>3, <1>8
    <2>2. /\ FieldOctets(fields[k]) \in Seq(Octets)
          /\ Len(FieldOctets(fields[k])) = FieldSize(fields[k])
      BY <2>1, FieldOctetsType
    <2>3. pos[k - 1] \in Nat /\ pos[k - 1] + Len(FieldOctets(fields[k])) <= cursor
      BY <1>8, <1>9, <2>1, <2>2
    <2> QED BY <1>6, <1>9, <2>2, <2>3
  <1>12. Placed(view, fields, n, pos)
    BY <1>9, <1>11 DEF Placed
  <1>13. Placement(view, fields, pos)
    BY <1>1, <1>2, <1>3, <1>4, <1>8, <1>12 DEF Placement
  <1> QED BY <1>1, <1>2, <1>4, <1>7, <1>10, <1>13 DEF Holds

\* Limits of what is in the buffer.
LEMMA InLimits ==
  /\ Capacity \in Nat /\ Capacity < Limit("u16") /\ Capacity < Limit("u32")
  /\ Limit("u16") \in Nat /\ Limit("u32") \in Nat /\ Limit("u8") \in Nat
  /\ Limit("u8") > 83
  /\ "u8" \in Kinds /\ "u16" \in Kinds /\ "u32" \in Kinds
  /\ Width["u8"] \in Nat \ {0} /\ Width["u16"] \in Nat \ {0} /\ Width["u32"] \in Nat \ {0}
  <1>1. "u8" \in Kinds /\ "u16" \in Kinds /\ "u32" \in Kinds
    BY KindsAre
  <1>2. /\ Limit("u16") \in Nat /\ Limit("u32") \in Nat /\ Limit("u8") \in Nat
        /\ Width["u8"] \in Nat \ {0} /\ Width["u16"] \in Nat \ {0} /\ Width["u32"] \in Nat \ {0}
    BY <1>1, LimitPositive
  <1>3. Capacity \in Nat /\ Capacity < Limit("u16") /\ Capacity < Limit("u32")
    BY <1>2, CapacityAssumption
  <1>4. Limit("u8") > 83
    BY <1>2, ModeAssumption DEF OTRUNC, ORCLOSE
  <1> QED BY <1>1, <1>2, <1>3, <1>4

\* What a placement says of its places.
LEMMA Places ==
  ASSUME NEW octets, NEW fields, NEW pos, Placement(octets, fields, pos)
  PROVE  /\ octets \in Seq(Octets) /\ Len(octets) \in Nat /\ Len(octets) <= Capacity
         /\ fields \in Seq(WireFields) /\ Len(fields) \in Nat
         /\ \A k \in 0 .. Len(fields) : pos[k] \in 0 .. Len(octets)
         /\ \A k \in 1 .. Len(fields) : /\ fields[k] \in WireFields
                                       /\ pos[k] = pos[k - 1] + FieldSize(fields[k])
                                       /\ StandsAt(octets, pos[k - 1], FieldOctets(fields[k]))
         /\ pos[0] = Width["u32"] + Width["u8"]
         /\ pos[Len(fields)] = Len(octets)
  <1>1. octets \in Seq(Octets) /\ Len(octets) \in Nat /\ Len(octets) <= Capacity
        /\ fields \in Seq(WireFields) /\ Len(fields) \in Nat
        /\ pos[Len(fields)] = Len(octets)
    BY DEF Placement
  <1>2. /\ pos \in [0 .. Len(fields) -> Nat]
        /\ pos[0] = Width["u32"] + Width["u8"]
        /\ \A k \in 0 .. Len(fields) : pos[k] <= pos[Len(fields)]
        /\ \A k \in 1 .. Len(fields) :
              /\ pos[k] = pos[k - 1] + FieldSize(fields[k])
              /\ StandsAt(octets, pos[k - 1], FieldOctets(fields[k]))
    BY DEF Placement, Placed
  <1>3. \A k \in 0 .. Len(fields) : pos[k] \in 0 .. Len(octets)
    BY <1>1, <1>2
  <1> QED BY <1>1, <1>2, <1>3

\* A field stands at its place, as its parser expects it.
LEMMA FieldPlaced ==
  ASSUME NEW octets, NEW fields, NEW pos, Placement(octets, fields, pos),
         NEW n \in Nat, NEW k, k = n + 1, k <= Len(fields),
         NEW kind \in Kinds \cup {"string"}, NEW x \in Argument(kind),
         fields[k] = Field(kind, x)
  PROVE  FieldAt(octets, pos[n], kind, x, pos[k])
  <1> PICK f : f = fields[k]
    OBVIOUS
  <1>1. k \in 1 .. Len(fields) /\ k - 1 = n /\ n \in 0 .. Len(fields) /\ k \in 0 .. Len(fields)
    BY Places
  <1>2. /\ f \in WireFields /\ pos[k] = pos[n] + FieldSize(f)
        /\ StandsAt(octets, pos[n], FieldOctets(f))
        /\ pos[n] \in 0 .. Len(octets) /\ pos[k] \in 0 .. Len(octets)
    BY <1>1, Places
  <1>3. f.kind = kind /\ f.value = x
    BY DEF Field
  <1>4. Len(octets) \in Nat /\ Len(octets) <= Capacity
    BY Places
  <1>5. CASE kind = "string"
    <2>1. FieldSize(f) = Width["u16"] + Len(x)
      BY <1>3, <1>5 DEF FieldSize, EncodedSize
    <2>2. FieldOctets(f) = LittleEndian(Len(x), Width["u16"]) \o x
      BY <1>3, <1>5 DEF FieldOctets
    <2>3. x \in Seq(Octets) /\ Len(x) \in Nat
      BY <1>5 DEF Argument
    <2>num. /\ pos[n] \in Nat /\ Width["u16"] \in Nat /\ Capacity \in Nat
            /\ Limit("u16") \in Nat /\ Capacity < Limit("u16") /\ pos[k] <= Len(octets)
      BY <1>2, <1>4, InLimits
    <2>behind. Behind(pos[k], pos[n] + Width["u16"], Len(x))
      BY Zenon, <1>2, <2>1, <2>3, <2>num, SecondPart
    <2>5. pos[k] = pos[n] + Width["u16"] + Len(x)
      BY Zenon, <2>behind DEF Behind
    <2>place. pos[n] + Width["u16"] \in Nat
      BY Zenon, <2>num, SumNat
    <2>len. Len(x) <= Capacity
      BY Zenon, <1>4, <2>3, <2>5, <2>num, <2>place, Inside
    <2>4. Len(x) < Limit("u16")
      BY Zenon, <2>3, <2>len, <2>num, BelowLimit
    <2> QED BY <1>2, <1>5, <2>2, <2>3, <2>4, <2>5 DEF FieldAt
  <1>6. CASE kind # "string"
    <2>1. kind \in Kinds /\ kind # "raw"
      BY <1>6 DEF Kinds
    <2>2. FieldSize(f) = Width[kind] /\ FieldOctets(f) = LittleEndian(x, Width[kind])
      BY <1>3, <1>6, <2>1 DEF FieldSize, EncodedSize, FieldOctets
    <2>3. x \in 0 .. Limit(kind) - 1
      BY <1>6 DEF Argument
    <2> QED BY <1>2, <2>1, <2>2, <2>3 DEF FieldAt
  <1> QED BY <1>5, <1>6

\* The fields behind the first off are values of these kinds.
RowOf(fields, off, kinds, values, count) ==
    /\ off + count <= Len(fields)
    /\ DOMAIN kinds = 1 .. count
    /\ \A k \in 1 .. count : /\ kinds[k] \in Kinds \cup {"string"}
                             /\ values[k] \in Argument(kinds[k])
                             /\ fields[off + k] = Field(kinds[k], values[k])

\* They then stand in the octets as a parser expects a row of them.
LEMMA RowPlaced ==
  ASSUME NEW octets, NEW fields, NEW pos, Placement(octets, fields, pos),
         NEW off \in Nat, NEW kinds, NEW values, NEW count \in Nat,
         RowOf(fields, off, kinds, values, count),
         NEW at, at = [k \in 0 .. count |-> pos[off + k]]
  PROVE  RowAt(octets, at, count, kinds, values)
  <1>1. /\ off + count <= Len(fields)
        /\ \A k \in 1 .. count : /\ kinds[k] \in Kinds \cup {"string"}
                                 /\ values[k] \in Argument(kinds[k])
                                 /\ fields[off + k] = Field(kinds[k], values[k])
    BY DEF RowOf
  <1>2. Len(fields) \in Nat
    BY Places
  <1>3. ASSUME NEW k \in 1 .. count
        PROVE  FieldAt(octets, at[k - 1], kinds[k], values[k], at[k])
    <2> PICK n : n = off + k - 1
      OBVIOUS
    <2> PICK m : m = off + k
      OBVIOUS
    <2>1. n \in Nat /\ m = n + 1 /\ m <= Len(fields)
      BY <1>1, <1>2
    <2>fields. /\ kinds[k] \in Kinds \cup {"string"} /\ values[k] \in Argument(kinds[k])
               /\ fields[m] = Field(kinds[k], values[k])
      BY <1>1
    <2>2. FieldAt(octets, pos[n], kinds[k], values[k], pos[m])
      BY Zenon, <2>1, <2>fields, FieldPlaced
    <2>3. at[k - 1] = pos[n] /\ at[k] = pos[m]
      <3>1. k - 1 \in 0 .. count /\ k \in 0 .. count /\ off + (k - 1) = n
        OBVIOUS
      <3> QED BY <3>1
    <2> QED BY <2>2, <2>3
  <1> QED BY <1>3 DEF RowAt

\* inner are the places at, counted from b.
Apart(at, b, n, inner) == \A k \in 0 .. n : Counts(inner[k], at[k], b)

\* Places behind b can be counted from b.
LEMMA CountedFrom ==
  ASSUME NEW at, NEW b \in Nat, NEW n, \A k \in 0 .. n : at[k] \in Nat /\ at[k] >= b,
         NEW inner, inner = [k \in 0 .. n |-> at[k] - b]
  PROVE  Apart(at, b, n, inner)
  <1>1. ASSUME NEW k \in 0 .. n PROVE Counts(inner[k], at[k], b)
    <2>1. inner[k] = at[k] - b /\ at[k] \in Nat /\ at[k] >= b
      OBVIOUS
    <2> QED BY Zenon, <2>1, Subtracted
  <1> QED BY Zenon, <1>1 DEF Apart

\* A row behind b stands in what b leaves, at the places counted from b.
LEMMA RowInRest ==
  ASSUME NEW octets \in Seq(Octets), NEW b \in 0 .. Len(octets), NEW n \in Nat, NEW kinds,
         NEW values, NEW at, RowAt(octets, at, n, kinds, values),
         NEW inner, Apart(at, b, n, inner)
  PROVE  RowAt(Rest(octets, b), inner, n, kinds, values)
  <1>1. ASSUME NEW k \in 1 .. n
        PROVE  FieldAt(Rest(octets, b), inner[k - 1], kinds[k], values[k], inner[k])
    <2>1. k - 1 \in 0 .. n /\ k \in 0 .. n
      OBVIOUS
    <2>2. /\ inner[k - 1] \in Nat /\ inner[k] \in Nat
          /\ at[k - 1] = b + inner[k - 1] /\ at[k] = b + inner[k]
      BY Zenon, <2>1 DEF Apart, Counts
    <2>3. FieldAt(octets, at[k - 1], kinds[k], values[k], at[k])
      BY Zenon DEF RowAt
    <2>4. FieldAt(octets, b + inner[k - 1], kinds[k], values[k], b + inner[k])
      BY Zenon, <2>2, <2>3
    <2> QED BY Zenon, <2>2, <2>4, FieldInRest
  <1> QED BY Zenon, <1>1 DEF RowAt

\* They are read.
LEMMA ReadPlaced ==
  ASSUME NEW octets, NEW fields, NEW pos, Placement(octets, fields, pos),
         NEW off \in Nat, NEW kinds, NEW values, NEW count \in Nat,
         RowOf(fields, off, kinds, values, count), NEW end, end = off + count,
         NEW v, NEW vs, ReadTo(v, octets, pos[off], vs)
  PROVE  ReadTo(ParseFields(v, kinds), octets, pos[end], vs \o Until(values, count))
  <1> PICK at : at = [k \in 0 .. count |-> pos[off + k]]
    OBVIOUS
  <1>1. RowAt(octets, at, count, kinds, values)
    BY RowPlaced
  <1>2. at[0] = pos[off] /\ at[count] = pos[end]
    <2>1. 0 \in 0 .. count /\ count \in 0 .. count /\ off + 0 = off
      OBVIOUS
    <2> QED BY <2>1
  <1>3. octets \in Seq(Octets) /\ DOMAIN kinds = 1 .. count
    BY Places DEF RowOf
  <1>4. ReadTo(ParseFields(v, kinds), octets, at[count], vs \o Until(values, count))
    BY <1>1, <1>2, <1>3, ReadRow
  <1> QED BY <1>2, <1>4

\* The size and the type in front.
LEMMA ReadHead ==
  ASSUME NEW m, Call(m), NEW octets, Holds(octets, m), NEW pos,
         Placement(octets, BuildFields(m), pos),
         NEW head, head = ParseFields(View(octets), <<"u32", "u8">>)
  PROVE  /\ RequestNames[head.values[2]] = m.type
         /\ ReadTo(WithoutValues(head), octets, pos[0], <<>>)
  <1> PICK code : code = RequestCode(m.type)
    OBVIOUS
  <1> PICK w : w = Width["u32"]
    OBVIOUS
  <1> PICK at : at = [k \in 0 .. 2 |-> IF k = 0 THEN 0 ELSE IF k = 1 THEN w ELSE pos[0]]
    OBVIOUS
  <1> PICK kinds : kinds = <<"u32", "u8">>
    OBVIOUS
  <1> PICK values : values = <<Len(octets), code>>
    OBVIOUS
  <1>1. /\ octets \in Seq(Octets) /\ Len(octets) \in Nat /\ Len(octets) <= Capacity
        /\ StandsAt(octets, 0, LittleEndian(Len(octets), w))
        /\ StandsAt(octets, w, LittleEndian(code, Width["u8"]))
    BY DEF Holds, TypeOctets
  <1>2. pos[0] = w + Width["u8"] /\ w \in Nat
    BY Places, InLimits
  <1>3. code \in 1 .. 14 /\ RequestNames[code] = m.type
    BY TypeOctetsType
  <1>4. at[0] = 0 /\ at[1] = w /\ at[2] = pos[0]
    OBVIOUS
  <1>5. FieldAt(octets, at[0], "u32", Len(octets), at[1])
    <2>1. Len(octets) \in 0 .. Limit("u32") - 1
      BY <1>1, InLimits
    <2> QED BY <1>1, <1>2, <1>4, <2>1, InLimits DEF FieldAt
  <1>6. FieldAt(octets, at[1], "u8", code, at[2])
    <2>1. code \in 0 .. Limit("u8") - 1
      <3>1. code \in Nat /\ code <= 14
        BY <1>3
      <3>2. Limit("u8") \in Nat /\ Limit("u8") > 83
        BY InLimits
      <3> QED BY <3>1, <3>2
    <2> QED BY <1>1, <1>2, <1>4, <2>1, InLimits DEF FieldAt
  <1>7. RowAt(octets, at, 2, kinds, values)
    BY <1>5, <1>6 DEF RowAt
  <1>8. ReadTo(View(octets), octets, at[0], <<>>)
    BY <1>1, <1>4, ReadNothing
  <1> PICK read : read = <<>> \o Until(values, 2)
    OBVIOUS
  <1>9. ReadTo(head, octets, pos[0], read)
    <2>1. DOMAIN kinds = 1 .. 2
      OBVIOUS
    <2>2. ReadTo(ParseFields(View(octets), kinds), octets, at[2], <<>> \o Until(values, 2))
      BY <1>1, <1>7, <1>8, <2>1, ReadRow
    <2> QED BY <1>4, <2>2
  <1>10. head.values = read /\ read[2] = code
    <2>1. read = Until(values, 2) /\ Until(values, 2)[2] = values[2]
      BY UntilAll
    <2>2. head = At(octets, pos[0], read)
      BY <1>9 DEF ReadTo
    <2>3. At(octets, pos[0], read).values = read
      BY DEF At
    <2>4. read[2] = code
      BY <2>1
    <2> QED BY <2>2, <2>3, <2>4
  <1> QED BY <1>1, <1>3, <1>9, <1>10, Emptied

\* A row behind another.
LEMMA Appended ==
  ASSUME NEW S, NEW s \in Seq(S), NEW t \in Seq(S), NEW st, st = s \o t
  PROVE  /\ st \in Seq(S) /\ Len(st) = Len(s) + Len(t)
         /\ \A i \in 1 .. Len(s) : st[i] = s[i]
         /\ \A j \in 1 .. Len(t) : st[Len(s) + j] = t[j]
  <1>1. /\ st \in Seq(S) /\ Len(st) = Len(s) + Len(t)
        /\ \A i \in 1 .. Len(s) + Len(t) : st[i] = IF i <= Len(s) THEN s[i] ELSE t[i - Len(s)]
    BY ConcatProperties
  <1>2. Len(s) \in Nat /\ Len(t) \in Nat
    OBVIOUS
  <1> QED BY <1>1, <1>2

\* The first fields are the arguments that are written as they are.
FixedRow(fields, m, extra, c) ==
    /\ c \in Nat
    /\ RowOf(fields, 0, ArgKinds(m.type), m.args, c)
    /\ Len(fields) = c + Len(extra)
    /\ \A j \in 1 .. Len(extra) : fields[c + j] = extra[j]

\* BuildFields begins with them.
LEMMA FixedFirst ==
  ASSUME NEW m, Call(m), NEW extra \in Seq(WireFields), NEW fields,
         fields = FieldsOf(ArgKinds(m.type), m.args) \o extra,
         NEW c, c = Len(ArgKinds(m.type))
  PROVE  FixedRow(fields, m, extra, c)
  <1> PICK kinds : kinds = ArgKinds(m.type)
    OBVIOUS
  <1> PICK args : args = m.args
    OBVIOUS
  <1> PICK fixed : fixed = FieldsOf(kinds, args)
    OBVIOUS
  <1>1. kinds \in Seq(Kinds \cup {"string"}) /\ Arguments(kinds, args)
    <2>1. m.type \in Types
      BY TypesAre DEF Call
    <2> QED BY <2>1, ArgKindsType DEF Call
  <1>2. fixed \in Seq(WireFields)
    BY <1>1, FieldsTyped
  <1>3. Len(fixed) = c /\ c \in Nat /\ \A k \in 1 .. c : fixed[k] = Field(kinds[k], args[k])
    BY <1>1 DEF FieldsOf
  <1>4. /\ Len(fields) = c + Len(extra)
        /\ \A k \in 1 .. c : fields[k] = fixed[k]
        /\ \A j \in 1 .. Len(extra) : fields[c + j] = extra[j]
    <2>1. /\ Len(fields) = Len(fixed) + Len(extra)
          /\ \A k \in 1 .. Len(fixed) : fields[k] = fixed[k]
          /\ \A j \in 1 .. Len(extra) : fields[Len(fixed) + j] = extra[j]
      BY <1>2, Appended
    <2> QED BY <1>3, <2>1
  <1>5. RowOf(fields, 0, kinds, args, c)
    <2>1. 0 + c <= Len(fields) /\ DOMAIN kinds = 1 .. c
      BY <1>1, <1>3, <1>4
    <2>2. \A k \in 1 .. c : kinds[k] \in Kinds \cup {"string"} /\ args[k] \in Argument(kinds[k])
      <3>1. \A k \in DOMAIN kinds : args[k] \in Argument(kinds[k])
        BY <1>1 DEF Arguments
      <3>2. \A k \in DOMAIN kinds : kinds[k] \in Kinds \cup {"string"}
        BY <1>1
      <3> QED BY <2>1, <3>1, <3>2
    <2>3. \A k \in 1 .. c : fields[0 + k] = Field(kinds[k], args[k])
      BY <1>3, <1>4
    <2> QED BY <2>1, <2>2, <2>3 DEF RowOf
  <1> QED BY <1>3, <1>4, <1>5 DEF FixedRow

\* What the others write behind them.
Extra(m) ==
    LET last == Last(m.args)
    IN  CASE m.type = "TWalk" -> <<Field("u16", Narrow(Len(last), "u16"))>>
                                     \o [i \in DOMAIN last |-> Field("string", last[i])]
          [] m.type = "TOpen" -> <<Field("u8", encode(last))>>
          [] m.type = "TWrite" -> <<Field("u32", Narrow(Len(last), "u32")), Field("raw", last)>>
          [] m.type = "TWStat" -> <<Field("u16", Narrow(EncodedStatSize(last), "u16"))>>
                                      \o FieldsOf(Stat, last)
          [] OTHER -> <<>>

\* BuildFields is the one behind the other.
LEMMA ExtraType ==
  ASSUME NEW m, Call(m)
  PROVE  /\ Extra(m) \in Seq(WireFields)
         /\ BuildFields(m) = FieldsOf(ArgKinds(m.type), m.args) \o Extra(m)
  <1> PICK fixed : fixed = FieldsOf(ArgKinds(m.type), m.args)
    OBVIOUS
  <1> PICK last : last = Last(m.args)
    OBVIOUS
  <1> PICK extra : extra = Extra(m)
    OBVIOUS
  <1>1. m.type \in Types
    BY TypesAre DEF Call
  <1>2. fixed \in Seq(WireFields)
    <2>1. Arguments(ArgKinds(m.type), m.args)
      BY DEF Call
    <2> QED BY <1>1, <2>1, ArgKindsType, FieldsTyped
  <1>3. m.type \in {"TWalk", "TOpen", "TWrite", "TWStat"} => LastArgument(m.type, last)
    BY DEF Call
  <1>4. CASE m.type = "TWalk"
    <2> PICK count : count = <<Field("u16", Narrow(Len(last), "u16"))>>
      OBVIOUS
    <2> PICK names : names = [i \in DOMAIN last |-> Field("string", last[i])]
      OBVIOUS
    <2>1. last \in Seq(Seq(Octets))
      BY <1>3, <1>4 DEF LastArgument
    <2>2. count \in Seq(WireFields)
      BY <2>1, KindsAre, NarrowType
    <2>3. names \in Seq(WireFields)
      <3>1. \A i \in 1 .. Len(last) : Field("string", last[i]) \in WireFields
        BY <2>1 DEF Field, WireFields
      <3>2. names = [i \in 1 .. Len(last) |-> Field("string", last[i])]
        BY <2>1
      <3> QED BY <2>1, <3>1, <3>2
    <2>4. BuildFields(m) = (fixed \o count) \o names
      BY <1>4 DEF BuildFields
    <2>5. extra = count \o names
      BY <1>4 DEF Extra
    <2> QED BY <1>2, <2>2, <2>3, <2>4, <2>5, ConcatAssociative, ConcatProperties
  <1>5. CASE m.type = "TOpen"
    <2>1. last \in FileModes
      BY <1>3, <1>5 DEF LastArgument
    <2>2. Field("u8", encode(last)) \in WireFields
      BY <2>1, EncodeType, KindsAre DEF Field, WireFields
    <2>3. extra = <<Field("u8", encode(last))>>
      BY <1>5 DEF Extra
    <2>4. BuildFields(m) = fixed \o extra
      BY <1>5, <2>3 DEF BuildFields
    <2> QED BY <2>2, <2>3, <2>4
  <1>6. CASE m.type = "TWrite"
    <2>1. last \in Seq(Octets)
      BY <1>3, <1>6 DEF LastArgument
    <2>2. Field("raw", last) \in WireFields /\ Field("u32", Narrow(Len(last), "u32")) \in WireFields
      <3>1. Field("raw", last) \in WireFields
        BY <2>1 DEF Field, WireFields
      <3>2. Len(last) \in Nat /\ "u32" \in Kinds
        BY <2>1, KindsAre
      <3> QED BY <3>1, <3>2, NarrowType
    <2>3. extra = <<Field("u32", Narrow(Len(last), "u32")), Field("raw", last)>>
      BY <1>6 DEF Extra
    <2>4. BuildFields(m) = fixed \o extra
      BY <1>6, <2>3 DEF BuildFields
    <2> QED BY <2>2, <2>3, <2>4
  <1>7. CASE m.type = "TWStat"
    <2> PICK size : size = <<Field("u16", Narrow(EncodedStatSize(last), "u16"))>>
      OBVIOUS
    <2> PICK stat : stat = FieldsOf(Stat, last)
      OBVIOUS
    <2>1. Arguments(Stat, last)
      BY <1>3, <1>7 DEF LastArgument
    <2>2. size \in Seq(WireFields)
      BY <2>1, StatSizeType, KindsAre, NarrowType
    <2>3. stat \in Seq(WireFields)
      BY <2>1, StatKinds, FieldsTyped
    <2>4. BuildFields(m) = (fixed \o size) \o stat
      BY <1>7 DEF BuildFields
    <2>5. extra = size \o stat
      BY <1>7 DEF Extra
    <2> QED BY <1>2, <2>2, <2>3, <2>4, <2>5, ConcatAssociative, ConcatProperties
  <1>8. CASE m.type \notin {"TWalk", "TOpen", "TWrite", "TWStat"}
    <2>1. BuildFields(m) = fixed /\ extra = <<>>
      BY <1>8 DEF BuildFields, Extra
    <2> QED BY <1>2, <2>1
  <1> QED BY <1>4, <1>5, <1>6, <1>7, <1>8

\* The first arguments are read: the view is behind them, with their values.
ReadUpTo(m, octets, pos, v, c) ==
    /\ Call(m) /\ Placement(octets, BuildFields(m), pos)
    /\ c = Len(ArgKinds(m.type)) /\ c \in Nat
    /\ Len(BuildFields(m)) = c + Len(Extra(m))
    /\ \A j \in 1 .. Len(Extra(m)) : BuildFields(m)[c + j] = Extra(m)[j]
    /\ ReadTo(v, octets, pos[c], Until(m.args, c))

\* ParseFields reads them where they stand.
LEMMA ReadFixed ==
  ASSUME NEW m, Call(m), NEW octets, NEW pos, Placement(octets, BuildFields(m), pos),
         NEW v, ReadTo(v, octets, pos[0], <<>>), NEW c, c = Len(ArgKinds(m.type))
  PROVE  ReadUpTo(m, octets, pos, ParseFields(v, ArgKinds(m.type)), c)
  <1> PICK fields : fields = BuildFields(m)
    OBVIOUS
  <1>1. /\ c \in Nat
        /\ RowOf(fields, 0, ArgKinds(m.type), m.args, c)
        /\ Len(fields) = c + Len(Extra(m))
        /\ \A j \in 1 .. Len(Extra(m)) : fields[c + j] = Extra(m)[j]
    <2> PICK extra : extra = Extra(m)
      OBVIOUS
    <2>1. extra \in Seq(WireFields) /\ fields = FieldsOf(ArgKinds(m.type), m.args) \o extra
      BY ExtraType
    <2>2. FixedRow(fields, m, extra, c)
      BY <2>1, FixedFirst
    <2> QED BY <2>2 DEF FixedRow
  <1>2. ReadTo(ParseFields(v, ArgKinds(m.type)), octets, pos[c], <<>> \o Until(m.args, c))
    <2>1. 0 + c = c
      BY <1>1
    <2> QED BY <1>1, <2>1, ReadPlaced
  <1>3. <<>> \o Until(m.args, c) = Until(m.args, c)
    BY <1>1, UntilAll
  <1> QED BY <1>1, <1>2, <1>3 DEF ReadUpTo

Others == {"TWalk", "TOpen", "TWrite", "TWStat"}

\* The arguments of a call are those of its kinds and, for four types, a last one.
LEMMA CallRow ==
  ASSUME NEW m, Call(m), NEW c, c = Len(ArgKinds(m.type)), c \in Nat
  PROVE  /\ m.type \notin Others => Until(m.args, c) = m.args
         /\ m.type \in Others => Append(Until(m.args, c), Last(m.args)) = m.args
         /\ m.type \in Others => LastArgument(m.type, Last(m.args))
  <1>1. CASE m.type \notin Others
    <2>1. Row(m.args, c + 0) /\ c + 0 = c
      BY <1>1 DEF Call, Others
    <2> QED BY <1>1, <2>1, UntilAll
  <1>2. CASE m.type \in Others
    <2>1. Row(m.args, c + 1)
      BY <1>2 DEF Call, Others
    <2>2. Append(Until(m.args, c), m.args[c + 1]) = m.args /\ Last(m.args) = m.args[c + 1]
      BY <2>1, UntilAll
    <2>3. LastArgument(m.type, Last(m.args))
      BY <1>2 DEF Call, Others
    <2> QED BY <1>2, <2>2, <2>3
  <1> QED BY <1>1, <1>2

\* Arguments that are all written as they are.
LEMMA ReadsOthers ==
  ASSUME NEW m, NEW octets, NEW pos, NEW v, NEW c,
         ReadUpTo(m, octets, pos, ParseFields(v, ArgKinds(m.type)), c), m.type \notin Others
  PROVE  ReadArgs(m.type, v) = m.args
  <1> PICK fixed : fixed = ParseFields(v, ArgKinds(m.type))
    OBVIOUS
  <1>1. fixed.values = Until(m.args, c)
    <2>1. ReadTo(fixed, octets, pos[c], Until(m.args, c))
      BY DEF ReadUpTo
    <2> QED BY <2>1, ReadValues
  <1>2. Until(m.args, c) = m.args
    BY CallRow DEF ReadUpTo
  <1>3. ReadArgs(m.type, v) = fixed.values
    <2>1. /\ m.type # "TWalk" /\ m.type # "TOpen" /\ m.type # "TWrite" /\ m.type # "TWStat"
      BY DEF Others
    <2> QED BY <2>1, Zenon DEF ReadArgs
  <1> QED BY <1>1, <1>2, <1>3

\* The parts of a file mode are apart in its octet.
ModeOf(e, a, t, r) ==
    e % 4 = a /\ ((e \div 16) % 2 = 1 <=> t = 16) /\ ((e \div 64) % 2 = 1 <=> r = 64)

\* Sums of an access, OTRUNC and ORCLOSE come apart by division.
LEMMA ModeBits ==
  \A a \in 0 .. 3, t \in {0, 16}, r \in {0, 64} : ModeOf(a + t + r, a, t, r)
  <1> TAKE a \in 0 .. 3, t \in {0, 16}, r \in {0, 64}
  <1> PICK e : e = a + t + r
    OBVIOUS
  <1>1. CASE t = 0 /\ r = 0
    <2>1. e = a + 0
      BY <1>1
    <2>2. e \div 16 = 0 /\ e \div 64 = 0 /\ e % 4 = a
      BY <2>1
    <2> QED BY <1>1, <2>2 DEF ModeOf
  <1>2. CASE t = 16 /\ r = 0
    <2>1. e = a + 16
      BY <1>2
    <2>2. e \div 16 = 1 /\ e \div 64 = 0 /\ e % 4 = a
      BY <2>1
    <2> QED BY <1>2, <2>2 DEF ModeOf
  <1>3. CASE t = 0 /\ r = 64
    <2>1. e = a + 64
      BY <1>3
    <2>2. e \div 16 = 4 /\ e \div 64 = 1 /\ e % 4 = a
      BY <2>1
    <2> QED BY <1>3, <2>2 DEF ModeOf
  <1>4. CASE t = 16 /\ r = 64
    <2>1. e = a + 80
      BY <1>4
    <2>2. e \div 16 = 5 /\ e \div 64 = 1 /\ e % 4 = a
      BY <2>1
    <2> QED BY <1>4, <2>2 DEF ModeOf
  <1> QED BY <1>1, <1>2, <1>3, <1>4

\* A file mode is what its octet is decoded to.
LEMMA ModeRoundTrip ==
  ASSUME NEW mode \in FileModes
  PROVE  decode(encode(mode)) = mode /\ encode(mode) \in 0 .. 83
  <1> PICK a : a = encodeFileModeAccess(mode.access)
    OBVIOUS
  <1> PICK t : t = Flag(mode.truncate, OTRUNC)
    OBVIOUS
  <1> PICK r : r = Flag(mode.remove_on_close, ORCLOSE)
    OBVIOUS
  <1>1. /\ mode = [access |-> mode.access, truncate |-> mode.truncate,
                   remove_on_close |-> mode.remove_on_close]
        /\ mode.truncate \in BOOLEAN /\ mode.remove_on_close \in BOOLEAN
        /\ mode.access \in Range(Access)
    BY DEF FileModes
  <1>2. a \in 0 .. 3 /\ Access[a + 1] = mode.access
    <2>1. \E i \in DOMAIN Access : Access[i] = mode.access
      BY <1>1 DEF Range
    <2> PICK i \in DOMAIN Access : Access[i] = mode.access /\ a = i - 1
      BY <2>1 DEF encodeFileModeAccess
    <2>2. i \in 1 .. 4
      BY DEF Access
    <2>3. a \in 0 .. 3 /\ a + 1 = i
      BY <2>2
    <2> QED BY <2>3
  <1>3. /\ t \in {0, 16} /\ (mode.truncate <=> t = 16)
        /\ r \in {0, 64} /\ (mode.remove_on_close <=> r = 64)
    BY <1>1 DEF Flag, OTRUNC, ORCLOSE
  <1> PICK e : e = encode(mode)
    OBVIOUS
  <1>4. e = a + t + r
    BY DEF encode
  <1>5. e \in 0 .. 83
    BY <1>2, <1>3, <1>4
  <1>6. e % 4 = a /\ ((e \div 16) % 2 = 1 <=> t = 16) /\ ((e \div 64) % 2 = 1 <=> r = 64)
    <2>1. ModeOf(a + t + r, a, t, r)
      BY <1>2, <1>3, ModeBits
    <2> QED BY <1>4, <2>1 DEF ModeOf
  <1> PICK d : d = decode(e)
    OBVIOUS
  <1>7. d = [access |-> Access[(e % 4) + 1],
             truncate |-> (e \div 16) % 2 = 1,
             remove_on_close |-> (e \div 64) % 2 = 1]
    BY DEF decode, decodeFileModeAccess, OTRUNC, ORCLOSE
  <1>8. Access[(e % 4) + 1] = mode.access
    BY <1>2, <1>6
  <1>9. ((e \div 16) % 2 = 1) = mode.truncate
    BY <1>1, <1>3, <1>6
  <1>10. ((e \div 64) % 2 = 1) = mode.remove_on_close
    BY <1>1, <1>3, <1>6
  <1>11. d = mode
    BY <1>1, <1>7, <1>8, <1>9, <1>10, Zenon
  <1> QED BY <1>5, <1>11

\* The server reads the mode of a TOpen: decode undoes encode.
LEMMA ReadsOpen ==
  ASSUME NEW m, NEW octets, NEW pos, NEW v, NEW c,
         ReadUpTo(m, octets, pos, ParseFields(v, ArgKinds(m.type)), c), m.type = "TOpen"
  PROVE  ReadArgs(m.type, v) = m.args
  <1> PICK fixed : fixed = ParseFields(v, ArgKinds(m.type))
    OBVIOUS
  <1> PICK fields : fields = BuildFields(m)
    OBVIOUS
  <1> PICK vs : vs = Until(m.args, c)
    OBVIOUS
  <1> PICK last : last = Last(m.args)
    OBVIOUS
  <1> PICK e : e = encode(last)
    OBVIOUS
  <1> PICK q : q = c + 1
    OBVIOUS
  <1>1. /\ Placement(octets, fields, pos) /\ c \in Nat
        /\ ReadTo(fixed, octets, pos[c], vs) /\ fixed.values = vs
    <2>1. ReadTo(fixed, octets, pos[c], vs)
      BY DEF ReadUpTo
    <2>2. fixed.values = vs
      BY <2>1, ReadValues
    <2> QED BY <2>1, <2>2 DEF ReadUpTo
  <1>2. Append(vs, last) = m.args /\ last \in FileModes
    <2>1. Append(vs, last) = m.args /\ LastArgument(m.type, last)
      BY CallRow DEF ReadUpTo, Others
    <2> QED BY <2>1 DEF LastArgument
  <1>3. Extra(m) = <<Field("u8", e)>>
    BY DEF Extra
  <1>4. Len(fields) = q /\ fields[q] = Field("u8", e)
    <2>1. Len(Extra(m)) = 1 /\ Extra(m)[1] = Field("u8", e) /\ 1 \in 1 .. 1
      BY <1>3
    <2> QED BY <2>1 DEF ReadUpTo
  <1>5. decode(e) = last /\ e \in 0 .. 83
    BY <1>2, ModeRoundTrip
  <1>6. FieldAt(octets, pos[c], "u8", e, pos[q])
    <2>1. e \in Argument("u8") /\ "u8" \in Kinds
      BY <1>5, InLimits DEF Argument
    <2> QED BY <1>1, <1>4, <2>1, FieldPlaced
  <1>7. Last(ParseFields(fixed, <<"u8">>).values) = e
    <2>1. ReadTo(ParseFields(fixed, <<"u8">>), octets, pos[q], Append(vs, e))
      <3>1. octets \in Seq(Octets)
        BY <1>1, Places
      <3> QED BY <1>1, <1>6, <3>1, ReadSingle
    <2>2. ParseFields(fixed, <<"u8">>).values = Append(vs, e)
      BY <2>1, ReadValues
    <2>3. vs \in Seq(Values) /\ e \in Values
      <3>1. vs \in Seq(Values)
        BY <1>1 DEF ReadTo
      <3>2. e \in Nat
        BY <1>5
      <3> QED BY <3>1, <3>2 DEF Values
    <2> QED BY <2>2, <2>3, AppendedLast
  <1>8. ReadArgs(m.type, v) =
            Append(fixed.values, decode(Last(ParseFields(fixed, <<"u8">>).values)))
    BY Zenon DEF ReadArgs
  <1> QED BY <1>1, <1>2, <1>5, <1>7, <1>8

\* The server reads the data of a TWrite by the length in front of them.
LEMMA ReadsWrite ==
  ASSUME NEW m, NEW octets, NEW pos, NEW v, NEW c,
         ReadUpTo(m, octets, pos, ParseFields(v, ArgKinds(m.type)), c), m.type = "TWrite"
  PROVE  ReadArgs(m.type, v) = m.args
  <1> PICK fixed : fixed = ParseFields(v, ArgKinds(m.type))
    OBVIOUS
  <1> PICK fields : fields = BuildFields(m)
    OBVIOUS
  <1> PICK vs : vs = Until(m.args, c)
    OBVIOUS
  <1> PICK last : last = Last(m.args)
    OBVIOUS
  <1> PICK size : size = Narrow(Len(last), "u32")
    OBVIOUS
  <1> PICK q : q = c + 1
    OBVIOUS
  <1> PICK r : r = c + 2
    OBVIOUS
  <1>1. /\ Placement(octets, fields, pos) /\ c \in Nat
        /\ ReadTo(fixed, octets, pos[c], vs) /\ fixed.values = vs
    <2>1. ReadTo(fixed, octets, pos[c], vs)
      BY DEF ReadUpTo
    <2>2. fixed.values = vs
      BY <2>1, ReadValues
    <2> QED BY <2>1, <2>2 DEF ReadUpTo
  <1>2. Append(vs, last) = m.args /\ last \in Seq(Octets)
    <2>1. Append(vs, last) = m.args /\ LastArgument(m.type, last)
      BY CallRow DEF ReadUpTo, Others
    <2> QED BY <2>1 DEF LastArgument
  <1>3. Extra(m) = <<Field("u32", size), Field("raw", last)>>
    BY DEF Extra
  <1>4. Len(fields) = r /\ fields[q] = Field("u32", size) /\ fields[r] = Field("raw", last)
    <2>1. /\ Len(Extra(m)) = 2 /\ 1 \in 1 .. 2 /\ 2 \in 1 .. 2
          /\ Extra(m)[1] = Field("u32", size) /\ Extra(m)[2] = Field("raw", last)
      BY <1>3
    <2> QED BY <2>1 DEF ReadUpTo
  <1>5. /\ q \in 1 .. Len(fields) /\ r \in 1 .. Len(fields) /\ q - 1 = c /\ r - 1 = q
        /\ q \in 0 .. Len(fields) /\ r \in 0 .. Len(fields) /\ c \in 0 .. Len(fields)
    BY <1>1, <1>4
  <1>6. /\ pos[q] = pos[c] + FieldSize(fields[q])
        /\ StandsAt(octets, pos[c], FieldOctets(fields[q]))
        /\ pos[r] = pos[q] + FieldSize(fields[r])
        /\ StandsAt(octets, pos[q], FieldOctets(fields[r]))
        /\ pos[c] \in 0 .. Len(octets) /\ pos[q] \in 0 .. Len(octets)
        /\ pos[r] \in 0 .. Len(octets)
        /\ octets \in Seq(Octets) /\ Len(octets) \in Nat /\ Len(octets) <= Capacity
    BY <1>1, <1>5, Places
  <1>7. FieldSize(fields[r]) = Len(last) /\ FieldOctets(fields[r]) = last
    <2>1. fields[r].kind = "raw" /\ fields[r].value = last
      BY <1>4 DEF Field
    <2> QED BY <2>1 DEF FieldSize, FieldOctets
  <1>8. /\ FieldSize(fields[q]) = Width["u32"]
        /\ FieldOctets(fields[q]) = LittleEndian(size, Width["u32"])
    <2>1. fields[q].kind = "u32" /\ fields[q].value = size
      BY <1>4 DEF Field
    <2> QED BY <2>1 DEF FieldSize, FieldOctets, EncodedSize
  <1>9. Len(last) \in Nat /\ Len(last) < Limit("u32")
    <2>1. /\ Len(last) \in Nat /\ pos[q] \in Nat /\ pos[r] \in Nat /\ Capacity \in Nat
          /\ Limit("u32") \in Nat /\ Capacity < Limit("u32") /\ pos[r] <= Len(octets)
      BY <1>2, <1>6, InLimits
    <2>2. pos[r] = pos[q] + Len(last)
      BY Zenon, <1>6, <1>7
    <2>3. Len(last) <= Capacity
      BY Zenon, <1>6, <2>1, <2>2, Inside
    <2> QED BY Zenon, <2>1, <2>3, BelowLimit
  <1>10. size = Len(last)
    <2>1. Len(last) \in 0 .. Limit("u32") - 1
      BY <1>9, InLimits
    <2> QED BY <2>1, InLimits, WithinModulus DEF Narrow
  <1>11. SizedAt(octets, pos[c], "u32", last, pos[r])
    BY <1>6, <1>7, <1>8, <1>9, <1>10, InLimits DEF SizedAt
  <1>12. Last(parseRRead(fixed).values) = last
    <2> PICK w : w = SizedView(fixed, "u32")
      OBVIOUS
    <2>1. vs \in Seq(Values) /\ last \in Values
      BY <1>1, <1>2 DEF ReadTo, Values
    <2>2. ReadTo(w, octets, pos[r], Append(vs, last))
      <3>1. "u32" \in Kinds /\ octets \in Seq(Octets)
        BY <1>6, InLimits
      <3> QED BY <1>1, <1>2, <1>11, <3>1, ReadSizedTo
    <2>3. w.values = Append(vs, last)
      BY <2>2, ReadValues
    <2>4. parseRRead(fixed) = w
      BY Zenon DEF parseRRead
    <2>5. Last(Append(vs, last)) = last
      BY <2>1, AppendedLast
    <2> QED BY <2>3, <2>4, <2>5
  <1>13. ReadArgs(m.type, v) = Append(fixed.values, Last(parseRRead(fixed).values))
    BY Zenon DEF ReadArgs
  <1> QED BY <1>1, <1>2, <1>12, <1>13

\* A sequence is a row of its own length.
LEMMA SequenceIsRow ==
  ASSUME NEW S, NEW s \in Seq(S), NEW n, n = Len(s)
  PROVE  Row(s, n)
  <1>1. DOMAIN s = 1 .. n /\ s = [i \in DOMAIN s |-> s[i]]
    OBVIOUS
  <1> QED BY <1>1 DEF Row

\* The number of what follows is read.
NumberRead(octets, p, q, next, n) ==
    /\ Last(next.values) = n
    /\ ReadTo(WithoutValues(next), octets, q, <<>>)
    /\ next.rest = Rest(octets, q)
    /\ FieldAt(octets, p, "u16", n, q)

\* A number that was narrowed to a u16 is read as it was: the buffer has no room for more.
LEMMA ReadNumber ==
  ASSUME NEW octets, NEW fields, NEW pos, Placement(octets, fields, pos),
         NEW c \in Nat, NEW q, q = c + 1, q <= Len(fields),
         NEW n \in Nat, n <= Capacity, fields[q] = Field("u16", Narrow(n, "u16")),
         NEW v, NEW vs, ReadTo(v, octets, pos[c], vs),
         NEW next, next = ParseFields(v, <<"u16">>)
  PROVE  NumberRead(octets, pos[c], pos[q], next, n)
  <1>1. n \in 0 .. Limit("u16") - 1
    BY InLimits
  <1>2. Narrow(n, "u16") = n
    BY <1>1, InLimits, WithinModulus DEF Narrow
  <1>3. FieldAt(octets, pos[c], "u16", n, pos[q])
    <2>1. n \in Argument("u16") /\ "u16" \in Kinds
      BY <1>1, InLimits DEF Argument
    <2> QED BY <1>2, <2>1, FieldPlaced
  <1>4. octets \in Seq(Octets)
    BY Places
  <1>5. ReadTo(next, octets, pos[q], Append(vs, n))
    BY <1>3, <1>4, ReadSingle
  <1>6. next.values = Append(vs, n) /\ next.rest = Rest(octets, pos[q])
    BY <1>5, ReadValues
  <1>7. Last(Append(vs, n)) = n
    <2>1. vs \in Seq(Values) /\ n \in Values
      BY DEF ReadTo, Values
    <2> QED BY <2>1, AppendedLast
  <1> QED BY <1>3, <1>4, <1>5, <1>6, <1>7, Emptied DEF NumberRead

\* The server reads as many names of a TWalk as were given, and each of them.
LEMMA ReadsWalk ==
  ASSUME NEW m, NEW octets, NEW pos, NEW v, NEW c,
         ReadUpTo(m, octets, pos, ParseFields(v, ArgKinds(m.type)), c), m.type = "TWalk"
  PROVE  ReadArgs(m.type, v) = m.args
  <1> PICK fixed : fixed = ParseFields(v, ArgKinds(m.type))
    OBVIOUS
  <1> PICK fields : fields = BuildFields(m)
    OBVIOUS
  <1> PICK vs : vs = Until(m.args, c)
    OBVIOUS
  <1> PICK last : last = Last(m.args)
    OBVIOUS
  <1> PICK n : n = Len(last)
    OBVIOUS
  <1> PICK extra : extra = Extra(m)
    OBVIOUS
  <1> PICK q : q = c + 1
    OBVIOUS
  <1> PICK kinds : kinds = [i \in 1 .. n |-> "string"]
    OBVIOUS
  <1>1. /\ Placement(octets, fields, pos) /\ c \in Nat
        /\ ReadTo(fixed, octets, pos[c], vs) /\ fixed.values = vs
    <2>1. ReadTo(fixed, octets, pos[c], vs)
      BY DEF ReadUpTo
    <2>2. fixed.values = vs
      BY <2>1, ReadValues
    <2> QED BY <2>1, <2>2 DEF ReadUpTo
  <1>2. Append(vs, last) = m.args /\ last \in Seq(Seq(Octets)) /\ n \in Nat
    <2>1. Append(vs, last) = m.args /\ LastArgument(m.type, last)
      BY CallRow DEF ReadUpTo, Others
    <2>2. last \in Seq(Seq(Octets))
      BY <2>1 DEF LastArgument
    <2> QED BY <2>1, <2>2
  <1>3. /\ Len(extra) = n + 1 /\ extra[1] = Field("u16", Narrow(n, "u16"))
        /\ \A i \in 1 .. n : extra[1 + i] = Field("string", last[i])
    <2> PICK count : count = <<Field("u16", Narrow(n, "u16"))>>
      OBVIOUS
    <2> PICK names : names = [i \in 1 .. n |-> Field("string", last[i])]
      OBVIOUS
    <2>1. count \in Seq(WireFields) /\ Len(count) = 1 /\ count[1] = Field("u16", Narrow(n, "u16"))
      BY <1>2, InLimits, NarrowType
    <2>2. names \in Seq(WireFields) /\ Len(names) = n
          /\ \A i \in 1 .. n : names[i] = Field("string", last[i])
      <3>1. \A i \in 1 .. n : Field("string", last[i]) \in WireFields
        BY <1>2 DEF Field, WireFields
      <3> QED BY <1>2, <3>1
    <2>3. extra = count \o names
      <3>1. names = [i \in DOMAIN last |-> Field("string", last[i])]
        BY <1>2
      <3> QED BY <3>1, Zenon DEF Extra
    <2>4. /\ Len(extra) = Len(count) + Len(names)
          /\ \A i \in 1 .. Len(count) : extra[i] = count[i]
          /\ \A j \in 1 .. Len(names) : extra[Len(count) + j] = names[j]
      BY <2>1, <2>2, <2>3, Appended
    <2>5. 1 \in 1 .. 1
      OBVIOUS
    <2> QED BY <1>2, <2>1, <2>2, <2>4, <2>5
  <1>4. /\ Len(fields) = q + n /\ fields[q] = Field("u16", Narrow(n, "u16"))
        /\ \A i \in 1 .. n : fields[q + i] = Field("string", last[i])
    <2>1. Len(fields) = c + Len(extra) /\ \A j \in 1 .. Len(extra) : fields[c + j] = extra[j]
      BY DEF ReadUpTo
    <2>2. Len(fields) = q + n /\ fields[q] = Field("u16", Narrow(n, "u16"))
      BY <1>1, <1>2, <1>3, <2>1
    <2>3. ASSUME NEW i \in 1 .. n PROVE fields[q + i] = Field("string", last[i])
      <3>1. 1 + i \in 1 .. Len(extra) /\ c + (1 + i) = q + i
        BY <1>1, <1>2, <1>3
      <3> QED BY <1>3, <2>1, <3>1
    <2> QED BY <2>2, <2>3
  <1>5. RowOf(fields, q, kinds, last, n)
    <2>1. q + n <= Len(fields) /\ DOMAIN kinds = 1 .. n
      BY <1>1, <1>2, <1>4
    <2>2. ASSUME NEW i \in 1 .. n
          PROVE  /\ kinds[i] \in Kinds \cup {"string"} /\ last[i] \in Argument(kinds[i])
                 /\ fields[q + i] = Field(kinds[i], last[i])
      <3>1. kinds[i] = "string" /\ last[i] \in Seq(Octets)
        BY <1>2
      <3> QED BY <1>4, <3>1 DEF Argument
    <2> QED BY <2>1, <2>2 DEF RowOf
  <1>6. n <= Capacity
    <2> DEFINE S == {i \in 0 .. n : i <= pos[q + i]}
    <2>1. q \in Nat /\ \A i \in 0 .. n : q + i \in 0 .. Len(fields) /\ pos[q + i] \in Nat
      BY <1>1, <1>2, <1>4, Places
    <2>2. 0 \in S
      <3>1. 0 \in 0 .. n
        BY <1>2
      <3> QED BY <2>1, <3>1
    <2>3. ASSUME NEW i \in 0 .. n - 1, i \in S PROVE i + 1 \in S
      <3> PICK k : k = i + 1
        OBVIOUS
      <3>1. /\ k \in 1 .. n /\ k \in 0 .. n /\ q + k \in 1 .. Len(fields)
            /\ (q + k) - 1 = q + i /\ i \in 0 .. n
        BY <1>2, <2>1
      <3>2. pos[q + k] = pos[q + i] + FieldSize(fields[q + k])
        BY <1>1, <3>1, Places
      <3>3. FieldSize(fields[q + k]) = Width["u16"] + Len(last[k]) /\ Len(last[k]) \in Nat
        <4>1. fields[q + k] = Field("string", last[k]) /\ last[k] \in Seq(Octets)
          BY <1>2, <1>4, <3>1
        <4> QED BY <4>1 DEF Field, FieldSize, EncodedSize
      <3>4. i <= pos[q + i] /\ pos[q + i] \in Nat
        BY <2>1, <2>3, <3>1
      <3>5. k <= pos[q + k]
        <4> PICK a : a = pos[q + i]
          OBVIOUS
        <4> PICK b : b = pos[q + k]
          OBVIOUS
        <4> PICK w : w = Width["u16"]
          OBVIOUS
        <4> PICK size : size = Len(last[k])
          OBVIOUS
        <4>1. b = a + (w + size)
          BY <3>2, <3>3
        <4>2. w \in Nat \ {0} /\ size \in Nat /\ a \in Nat /\ i <= a
          BY <3>3, <3>4, InLimits
        <4>3. k <= b
          <5>1. i \in Nat
            BY <3>1
          <5> QED BY Zenon, <4>1, <4>2, <5>1, StepsUp
        <4> QED BY <4>3
      <3> QED BY <3>1, <3>5
    <2> HIDE DEF S
    <2>4. 0 .. n \subseteq S
      BY <1>2, <2>2, <2>3, UpTo
    <2>5. n <= pos[q + n]
      <3>1. n \in 0 .. n
        BY <1>2
      <3> QED BY <2>4, <3>1 DEF S
    <2>6. pos[q + n] = Len(octets) /\ Len(octets) \in Nat /\ Len(octets) <= Capacity
      <3>1. /\ pos[Len(fields)] = Len(octets) /\ Len(octets) \in Nat
            /\ Len(octets) <= Capacity
        BY <1>1, Places
      <3> QED BY <1>4, <3>1
    <2> QED BY <1>2, <2>5, <2>6, InLimits
  <1> PICK next : next = ParseFields(fixed, <<"u16">>)
    OBVIOUS
  <1>7. Last(next.values) = n /\ ReadTo(WithoutValues(next), octets, pos[q], <<>>)
    <2>1. q <= Len(fields)
      BY <1>1, <1>2, <1>4
    <2>2. NumberRead(octets, pos[c], pos[q], next, n)
      BY <1>1, <1>2, <1>4, <1>6, <2>1, ReadNumber
    <2> QED BY <2>2 DEF NumberRead
  <1>8. ParseFields(WithoutValues(next), kinds).values = last
    <2> PICK end : end = q + n
      OBVIOUS
    <2>1. ReadTo(ParseFields(WithoutValues(next), kinds), octets, pos[end], <<>> \o Until(last, n))
      <3>1. q \in Nat
        BY <1>1
      <3> QED BY <1>1, <1>2, <1>5, <1>7, <3>1, ReadPlaced
    <2>2. Row(last, n)
      BY <1>2, SequenceIsRow
    <2>3. <<>> \o Until(last, n) = last
      BY <1>2, <2>2, UntilAll
    <2> PICK names : names = ParseFields(WithoutValues(next), kinds)
      OBVIOUS
    <2>4. ReadTo(names, octets, pos[end], last)
      BY <2>1, <2>3
    <2> QED BY <2>4, ReadValues
  <1>9. ReadArgs(m.type, v) =
            Append(fixed.values,
                   ParseFields(WithoutValues(next), [i \in 1 .. Last(next.values) |-> "string"]).values)
    BY Zenon DEF ReadArgs, WithoutValues
  <1> QED BY <1>1, <1>2, <1>7, <1>8, <1>9

\* The size of a stat is that of its fields.
StatSizes(stat) == [i \in DOMAIN Stat |-> EncodedSize(Stat[i], stat[i])]

\* They are naturals, and EncodedStatSize is their sum.
LEMMA StatSizesType ==
  ASSUME NEW stat, Arguments(Stat, stat)
  PROVE  /\ StatSizes(stat) \in Seq(Nat) /\ Len(StatSizes(stat)) = Len(Stat)
         /\ EncodedStatSize(stat) = Total(StatSizes(stat))
  <1>1. ASSUME NEW i \in DOMAIN Stat PROVE EncodedSize(Stat[i], stat[i]) \in Nat
    <2>1. Stat[i] \in Kinds \cup {"string"} /\ stat[i] \in Argument(Stat[i])
      BY StatKinds DEF Arguments
    <2>2. Width["u16"] \in Nat
      BY KindsAre, LimitPositive
    <2> QED BY <2>1, <2>2, LimitPositive DEF EncodedSize, Argument
  <1>2. StatSizes(stat) \in Seq(Nat) /\ Len(StatSizes(stat)) = Len(Stat)
    BY <1>1, StatKinds DEF StatSizes
  <1>3. EncodedStatSize(stat) = Total(StatSizes(stat))
    BY Zenon DEF EncodedStatSize, Total, StatSizes
  <1> QED BY <1>2, <1>3

\* From this place on the octets are as many as the stat takes.
StatFills(octets, at, stat) == Len(octets) = at + EncodedStatSize(stat)

\* The fields behind the first q are those of the stat.
StatBehind(fields, q, stat, n) ==
    /\ n = Len(Stat) /\ Len(fields) = q + n
    /\ \A i \in 1 .. n : fields[q + i] = Field(Stat[i], stat[i])

\* The fields of a stat stand behind one another.
LEMMA StatPlaced ==
  ASSUME NEW octets, NEW fields, NEW pos, Placement(octets, fields, pos),
         NEW q \in Nat, NEW stat, Arguments(Stat, stat), NEW n, StatBehind(fields, q, stat, n)
  PROVE  StatFills(octets, pos[q], stat)
  <1> n = Len(Stat) /\ Len(fields) = q + n
      /\ \A i \in 1 .. n : fields[q + i] = Field(Stat[i], stat[i])
    BY DEF StatBehind
  <1> PICK sizes : sizes = StatSizes(stat)
    OBVIOUS
  <1>1. /\ sizes \in Seq(Nat) /\ Len(sizes) = n /\ EncodedStatSize(stat) = Total(sizes)
        /\ n \in Nat /\ DOMAIN Stat = 1 .. n
    BY StatSizesType, StatKinds
  <1> PICK sum : IsSum(sizes, sum) /\ Total(sizes) = sum[n]
    BY <1>1, TotalIsSum
  <1>2. /\ sum \in [0 .. n -> Nat] /\ sum[0] = 0
        /\ \A k \in 1 .. n : sum[k] = sum[k - 1] + sizes[k]
    BY <1>1 DEF IsSum
  <1>3. \A k \in 0 .. n : q + k \in 0 .. Len(fields) /\ pos[q + k] \in Nat
    BY <1>1, Places
  <1>next. \A r \in 1 .. Len(fields) : pos[r] = pos[r - 1] + FieldSize(fields[r])
    BY Places
  <1> DEFINE S == {k \in 0 .. n : pos[q + k] = pos[q] + sum[k]}
  <1>4. 0 \in S
    <2>1. 0 \in 0 .. n /\ q + 0 = q
      BY <1>1
    <2>2. pos[q] \in Nat
      BY <1>3, <2>1
    <2> QED BY <1>2, <2>1, <2>2
  <1>5. ASSUME NEW i \in 0 .. n - 1, i \in S PROVE i + 1 \in S
    <2> PICK k : k = i + 1
      OBVIOUS
    <2>1. /\ k \in 1 .. n /\ k \in 0 .. n /\ q + k \in 1 .. Len(fields)
          /\ (q + k) - 1 = q + i /\ i \in 0 .. n /\ k - 1 = i
      BY <1>1
    <2>2. pos[q + k] = pos[q + i] + FieldSize(fields[q + k])
      <3> PICK r : r = q + k
        OBVIOUS
      <3>1. r \in 1 .. Len(fields) /\ r - 1 = q + i
        BY <2>1
      <3>2. pos[r] = pos[r - 1] + FieldSize(fields[r])
        BY <1>next, <3>1
      <3> QED BY <3>1, <3>2
    <2>3. FieldSize(fields[q + k]) = sizes[k] /\ sizes[k] \in Nat
      <3>1. Stat[k] \in Kinds \cup {"string"}
        BY <1>1, <2>1, StatKinds
      <3>2. Stat[k] # "raw"
        BY <3>1 DEF Kinds
      <3>3. fields[q + k].kind = Stat[k] /\ fields[q + k].value = stat[k]
        <4>1. fields[q + k] = Field(Stat[k], stat[k])
          BY <2>1
        <4> QED BY <4>1 DEF Field
      <3>4. FieldSize(fields[q + k]) = EncodedSize(Stat[k], stat[k])
        BY <3>2, <3>3 DEF FieldSize
      <3>5. sizes[k] = EncodedSize(Stat[k], stat[k])
        BY <1>1, <2>1 DEF StatSizes
      <3> QED BY <1>1, <2>1, <3>4, <3>5
    <2>4. pos[q + k] = pos[q] + sum[k]
      <3>a. PICK a : a = pos[q + i]
        OBVIOUS
      <3>b. PICK b : b = pos[q]
        OBVIOUS
      <3>1. a = b + sum[i] /\ b \in Nat /\ sum[i] \in Nat /\ sum[k] = sum[i] + sizes[k]
        <4>1. 0 \in 0 .. n /\ q + 0 = q
          BY <1>1
        <4>2. b \in Nat
          BY <1>3, <3>b, <4>1
        <4>3. a = b + sum[i] /\ sum[i] \in Nat /\ sum[k] = sum[i] + sizes[k]
          BY <1>2, <1>5, <2>1, <3>a, <3>b
        <4> QED BY <4>2, <4>3
      <3>2. pos[q + k] = a + sizes[k] /\ sizes[k] \in Nat
        BY Zenon, <2>2, <2>3, <3>a
      <3>d. PICK d : d = pos[q + k]
        OBVIOUS
      <3>s. PICK s : s = sum[i]
        OBVIOUS
      <3>t. PICK t : t = sum[k]
        OBVIOUS
      <3>f. PICK f : f = sizes[k]
        OBVIOUS
      <3>3. /\ a = b + s /\ b \in Nat /\ s \in Nat /\ t = s + f
            /\ d = a + f /\ f \in Nat
        BY Zenon, <3>1, <3>2, <3>d, <3>s, <3>t, <3>f
      <3>4. Behind(d, b, t)
        BY Zenon, <3>3, AddOn
      <3> QED BY Zenon, <3>4, <3>b, <3>d, <3>t DEF Behind
    <2> QED BY <2>1, <2>4
  <1> HIDE DEF S
  <1>6. n \in S
    <2>1. 0 .. n \subseteq S
      BY <1>1, <1>4, <1>5, UpTo
    <2> QED BY <1>1, <2>1
  <1>7. pos[q + n] = pos[q] + sum[n]
    BY <1>6 DEF S
  <1>8. pos[Len(fields)] = Len(octets)
    BY Places
  <1> QED BY <1>1, <1>7, <1>8 DEF StatFills

\* What is read last fills the octets: a stat, read in a view of its own.
LEMMA ReadStatFields ==
  ASSUME NEW octets, NEW fields, NEW pos, Placement(octets, fields, pos),
         NEW q \in Nat, NEW stat, Arguments(Stat, stat), NEW n, Row(stat, n),
         StatBehind(fields, q, stat, n),
         NEW s, s = Rest(octets, pos[q]), NEW v, ReadTo(v, s, 0, <<>>)
  PROVE  ParseFields(v, Stat).values = stat
  <1> n = Len(Stat) /\ Len(fields) = q + n
      /\ \A i \in 1 .. n : fields[q + i] = Field(Stat[i], stat[i])
    BY DEF StatBehind
  <1> PICK b : b = pos[q]
    OBVIOUS
  <1>1. /\ n \in Nat /\ DOMAIN Stat = 1 .. n
        /\ \A i \in 1 .. n : Stat[i] \in Kinds \cup {"string"} /\ stat[i] \in Argument(Stat[i])
    <2>1. n \in Nat /\ DOMAIN Stat = 1 .. n /\ \A i \in 1 .. n : Stat[i] \in Kinds \cup {"string"}
      BY StatKinds
    <2> QED BY <2>1 DEF Arguments
  <1>2. octets \in Seq(Octets) /\ b \in 0 .. Len(octets)
        /\ \A k \in 0 .. n : q + k \in 0 .. Len(fields) /\ pos[q + k] \in Nat
    <2>1. \A k \in 0 .. n : q + k \in 0 .. Len(fields)
      BY <1>1
    <2>2. q \in 0 .. Len(fields)
      BY <1>1
    <2> QED BY <2>1, <2>2, Places
  <1>3. RowOf(fields, q, Stat, stat, n)
    BY <1>1 DEF RowOf
  <1> PICK at : at = [k \in 0 .. n |-> pos[q + k]]
    OBVIOUS
  <1>4. RowAt(octets, at, n, Stat, stat)
    BY Zenon, <1>1, <1>3, RowPlaced
  <1>next. \A r \in 1 .. Len(fields) : /\ fields[r] \in WireFields
                                      /\ pos[r] = pos[r - 1] + FieldSize(fields[r])
    <2>1. \A r \in 1 .. Len(fields) : fields[r] \in WireFields
      BY Places
    <2>2. \A r \in 1 .. Len(fields) : pos[r] = pos[r - 1] + FieldSize(fields[r])
      BY Zenon DEF Placement, Placed
    <2> QED BY <2>1, <2>2
  <1>5. \A k \in 0 .. n : at[k] \in Nat /\ at[k] >= b
    <2> DEFINE S == {k \in 0 .. n : b <= at[k]}
    <2>1. 0 \in S
      <3>1. 0 \in 0 .. n /\ q + 0 = q
        BY <1>1
      <3>2. at[0] = b
        BY <3>1
      <3>3. b \in Nat
        BY <1>2
      <3> QED BY <3>1, <3>2, <3>3
    <2>2. ASSUME NEW i \in 0 .. n - 1, i \in S PROVE i + 1 \in S
      <3> PICK k : k = i + 1
        OBVIOUS
      <3>1. /\ k \in 1 .. n /\ k \in 0 .. n /\ i \in 0 .. n /\ q + k \in 1 .. Len(fields)
            /\ (q + k) - 1 = q + i
        BY <1>1
      <3>2. fields[q + k] \in WireFields /\ pos[q + k] = pos[q + i] + FieldSize(fields[q + k])
        <4> PICK r : r = q + k
          OBVIOUS
        <4>1. r \in 1 .. Len(fields) /\ r - 1 = q + i
          BY <3>1
        <4>2. fields[r] \in WireFields /\ pos[r] = pos[r - 1] + FieldSize(fields[r])
          BY <1>next, <4>1
        <4> QED BY <4>1, <4>2
      <3>3. FieldSize(fields[q + k]) \in Nat
        BY <3>2, FieldSizeType
      <3>4. at[k] = at[i] + FieldSize(fields[q + k]) /\ at[i] \in Nat /\ b <= at[i]
        BY <1>2, <2>2, <3>1, <3>2
      <3>5. b <= at[k]
        BY <1>2, <3>3, <3>4
      <3> QED BY <3>1, <3>5
    <2> HIDE DEF S
    <2>3. 0 .. n \subseteq S
      BY <1>1, <2>1, <2>2, UpTo
    <2> QED BY <1>2, <2>3 DEF S
  <1> PICK inner : inner = [k \in 0 .. n |-> at[k] - b]
    OBVIOUS
  <1>6. Apart(at, b, n, inner)
    <2>1. b \in Nat
      BY <1>2
    <2> QED BY Zenon, <1>5, <2>1, CountedFrom
  <1>7. RowAt(s, inner, n, Stat, stat)
    BY Zenon, <1>1, <1>2, <1>4, <1>6, RowInRest
  <1>8. s \in Seq(Octets)
    BY <1>2, RestIs
  <1>9. inner[0] = 0
    <2>1. 0 \in 0 .. n /\ q + 0 = q
      BY <1>1
    <2>2. at[0] = b /\ b \in Nat
      BY <1>2, <2>1
    <2> QED BY <2>1, <2>2
  <1>10. ReadTo(ParseFields(v, Stat), s, inner[n], <<>> \o Until(stat, n))
    BY <1>1, <1>7, <1>8, <1>9, ReadRow
  <1>11. <<>> \o Until(stat, n) = stat
    BY <1>1, UntilAll
  <1> PICK w : w = ParseFields(v, Stat)
    OBVIOUS
  <1> PICK end : end = inner[n]
    OBVIOUS
  <1>12. ReadTo(w, s, end, stat)
    BY <1>10, <1>11
  <1>13. w.values = stat
    BY <1>12, ReadValues
  <1> QED BY <1>13

\* The server reads the stat of a TWStat from the view its size makes.
LEMMA ReadsStat ==
  ASSUME NEW m, NEW octets, NEW pos, NEW v, NEW c,
         ReadUpTo(m, octets, pos, ParseFields(v, ArgKinds(m.type)), c), m.type = "TWStat"
  PROVE  ReadArgs(m.type, v) = m.args
  <1> PICK fixed : fixed = ParseFields(v, ArgKinds(m.type))
    OBVIOUS
  <1> PICK fields : fields = BuildFields(m)
    OBVIOUS
  <1> PICK vs : vs = Until(m.args, c)
    OBVIOUS
  <1> PICK last : last = Last(m.args)
    OBVIOUS
  <1> PICK n : n = Len(Stat)
    OBVIOUS
  <1> PICK size : size = EncodedStatSize(last)
    OBVIOUS
  <1> PICK extra : extra = Extra(m)
    OBVIOUS
  <1> PICK q : q = c + 1
    OBVIOUS
  <1> PICK end : end = Len(octets)
    OBVIOUS
  <1>1. /\ Placement(octets, fields, pos) /\ c \in Nat
        /\ ReadTo(fixed, octets, pos[c], vs) /\ fixed.values = vs
    <2>1. ReadTo(fixed, octets, pos[c], vs)
      BY DEF ReadUpTo
    <2>2. fixed.values = vs
      BY <2>1, ReadValues
    <2> QED BY <2>1, <2>2 DEF ReadUpTo
  <1>2. /\ Append(vs, last) = m.args /\ Row(last, n) /\ Arguments(Stat, last)
        /\ n \in Nat /\ size \in Nat
    <2>1. Append(vs, last) = m.args /\ LastArgument(m.type, last)
      BY CallRow DEF ReadUpTo, Others
    <2>2. Row(last, n) /\ Arguments(Stat, last)
      BY <2>1 DEF LastArgument
    <2>3. n \in Nat
      BY StatKinds
    <2> QED BY <2>1, <2>2, <2>3, StatSizeType
  <1>3. /\ Len(extra) = n + 1 /\ extra[1] = Field("u16", Narrow(size, "u16"))
        /\ \A i \in 1 .. n : extra[1 + i] = Field(Stat[i], last[i])
    <2> PICK count : count = <<Field("u16", Narrow(size, "u16"))>>
      OBVIOUS
    <2> PICK stat : stat = FieldsOf(Stat, last)
      OBVIOUS
    <2>1. count \in Seq(WireFields) /\ Len(count) = 1 /\ count[1] = Field("u16", Narrow(size, "u16"))
      BY <1>2, InLimits, NarrowType
    <2>2. stat \in Seq(WireFields) /\ Len(stat) = n
          /\ \A i \in 1 .. n : stat[i] = Field(Stat[i], last[i])
      <3>1. stat \in Seq(WireFields)
        BY <1>2, StatKinds, FieldsTyped
      <3>2. DOMAIN Stat = 1 .. n
        BY StatKinds
      <3>3. stat = [i \in 1 .. n |-> Field(Stat[i], last[i])]
        BY <3>2 DEF FieldsOf
      <3> QED BY <1>2, <3>1, <3>3
    <2>3. extra = count \o stat
      BY Zenon DEF Extra
    <2>4. /\ Len(extra) = Len(count) + Len(stat)
          /\ \A i \in 1 .. Len(count) : extra[i] = count[i]
          /\ \A j \in 1 .. Len(stat) : extra[Len(count) + j] = stat[j]
      BY <2>1, <2>2, <2>3, Appended
    <2>5. 1 \in 1 .. 1
      OBVIOUS
    <2> QED BY <1>2, <2>1, <2>2, <2>4, <2>5
  <1>4. /\ Len(fields) = q + n /\ fields[q] = Field("u16", Narrow(size, "u16"))
        /\ \A i \in 1 .. n : fields[q + i] = Field(Stat[i], last[i])
    <2>1. Len(fields) = c + Len(extra) /\ \A j \in 1 .. Len(extra) : fields[c + j] = extra[j]
      BY DEF ReadUpTo
    <2>2. Len(fields) = q + n /\ fields[q] = Field("u16", Narrow(size, "u16"))
      <3>1. 1 \in 1 .. Len(extra)
        BY <1>2, <1>3
      <3>2. fields[q] = Field("u16", Narrow(size, "u16"))
        BY Zenon, <1>3, <2>1, <3>1
      <3>3. Behind(Len(fields), q, n)
        BY Zenon, <1>1, <1>2, <1>3, <2>1, OneMore
      <3> QED BY Zenon, <3>2, <3>3 DEF Behind
    <2>3. ASSUME NEW i \in 1 .. n PROVE fields[q + i] = Field(Stat[i], last[i])
      <3>1. 1 + i \in 1 .. Len(extra) /\ c + (1 + i) = q + i
        BY <1>1, <1>2, <1>3
      <3> QED BY <1>3, <2>1, <3>1
    <2> QED BY <2>2, <2>3
  <1>behind. StatBehind(fields, q, last, n)
    BY <1>4 DEF StatBehind
  <1>5. /\ octets \in Seq(Octets) /\ end \in Nat /\ end <= Capacity
        /\ q \in Nat /\ q <= Len(fields) /\ pos[q] \in 0 .. end
    <2>1. q \in Nat /\ q <= Len(fields) /\ q \in 0 .. Len(fields)
      BY <1>1, <1>2, <1>4
    <2> QED BY <1>1, <2>1, Places
  <1>6. end = pos[q] + size
    <2>1. StatFills(octets, pos[q], last)
      BY <1>1, <1>2, <1>5, <1>behind, StatPlaced
    <2> QED BY <2>1 DEF StatFills
  <1>7. size <= Capacity
    <2>1. end <= end /\ pos[q] \in Nat
      BY <1>5
    <2> QED BY Zenon, <1>2, <1>5, <1>6, <2>1, InLimits, Inside
  <1> PICK next : next = ParseFields(fixed, <<"u16">>)
    OBVIOUS
  <1> PICK s : s = Rest(octets, pos[q])
    OBVIOUS
  <1>8. /\ Last(next.values) = size /\ next.rest = s
        /\ FieldAt(octets, pos[c], "u16", size, pos[q])
    <2>1. NumberRead(octets, pos[c], pos[q], next, size)
      BY <1>1, <1>2, <1>4, <1>5, <1>7, ReadNumber
    <2> QED BY <2>1 DEF NumberRead
  <1>9. s \in Seq(Octets) /\ Len(s) = size
        /\ \A j \in 1 .. size : s[j] = octets[pos[q] + j]
    <2> PICK b : b = pos[q]
      OBVIOUS
    <2>1. /\ Rest(octets, b) \in Seq(Octets) /\ Len(Rest(octets, b)) = end - b
          /\ \A j \in 1 .. end - b : Rest(octets, b)[j] = octets[b + j]
      BY <1>5, RestIs
    <2>2. end - b = size
      BY <1>2, <1>5, <1>6
    <2> QED BY <2>1, <2>2
  <1>10. SizedAt(octets, pos[c], "u16", s, end)
    <2> PICK b : b = pos[q]
      OBVIOUS
    <2>1. size < Limit("u16") /\ "u16" # "string"
      BY <1>2, <1>7, InLimits
    <2>2. StandsAt(octets, pos[c], LittleEndian(size, Width["u16"])) /\ b = pos[c] + Width["u16"]
      BY <1>8, <2>1 DEF FieldAt
    <2>3. StandsAt(octets, b, s)
      <3>1. b + Len(s) <= Len(octets)
        BY <1>5, <1>6, <1>9
      <3> QED BY <1>9, <3>1 DEF StandsAt
    <2> QED BY <1>6, <1>9, <2>1, <2>2, <2>3 DEF SizedAt
  <1> PICK w : w = SizedView(WithoutValues(fixed), "u16")
    OBVIOUS
  <1>11. ReadTo(w, octets, end, <<s>>)
    <2> PICK u : u = WithoutValues(fixed)
      OBVIOUS
    <2>1. ReadTo(u, octets, pos[c], <<>>)
      BY <1>1, <1>5, Emptied
    <2>2. ReadTo(SizedView(u, "u16"), octets, end, Append(<<>>, s))
      BY <1>5, <1>9, <1>10, <2>1, InLimits, ReadSizedTo
    <2>3. Append(<<>>, s) = <<s>>
      OBVIOUS
    <2> QED BY <2>2, <2>3
  <1>12. ReadTo(Inner(w), s, 0, <<>>) /\ w.thrown = FALSE
    BY <1>9, <1>11, ReadInner, ReadValues
  <1>13. ParseFields(Inner(w), Stat).values = last
    <2> PICK inner : inner = Inner(w)
      OBVIOUS
    <2>1. ReadTo(inner, s, 0, <<>>)
      BY <1>12
    <2>2. ParseFields(inner, Stat).values = last
      BY <1>1, <1>2, <1>5, <1>behind, <2>1, ReadStatFields
    <2> QED BY <2>2
  <1>14. parseRawRStat(fixed).values = last
    <2> PICK inner : inner = ParseFields(Inner(w), Stat)
      OBVIOUS
    <2>1. parseRawRStat(fixed) = [inner EXCEPT !.rest = w.rest]
      BY <1>12, Zenon DEF parseRawRStat, Inner, WithoutValues
    <2>2. [inner EXCEPT !.rest = w.rest].values = inner.values
      OBVIOUS
    <2> QED BY <1>13, <2>1, <2>2
  <1>15. ReadArgs(m.type, v) = Append(fixed.values, parseRawRStat(fixed).values)
    <2>1. Last(next.values) = Len(next.rest)
      BY <1>8, <1>9
    <2> QED BY <2>1, Zenon DEF ReadArgs
  <1> QED BY <1>1, <1>2, <1>14, <1>15

\* The server reads what was to be built.
LEMMA ReadsMessage ==
  ASSUME NEW m, Call(m), NEW octets, Holds(octets, m)
  PROVE  ServerReads(octets) = m
  <1> PICK pos : Placement(octets, BuildFields(m), pos)
    BY DEF Holds
  <1> PICK head : head = ParseFields(View(octets), <<"u32", "u8">>)
    OBVIOUS
  <1> PICK v : v = WithoutValues(head)
    OBVIOUS
  <1> PICK c : c = Len(ArgKinds(m.type))
    OBVIOUS
  <1>1. RequestNames[head.values[2]] = m.type /\ ReadTo(v, octets, pos[0], <<>>)
    BY ReadHead
  <1>2. ReadUpTo(m, octets, pos, ParseFields(v, ArgKinds(m.type)), c)
    BY <1>1, ReadFixed
  <1>3. ReadArgs(m.type, v) = m.args
    <2>1. CASE m.type \notin Others
      BY <1>2, <2>1, ReadsOthers
    <2>2. CASE m.type = "TWalk"
      BY <1>2, <2>2, ReadsWalk
    <2>3. CASE m.type = "TOpen"
      BY <1>2, <2>3, ReadsOpen
    <2>4. CASE m.type = "TWrite"
      BY <1>2, <2>4, ReadsWrite
    <2>5. CASE m.type = "TWStat"
      BY <1>2, <2>5, ReadsStat
    <2> QED BY <2>1, <2>2, <2>3, <2>4, <2>5 DEF Others
  <1>4. ServerReads(octets) = [type |-> m.type, args |-> ReadArgs(m.type, v)]
    BY <1>1, Zenon DEF ServerReads, WithoutValues
  <1>5. m = [type |-> m.type, args |-> m.args]
    BY DEF Call
  <1> QED BY <1>3, <1>4, <1>5

\* The server reads from the buffer what the build function was given, and
\* nothing of the message before, for every message that fits (TxMessage.cpp,
\* TxMessageBuilder.cpp).
THEOREM ServerReadsRequestAlways == Spec => []ServerReadsRequest
  <1>1. BufferInv => ServerReadsRequest
    <2> SUFFICES ASSUME BufferInv, view # <<>>, Fits(request)
                 PROVE  ServerReads(view) = request
      BY DEF ServerReadsRequest
    <2>1. request \in Requests /\ Holds(view, request)
      BY ViewHolds
    <2>2. Call(request)
      BY <2>1, LengthInMemory
    <2> QED BY <2>1, <2>2, ReadsMessage
  <1> QED BY <1>1, BufferAlways, PTL
=============================================================================
