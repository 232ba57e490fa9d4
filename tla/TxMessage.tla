------------------------------ MODULE TxMessage ------------------------------
(***************************************************************************)
(* protocol/TxMessage.cpp and TxMessageBuilder.cpp: one buffer, used again *)
(* for every T-message.  A build function is the row of fields it writes;  *)
(* each write is a step, and getData ends the message, which the server    *)
(* reads.                                                                  *)
(*                                                                         *)
(* No write compares the cursor with the end of the buffer: hasRoomFor     *)
(* measures from its start.                                                *)
(***************************************************************************)
EXTENDS MessageReader, FileMode

CONSTANTS
    Capacity,       \* size of the buffer (16 * 1024)
    Beyond,         \* octets of memory after it that the model looks at
    OldOctet,       \* what the memory holds before
    Requests,       \* the messages to build: [type, args]
    MaxMessages     \* how many of them

\* The difference of two addresses fits a MsgLength, and the size of anything
\* in the buffer a u16.
ASSUME CapacityAssumption ==
    /\ Capacity \in Nat /\ Capacity > Width["u32"] /\ Beyond \in Nat
    /\ Capacity + Beyond < Limit("u32")
    /\ Capacity < Limit("u16")

\* A u8 holds a file mode.
ASSUME ModeAssumption == Limit("u8") > 3 + OTRUNC + ORCLOSE
ASSUME MaxMessagesIsNat == MaxMessages \in Nat
ASSUME OldOctetAssumption == OldOctet \in Octets

VARIABLES
    mem,        \* the memory at m_buffer
    cursor,     \* m_cursor - m_buffer
    todo,       \* fields of the message not yet written
    request,    \* the message being built
    view,       \* what getData has returned
    built       \* number of messages begun

vars == <<mem, cursor, todo, request, view, built>>

Addresses == 0 .. Capacity + Beyond - 1

NoRequest == [type |-> "none", args |-> <<>>]

-----------------------------------------------------------------------------
(* The build functions: the fields each writes after the type.             *)

\* The T-messages, at the place of their code (TVersion is 100).
RequestNames == <<"TVersion", "TAuth", "TAttach", "none", "TFlush", "TWalk", "TOpen",
                  "TCreate", "TRead", "TWrite", "TClunk", "TRemove", "TStat", "TWStat">>
RequestCode(type) == CHOOSE c \in DOMAIN RequestNames : RequestNames[c] = type

Field(kind, value) == [kind |-> kind, value |-> value]

FieldsOf(kinds, values) == [i \in DOMAIN kinds |-> Field(kinds[i], values[i])]

\* static_cast to an unsigned integer of a kind.
Narrow(n, kind) == n % Limit(kind)

EncodedSize(kind, value) ==
    IF kind = "string" THEN Width["u16"] + Len(value) ELSE Width[kind]

\* Mutant of EncodedStatSize: the size counts itself, as in an RStat.
EncodedStatSizeWithSize(stat) ==
    FoldLeft(+, Width["u16"], [i \in DOMAIN Stat |-> EncodedSize(Stat[i], stat[i])])

\* getEncodedStatSize
EncodedStatSize(stat) ==
    FoldLeft(+, 0, [i \in DOMAIN Stat |-> EncodedSize(Stat[i], stat[i])])

\* The kinds of the arguments of a build function that writes them as they are.
ArgKinds(type) ==
    CASE type = "TVersion" -> <<"u16", "u32", "string">>
      [] type = "TAuth" -> <<"u16", "u32", "string", "string">>
      [] type = "TFlush" -> <<"u16", "u16">>
      [] type = "TAttach" -> <<"u16", "u32", "u32", "string", "string">>
      [] type = "TOpen" -> <<"u16", "u32">>
      [] type = "TCreate" -> <<"u16", "u32", "string", "u32", "u8">>
      [] type = "TRead" -> <<"u16", "u32", "u64", "u32">>
      [] type \in {"TClunk", "TRemove", "TStat"} -> <<"u16", "u32">>
      [] type = "TWalk" -> <<"u16", "u32", "u32">>
      [] type = "TWrite" -> <<"u16", "u32", "u64">>
      [] type = "TWStat" -> <<"u16", "u32">>

\* The last argument of the others: names, a file mode, data or a stat.
BuildFields(m) ==
    LET fixed == FieldsOf(ArgKinds(m.type), m.args)
        last == Last(m.args)
    IN  CASE m.type = "TWalk" ->
               fixed \o <<Field("u16", Narrow(Len(last), "u16"))>>
                     \o [i \in DOMAIN last |-> Field("string", last[i])]
          [] m.type = "TOpen" -> fixed \o <<Field("u8", encode(last))>>
          [] m.type = "TWrite" ->
               fixed \o <<Field("u32", Narrow(Len(last), "u32")), Field("raw", last)>>
          [] m.type = "TWStat" ->
               fixed \o <<Field("u16", Narrow(EncodedStatSize(last), "u16"))>>
                     \o FieldsOf(Stat, last)
          [] OTHER -> fixed

\* The octets of a field.
FieldSize(f) == IF f.kind = "raw" THEN Len(f.value) ELSE EncodedSize(f.kind, f.value)

\* The length of the message there is to build, and whether it fits: the rest
\* of this project assumes it of every request (a path of some 16000 octets is
\* the shortest that does not).
FullLength(m) ==
    Width["u32"] + Width["u8"]
        + FoldLeft(+, 0, [i \in DOMAIN BuildFields(m) |-> FieldSize(BuildFields(m)[i])])

Fits(m) == FullLength(m) <= Capacity

\* What a parameter of a build function may hold.
Argument(kind) == IF kind = "string" THEN Seq(Octets) ELSE 0 .. Limit(kind) - 1

\* A row of n.
Row(s, n) == s = [i \in 1 .. n |-> s[i]]

Arguments(kinds, values) == \A i \in DOMAIN kinds : values[i] \in Argument(kinds[i])

FileModes == [access : Range(Access), truncate : BOOLEAN, remove_on_close : BOOLEAN]

LastArgument(type, value) ==
    CASE type = "TWalk" -> value \in Seq(Seq(Octets))
      [] type = "TOpen" -> value \in FileModes
      [] type = "TWrite" -> value \in Seq(Octets)
      [] type = "TWStat" -> Row(value, Len(Stat)) /\ Arguments(Stat, value)

\* A call of a build function, as C++ types it.
Call(m) ==
    LET kinds == ArgKinds(m.type)
        other == m.type \in {"TWalk", "TOpen", "TWrite", "TWStat"}
    IN  /\ m = [type |-> m.type, args |-> m.args]
        /\ m.type \in Range(RequestNames) \ {"none"}
        /\ Row(m.args, Len(kinds) + (IF other THEN 1 ELSE 0))
        /\ Arguments(kinds, m.args)
        /\ other => LastArgument(m.type, Last(m.args))

\* The model's memory is as large as its messages make use of.
ASSUME RequestsAssumption ==
    \A m \in Requests : Call(m) /\ FullLength(m) <= Capacity + Beyond

-----------------------------------------------------------------------------
(* TxMessage *)

\* The memory with the octets s written from address a on.
Written(a, s) ==
    [i \in Addresses |-> IF i \in a .. a + Len(s) - 1 THEN s[i - a + 1] ELSE mem[i]]

Write(s) ==
    /\ mem' = Written(cursor, s)
    /\ cursor' = cursor + Len(s)

Init ==
    /\ mem = [i \in Addresses |-> OldOctet]
    /\ cursor = Width["u32"]
    /\ todo = <<>> /\ request = NoRequest /\ view = <<>>
    /\ built = 0

\* Mutant of initialize: the cursor stays where it is.
initializeOnly(m) ==
    /\ todo = <<>> /\ request = NoRequest /\ built < MaxMessages
    /\ request' = m /\ todo' = BuildFields(m)
    /\ Write(LittleEndian(RequestCode(m.type), Width["u8"]))
    /\ view' = <<>> /\ built' = built + 1

\* A build function begins: the cursor is reset and the type written.
initialize(m) ==
    LET s == LittleEndian(RequestCode(m.type), Width["u8"]) IN
    /\ todo = <<>> /\ request = NoRequest /\ built < MaxMessages
    /\ request' = m /\ todo' = BuildFields(m)
    /\ mem' = Written(Width["u32"], s)
    /\ cursor' = Width["u32"] + Len(s)
    /\ view' = <<>> /\ built' = built + 1

NextField(kinds) ==
    /\ todo # <<>> /\ Head(todo).kind \in kinds
    /\ todo' = Tail(todo)
    /\ UNCHANGED <<request, view, built>>

writeInteger ==
    /\ NextField(Kinds)
    /\ Write(LittleEndian(Head(todo).value, Width[Head(todo).kind]))

writeRawData ==
    /\ NextField({"raw"})
    /\ Write(Head(todo).value)

hasRoomFor(n) == n <= Capacity

\* A string too long for the buffer, or for its size, is left out.
writeString ==
    LET s == Head(todo).value IN
    /\ NextField({"string"})
    /\ IF hasRoomFor(Len(s)) /\ Len(s) < Limit("u16")
       THEN Write(LittleEndian(Len(s), Width["u16"]) \o s)
       ELSE UNCHANGED <<mem, cursor>>

\* Mutant of getData: the size in front is not written.
getDataUnsized ==
    /\ todo = <<>> /\ request # NoRequest /\ view = <<>>
    /\ view' = [i \in 1 .. cursor |-> mem[i - 1]]
    /\ UNCHANGED <<mem, cursor, todo, request, built>>

\* The size is written in front; what is sent ends at the cursor.
getData ==
    /\ todo = <<>> /\ request # NoRequest /\ view = <<>>
    /\ mem' = Written(0, LittleEndian(Narrow(cursor, "u32"), Width["u32"]))
    /\ view' = [i \in 1 .. Narrow(cursor, "u32") |-> mem'[i - 1]]
    /\ UNCHANGED <<cursor, todo, request, built>>

\* sendMessageInTxBuffer has returned.
Sent ==
    /\ view # <<>>
    /\ view' = <<>> /\ request' = NoRequest
    /\ UNCHANGED <<mem, cursor, todo, built>>

Finished ==
    /\ built = MaxMessages /\ request = NoRequest
    /\ UNCHANGED vars

Next ==
    \/ \E m \in Requests : initialize(m)
    \/ writeInteger \/ writeString \/ writeRawData
    \/ getData \/ Sent
    \/ Finished

Spec == Init /\ [][Next]_vars

-----------------------------------------------------------------------------
(* The server reads what it is sent (with the operators of MessageReader). *)

\* The arguments of a request of a type, as far as they can be read: a stat
\* only when its size is that of the rest of the message.
ReadArgs(type, v) ==
    LET fixed == ParseFields(v, ArgKinds(type))
        next == ParseFields(fixed, <<"u16">>)
        size == Last(next.values)
    IN  CASE type = "TWalk" ->
               LET names == ParseFields([next EXCEPT !.values = <<>>],
                                        [i \in 1 .. size |-> "string"])
               IN  Append(fixed.values, names.values)
          [] type = "TOpen" ->
               Append(fixed.values, decode(Last(ParseFields(fixed, <<"u8">>).values)))
          [] type = "TWrite" -> Append(fixed.values, Last(parseRRead(fixed).values))
          [] type = "TWStat" /\ size = Len(next.rest) ->
               Append(fixed.values, parseRawRStat(fixed).values)
          [] OTHER -> fixed.values

ServerReads(octets) ==
    LET head == ParseFields(View(octets), <<"u32", "u8">>)
        type == RequestNames[head.values[2]]
    IN  [type |-> type, args |-> ReadArgs(type, [head EXCEPT !.values = <<>>])]

-----------------------------------------------------------------------------
(* Properties *)

TypeOK ==
    /\ mem \in [Addresses -> Octets]
    /\ cursor \in Width["u32"] .. Capacity + Beyond
    /\ request \in Requests \cup {NoRequest}
    /\ view \in Seq(Octets)
    /\ built \in 0 .. MaxMessages

\* A message that fits stays within the buffer at every one of its writes,
\* whatever was built in it before - also one that did not fit
\* (TxMessage::writeString, whose hasRoomFor does not see to it).
WithinBuffer == request # NoRequest /\ Fits(request) => cursor <= Capacity

\* The server reads from the buffer what the build function was given, and
\* nothing of the message before; a TWStat is read as the client would read a
\* stat itself.
ServerReadsRequest ==
    view # <<>> /\ Fits(request) => ServerReads(view) = request

\* Strings that are left out do not cost the server its place in the stream:
\* the size in front of any message is the number of octets sent.
SizeIsExact ==
    view # <<>> => LowEndianValue(SubSeq(view, 1, Width["u32"])) = Len(view)
=============================================================================
