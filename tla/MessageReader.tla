---------------------------- MODULE MessageReader ----------------------------
(***************************************************************************)
(* protocol/MessageReader.cpp: R-messages read from a string of octets.    *)
(*                                                                         *)
(* Integers and strings are checked against the end of the buffer; the     *)
(* data view of RRead and the two of a stat are not.                       *)
(***************************************************************************)
EXTENDS WireFormat, SequencesExt

\* An octet that is not in the buffer, and an integer one of whose octets is
\* not.
Outside == -1

\* The types with a parser, at the place of their code (RVersion is 101, the
\* other codes are every second one from there).
TypeNames == <<"RVersion", "RAuth", "RAttach", "RError", "RFlush", "RWalk", "ROpen",
               "RCreate", "RRead", "RWrite", "RClunk", "RRemove", "RStat", "RWStat">>
Code(type) == CHOOSE c \in DOMAIN TypeNames : TypeNames[c] = type

\* A ParsedRMessage, without its tag: n is the msize of RVersion and the size
\* of wqids, text the version or ename, stats the stat of RStat.
Parsed(type) == [type |-> type, n |-> 0, data |-> <<>>, text |-> <<>>, stats |-> <<>>]

\* parseMessage throws; parseMessage reads where there is no memory.
Thrown == Parsed("none")
Crash == Parsed("overrun")

-----------------------------------------------------------------------------
(* The buffer being parsed: the octets left, the values read from it,       *)
(* whether it has thrown and whether it has been read past its end.         *)

View(buffer) == [rest |-> buffer, values |-> <<>>, thrown |-> FALSE, beyond |-> FALSE]

\* Mutant of parseInteger: the check is forgotten.
parseIntegerUnchecked(v, kind) ==
    [v EXCEPT !.values = Append(@, IF Len(v.rest) < Width[kind] THEN Outside
                                   ELSE LowEndianValue(SubSeq(v.rest, 1, Width[kind]))),
              !.rest = SubSeq(@, Width[kind] + 1, Len(@))]

parseInteger(v, kind) ==
    LET octets == SubSeq(v.rest, 1, Width[kind]) IN
    IF Len(v.rest) < Width[kind] THEN [v EXCEPT !.thrown = TRUE]
    ELSE [v EXCEPT
            !.values = Append(@, IF Outside \in ToSet(octets) THEN Outside
                                 ELSE LowEndianValue(octets)),
            !.rest = SubSeq(@, Width[kind] + 1, Len(@))]

\* The next count octets, which no one has checked are there.
extractDataView(v, count) ==
    [v EXCEPT !.values = Append(@, [i \in 1 .. count |->
                                      IF i <= Len(v.rest) THEN v.rest[i] ELSE Outside]),
              !.rest = SubSeq(@, count + 1, Len(@)),
              !.beyond = @ \/ count > Len(v.rest)]

\* A size from outside the buffer is any size: the string is unknown.
parseString(v) ==
    LET w == parseInteger(v, "u16")
        size == Last(w.values)
        s == [w EXCEPT !.values = Front(@)]
    IN  IF w.thrown THEN w
        ELSE CASE size = Outside -> [s EXCEPT !.values = Append(@, <<Outside>>)]
               [] size > Len(w.rest) -> [w EXCEPT !.thrown = TRUE]
               [] OTHER -> extractDataView(s, size)

\* Fields one after the other, until one throws.
ParseFields(v, kinds) ==
    LET field(w, kind) == IF w.thrown THEN w
                          ELSE IF kind = "string" THEN parseString(w)
                          ELSE parseInteger(w, kind)
    IN  FoldLeft(field, v, kinds)

Qid == <<"u8", "u32", "u64">>
Stat == <<"u16", "u32">> \o Qid \o <<"u32", "u32", "u32", "u64">>
            \o <<"string", "string", "string", "string">>

\* A size-prefixed view of the rest, and what is left after it.
SizedView(v, kind) ==
    LET w == parseInteger(v, kind)
    IN  IF w.thrown THEN w
        ELSE extractDataView([w EXCEPT !.values = Front(@)],
                             IF Last(w.values) = Outside THEN 1 ELSE Last(w.values))

\* Mutant of parseRawRStat: the fields are read from the buffer itself.
parseRawRStatInPlace(v) ==
    LET w == parseInteger([v EXCEPT !.values = <<>>], "u16")
    IN  IF w.thrown THEN w ELSE ParseFields([w EXCEPT !.values = <<>>], Stat)

\* The stat's fields are its values.
parseRawRStat(v) ==
    LET w == SizedView([v EXCEPT !.values = <<>>], "u16")
        fields == ParseFields([w EXCEPT !.rest = Last(w.values), !.values = <<>>], Stat)
    IN  IF w.thrown THEN w ELSE [fields EXCEPT !.rest = w.rest]

-----------------------------------------------------------------------------
(* Messages *)

FixedFields(type) ==
    CASE type = "RVersion" -> <<"u32", "string">>
      [] type = "RError" -> <<"string">>
      [] type \in {"RAuth", "RAttach"} -> Qid
      [] type \in {"ROpen", "RCreate"} -> Qid \o <<"u32">>
      [] type = "RWrite" -> <<"u32">>
      [] type \in {"RFlush", "RClunk", "RRemove", "RWStat"} -> <<>>

parseRWalk(v) ==
    LET w == parseInteger(v, "u16")
    IN  IF w.thrown THEN w
        ELSE [ParseFields(w, FlattenSeq([i \in 1 .. Last(w.values) |-> Qid]))
                EXCEPT !.values = <<Last(w.values)>>]

\* Mutant of parseRRead: one octet more than the count.
parseRReadOneMore(v) ==
    LET w == parseInteger(v, "u32")
    IN  IF w.thrown THEN w
        ELSE extractDataView([w EXCEPT !.values = <<>>], Last(w.values) + 1)

parseRRead(v) == SizedView(v, "u32")

parseRStat(v) ==
    LET w == SizedView(v, "u16")
    IN  IF w.thrown THEN w ELSE parseRawRStat([w EXCEPT !.rest = Last(w.values)])

parseMessagePayload(type, v) ==
    CASE type = "RWalk" -> parseRWalk(v)
      [] type = "RRead" -> parseRRead(v)
      [] type = "RStat" -> parseRStat(v)
      [] OTHER -> ParseFields(v, FixedFields(type))

\* The ParsedRMessage made of the values read.
Payload(type, values) ==
    CASE type = "RVersion" -> [Parsed(type) EXCEPT !.n = values[1], !.text = values[2]]
      [] type = "RError" -> [Parsed(type) EXCEPT !.text = values[1]]
      [] type = "RWalk" -> [Parsed(type) EXCEPT !.n = values[1]]
      [] type = "RRead" -> [Parsed(type) EXCEPT !.data = values[1]]
      [] type = "RStat" -> [Parsed(type) EXCEPT !.stats = <<values>>]
      [] OTHER -> Parsed(type)

\* What parseMessage may return or throw.  A stat some of whose octets lie
\* outside may have any sizes in it, and so throw after all.
parseMessage(buffer) ==
    LET head == ParseFields(View(buffer), <<"u32", "u8", "u16">>)
        code == head.values[2]
        type == TypeNames[code]
        v == parseMessagePayload(type, [head EXCEPT !.values = <<>>])
    IN  IF head.thrown \/ code \notin DOMAIN TypeNames THEN {Thrown}
        ELSE (IF v.thrown \/ (v.beyond /\ type = "RStat") THEN {Thrown} ELSE {})
             \cup (IF v.beyond THEN {Crash} ELSE {})
             \cup (IF v.thrown THEN {} ELSE {Payload(type, v.values)})

parseMessageLength(octets) == LowEndianValue(octets)

\* The stats in the data of an RRead (readRStatsFromData of Client.cpp); an
\* empty one stands for the exception, or worse, that ends the loop.
readRStatsFromData(data) ==
    LET from[at \in 0 .. Len(data)] ==
            LET v == parseRawRStat(View(SubSeq(data, at + 1, Len(data)))) IN
            IF at = Len(data) THEN <<>>
            ELSE IF v.thrown \/ v.beyond THEN << <<>> >>
            ELSE <<v.values>> \o from[Len(data) - Len(v.rest)]
    IN  from[0]
=============================================================================
