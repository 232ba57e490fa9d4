---------------------------- MODULE FramedReceive ----------------------------
(***************************************************************************)
(* readParseIncomingMessage of protocol/Client.cpp, octet by octet: a      *)
(* frame's length is peeked by one recv, its octets are read by another,   *)
(* and the string they fill is parsed and destroyed.  It implements what   *)
(* ReplyChannel says of whole messages.                                    *)
(***************************************************************************)
EXTENDS MessageReader

CONSTANTS
    ShortRecvs,     \* may a recv return less than the frame it is meant to?
    ServerMessages, \* the R-messages the server may send
    Directories,    \* rows of entries, [stat, extra], that it may list
    MaxMessages,    \* how many of them
    StaleOctets,    \* what read_buf may hold before the peek
    Allocatable     \* the longest string that can be allocated

ASSUME ShortRecvsIsBoolean == ShortRecvs \in BOOLEAN
ASSUME MaxMessagesAssumption == MaxMessages \in Nat
ASSUME StaleAssumption == StaleOctets \subseteq Octets
ASSUME AllocatableAssumption == Allocatable \in Nat

\* The type of a message is one octet.
ASSUME CodeAssumption == Width["u8"] = 1 /\ Radix > Len(TypeNames)

VARIABLES
    \* the connection
    connected,   \* neither end has closed it
    sends,       \* messages sent by the server
    queue,       \* those with octets the client has not read, and which octets
    \* readParseIncomingMessage
    phase,       \* "peek", "read" or, when it has returned, "returned"
    length,      \* message_length
    shortPeek,   \* the peek has returned fewer octets than a MsgLength has
    reply,       \* what it has returned or thrown, until its caller is done
    logged,      \* the text of that reply, as its caller has seen it
    shortRecv    \* history: some recv has returned part of a frame

netVars == <<connected, sends, queue>>
readVars == <<phase, length, shortPeek, reply, logged>>
vars == <<netVars, readVars, shortRecv>>

-----------------------------------------------------------------------------
(* The server's octets.                                                    *)

EncodeField(kind, value) ==
    IF kind = "string" THEN LittleEndian(Len(value), Width["u16"]) \o value
    ELSE LittleEndian(value, Width[kind])

Encode(kinds, values) ==
    FlattenSeq([i \in DOMAIN kinds |-> EncodeField(kinds[i], values[i])])

Sized(kind, octets) == LittleEndian(Len(octets), Width[kind]) \o octets

\* A stat, its size in front; a server may add fields of its own at its end.
EncodeStat(stat, extra) == Sized("u16", Encode(Stat, stat) \o extra)

AnyQid == <<0, 1, 1>>

EncodePayload(m) ==
    CASE m.type = "RVersion" -> Encode(FixedFields(m.type), <<m.n, m.text>>)
      [] m.type = "RError" -> Encode(FixedFields(m.type), <<m.text>>)
      [] m.type = "RWalk" -> LittleEndian(m.n, Width["u16"])
                             \o FlattenSeq([i \in 1 .. m.n |-> Encode(Qid, AnyQid)])
      [] m.type = "RRead" -> Sized("u32", m.data)
      [] m.type = "RStat" -> Sized("u16", EncodeStat(m.stats[1], <<>>))
      [] m.type \in {"RAuth", "RAttach"} -> Encode(Qid, AnyQid)
      [] m.type = "ROpen" -> Encode(Qid, AnyQid) \o LittleEndian(0, Width["u32"])
      [] OTHER -> <<>>

Frame(m) ==
    LET body == LittleEndian(Code(m.type), Width["u8"])
                \o LittleEndian(0, Width["u16"]) \o EncodePayload(m)
    IN  LittleEndian(Width["u32"] + Len(body), Width["u32"]) \o body

Frames == [m \in ServerMessages |-> Frame(m)]

\* What a field of a message can hold.
Holds(kind, value) ==
    IF kind = "string" THEN value \in Seq(Octets) /\ Len(value) < Limit("u16")
    ELSE value \in 0 .. Limit(kind) - 1

Hold(kinds, values) ==
    /\ values = [i \in DOMAIN kinds |-> values[i]]
    /\ \A i \in DOMAIN kinds : Holds(kinds[i], values[i])

SizeHolds(kind, octets) == octets \in Seq(Octets) /\ Len(octets) < Limit(kind)

\* A stat is read by its size, which a server must have room for.
StatHolds(stat, extra) ==
    /\ Hold(Stat, stat) /\ extra \in Seq(Octets)
    /\ SizeHolds("u16", Encode(Stat, stat) \o extra)

Content(m) ==
    CASE m.type = "RVersion" -> /\ m = [Parsed(m.type) EXCEPT !.n = m.n, !.text = m.text]
                                /\ Hold(FixedFields(m.type), <<m.n, m.text>>)
      [] m.type = "RError" -> /\ m = [Parsed(m.type) EXCEPT !.text = m.text]
                              /\ Hold(FixedFields(m.type), <<m.text>>)
      [] m.type = "RWalk" -> /\ m = [Parsed(m.type) EXCEPT !.n = m.n]
                             /\ Holds("u16", m.n)
      [] m.type = "RRead" -> /\ m = [Parsed(m.type) EXCEPT !.data = m.data]
                             /\ SizeHolds("u32", m.data)
      [] m.type = "RStat" -> /\ m = [Parsed(m.type) EXCEPT !.stats = <<m.stats[1]>>]
                             /\ StatHolds(m.stats[1], <<>>)
                             /\ SizeHolds("u16", EncodeStat(m.stats[1], <<>>))
      [] OTHER -> m = Parsed(m.type)

\* The server is a conforming one: it answers with the replies there are to the
\* client's requests, and what it puts into a field fits it.  A frame is no longer
\* than its length can say, nor than what the client can allocate (msize).
ASSUME ServerAssumption ==
    \A m \in ServerMessages :
        /\ m.type \in {"RVersion", "RAuth", "RError", "RAttach", "RWalk", "ROpen",
                       "RRead", "RClunk", "RStat"}
        /\ Content(m)
        /\ SizeHolds("u32", Frame(m)) /\ Len(Frame(m)) <= Allocatable

\* The data of a directory, and the stats it lists.
DirectoryData(entries) ==
    FlattenSeq([i \in DOMAIN entries |-> EncodeStat(entries[i].stat, entries[i].extra)])
Listings == [entries \in Directories |-> DirectoryData(entries)]
Stats(entries) == [i \in DOMAIN entries |-> entries[i].stat]

ASSUME DirectoriesAssumption ==
    \A entries \in Directories :
        /\ entries = [i \in 1 .. Len(entries) |-> entries[i]] /\ Len(entries) \in Nat
        /\ \A i \in DOMAIN entries : StatHolds(entries[i].stat, entries[i].extra)

-----------------------------------------------------------------------------
(* The octets on their way: octets from + 1 to to of each message's frame.  *)

Size(part) == part.to - part.from

\* How many octets there are in the first i messages of the queue.
Before(i) == FoldLeft(+, 0, [j \in 1 .. i |-> Size(queue[j])])

Remaining == Before(Len(queue))

\* How many messages end within the first k octets.
Whole(k) == Cardinality({i \in DOMAIN queue : Before(i) <= k})

\* The first k octets, and all others.
First(k) ==
    LET i == Whole(k) IN
    SubSeq(queue, 1, i)
        \o (IF Before(i) = k THEN <<>>
            ELSE <<[queue[i + 1] EXCEPT !.to = queue[i + 1].from + k - Before(i)]>>)

After(k) ==
    LET i == Whole(k) IN
    IF i = Len(queue) THEN <<>>
    ELSE [SubSeq(queue, i + 1, Len(queue)) EXCEPT ![1].from = @ + k - Before(i)]

\* The octets themselves.
Wire == FlattenSeq([i \in DOMAIN queue |->
                      SubSeq(Frames[queue[i].msg], queue[i].from + 1, queue[i].to)])

\* The buffer of size n that recv fills with k octets, over what it holds.
Filled(n, k, old) ==
    LET wire == Wire IN [i \in 1 .. n |-> IF i <= k THEN wire[i] ELSE old[i]]

Init ==
    /\ connected = TRUE
    /\ sends = 0 /\ queue = <<>>
    /\ phase = "peek" /\ length = 0 /\ shortPeek = FALSE
    /\ reply = Thrown /\ logged = <<>>
    /\ shortRecv = FALSE

ServerSends(m) ==
    /\ connected /\ sends < MaxMessages
    /\ sends' = sends + 1
    /\ queue' = Append(queue, [msg |-> m, from |-> 0, to |-> Len(Frames[m])])
    /\ UNCHANGED <<connected, readVars, shortRecv>>

\* The connection is lost, maybe with the last octets on their way.
LoseOctets ==
    /\ connected
    /\ connected' = FALSE
    /\ \E k \in 0 .. Remaining :
         /\ ShortRecvs \/ k = Before(Whole(k))
         /\ queue' = First(k)
    /\ UNCHANGED <<sends, readVars, shortRecv>>

-----------------------------------------------------------------------------
(* The client                                                               *)

\* Mutant of Peek: the length is read, not peeked.
PeekConsumes ==
    LET w == Width["u32"] IN
    /\ phase = "peek"
    /\ w <= Remaining
    /\ length' = parseMessageLength(SubSeq(Wire, 1, w))
    /\ queue' = After(w)
    /\ phase' = "read"
    /\ UNCHANGED <<connected, sends, shortPeek, reply, logged, shortRecv>>

\* recv with MSG_PEEK into read_buf, of which only what arrived is written;
\* it waits for the first octet.
Peek ==
    LET w == Width["u32"] IN
    /\ phase = "peek"
    /\ \E k \in (IF ShortRecvs THEN 1 .. w ELSE {w}), stale \in [1 .. w -> StaleOctets] :
         /\ k <= Remaining
         /\ length' = parseMessageLength(Filled(w, k, stale))
         /\ shortPeek' = (k < w)
    /\ phase' = "read" /\ logged' = <<>>
    /\ UNCHANGED <<netVars, reply, shortRecv>>

\* recv finds no octets and no connection (validateRecvResult throws).
PeekFails ==
    /\ phase = "peek"
    /\ queue = <<>> /\ ~connected
    /\ reply' = Thrown /\ phase' = "returned"
    /\ UNCHANGED <<netVars, length, shortPeek, logged, shortRecv>>

\* Mutant of ReadData: the last octet is kept for a null.
ReadDataTerminated ==
    /\ phase = "read"
    /\ length - 1 \in 1 .. Remaining
    /\ reply' \in parseMessage(Filled(length, length - 1, [i \in 1 .. length |-> 0]))
    /\ queue' = After(length - 1)
    /\ phase' = "returned" /\ length' = 0 /\ shortPeek' = FALSE
    /\ shortRecv' = (shortRecv \/ shortPeek)
    /\ UNCHANGED <<connected, sends, logged>>

\* readData's one recv of the message's length into a string of zeros, and
\* parseMessage on all of it.
ReadData ==
    /\ phase = "read"
    /\ length \in 1 .. Allocatable
    /\ \E k \in 1 .. length :
         /\ k <= Remaining
         /\ ShortRecvs \/ k = length
         /\ reply' \in parseMessage(Filled(length, k, [i \in 1 .. length |-> 0]))
         /\ queue' = After(k)
         /\ shortRecv' = (shortRecv \/ shortPeek \/ k < length)
    /\ phase' = "returned" /\ length' = 0 /\ shortPeek' = FALSE
    /\ UNCHANGED <<connected, sends, logged>>

\* A length of zero makes recv return zero; the string cannot be allocated, or
\* its size is a negative int to recv; or the connection is lost.
ReadFails ==
    /\ phase = "read"
    /\ \/ length = 0
       \/ length > Allocatable
       \/ queue = <<>> /\ ~connected
    /\ reply' = Thrown
    /\ shortRecv' = (shortRecv \/ (shortPeek /\ queue # <<>>))
    /\ phase' = "returned" /\ length' = 0 /\ shortPeek' = FALSE
    /\ UNCHANGED <<netVars, logged>>

\* The caller logs the text of an RVersion or RError.  ParsedRVersion and
\* ParsedRError hold a view of incoming_msg, which readParseIncomingMessage has
\* destroyed: the text is still there, or its memory has another use.
LogText ==
    /\ phase = "returned" /\ reply.type \in {"RVersion", "RError"}
    /\ logged' \in {reply.text, [i \in DOMAIN reply.text |-> Outside]}
    /\ phase' = "peek" /\ reply' = Thrown
    /\ UNCHANGED <<netVars, length, shortPeek, shortRecv>>

\* Any other reply is used where it is (RRead and RStat own their data).
UseReply ==
    /\ phase = "returned" /\ reply.type \notin {"RVersion", "RError", "overrun"}
    /\ phase' = "peek" /\ reply' = Thrown
    /\ UNCHANGED <<netVars, length, shortPeek, logged, shortRecv>>

\* The process has ended.
Crashed ==
    /\ phase = "returned" /\ reply.type = "overrun"
    /\ UNCHANGED vars

Next ==
    \/ \E m \in ServerMessages : ServerSends(m)
    \/ LoseOctets
    \/ Peek \/ PeekFails
    \/ ReadData \/ ReadFails
    \/ LogText \/ UseReply
    \/ Crashed

Spec == Init /\ [][Next]_vars

-----------------------------------------------------------------------------
(* The stream of whole messages behind the octets.                         *)

\* A message as ReplyChannel has it; the unit of a stat is its length.
Abstract(m) ==
    [type |-> m.type, tag |-> 0, n |-> m.n,
     data |-> IF m.type = "RStat" THEN <<m.stats[1][9]>> ELSE m.data]

\* The client stands in the middle of a message.
Cut == queue # <<>> /\ Head(queue).from > 0

Stream == [i \in DOMAIN queue |-> Abstract(IF i = 1 /\ Cut THEN Thrown ELSE queue[i].msg)]

C == INSTANCE ReplyChannel
        WITH TagMod <- 2, ShortRecvs <- ShortRecvs, connected <- connected,
             stream <- Stream, cut <- Cut, shortRecv <- shortRecv

\* ReplyChannel's r stands for the reply: the same type and, where the client
\* has kept its place, the same number and data or, in r's place, Bad ones.
StandsFor(r, m) ==
    LET a == Abstract(m) IN
    IF m.type \notin C!ReplyTypes \/ m.type = "none" THEN r.type = "none"
    ELSE /\ r.type = m.type
         /\ r.n \in {0, a.n}
         /\ \/ Cut /\ (r.data = <<>> <=> a.data = <<>>)
            \/ /\ Len(r.data) = Len(a.data)
               /\ \A i \in DOMAIN a.data : r.data[i] \in {a.data[i], C!Bad}

Returns == phase # "returned" /\ phase' = "returned"

-----------------------------------------------------------------------------
(* Properties *)

TypeOK ==
    /\ connected \in BOOLEAN /\ shortRecv \in BOOLEAN /\ shortPeek \in BOOLEAN
    /\ sends \in 0 .. MaxMessages
    /\ \A i \in DOMAIN queue :
         /\ queue[i].msg \in ServerMessages
         /\ queue[i].to \in 1 .. Len(Frames[queue[i].msg])
         /\ queue[i].from \in 0 .. queue[i].to - 1
    /\ phase \in {"peek", "read", "returned"}
    /\ length \in 0 .. Limit("u32") - 1
    /\ reply.type \in ToSet(TypeNames) \cup {"none", "overrun"}
    /\ reply.n \in Nat
    /\ reply.data \in Seq(Octets \cup {Outside})
    /\ reply.text \in Seq(Octets)

\* What a step may do to the stream of messages: a return consumes as ReplyChannel
\* says, the connection is lost, the server sends; a peek does nothing.
ReceiveStep ==
    /\ Returns => \E r \in C!Readable : StandsFor(r, reply') /\ C!Consume(r)
    /\ ~Returns =>
         \/ UNCHANGED <<Stream, Cut, shortRecv, connected>>
         \/ C!Lose /\ UNCHANGED shortRecv
         \/ /\ \E m \in ServerMessages : Stream' = Append(Stream, Abstract(m))
            /\ UNCHANGED <<Cut, shortRecv, connected>>

\* readParseIncomingMessage does to the stream of messages what ReplyChannel
\* says, whose Damaged and Garbage are all the client may be given when recv
\* splits frames, and whose Head(stream) is all it may be given when not.
ReceiveImplements == [][ReceiveStep]_vars

\* parseRRead, parseRStat and parseRawRStat take sizes without a look at the
\* buffer.  With whole frames of a conforming server that is harmless.
OverrunNeedsShortRecv == reply.type = "overrun" => shortRecv

\* While every recv returns all it was asked for, each message that the client
\* is given is one the server has sent, with all that is in it.
WholeFramesAreServers ==
    phase = "returned" /\ ~shortRecv => reply \in ServerMessages \cup {Thrown}

\* A directory read in whole yields the entries the server listed, though the
\* server may add fields of its own to a stat (readRStatsFromData).
EntriesAreServers ==
    phase = "returned" /\ reply.type = "RRead" =>
        \A entries \in Directories : reply.data = Listings[entries] =>
            readRStatsFromData(reply.data) = Stats(entries)

\* The text of a message that is logged is the text the server sent
\* (Client.cpp:216 "Server responded with RError to {} sent, with ename: {}").
LoggedTextIsServers == Outside \notin ToSet(logged)
=============================================================================
