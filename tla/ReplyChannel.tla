---------------------------- MODULE ReplyChannel ----------------------------
(***************************************************************************)
(* The client's end of the TCP connection: what readParseIncomingMessage   *)
(* of protocol/Client.cpp makes of the replies on their way to the client, *)
(* one message at a time.  NinePClient extends this module; FramedReceive, *)
(* which has the octets, implements it.                                    *)
(***************************************************************************)
EXTENDS Integers, Sequences

CONSTANTS
    TagMod,         \* number of values of a Tag (2^16)
    ShortRecvs      \* may a recv return less than the frame it is meant to?

ASSUME TagAssumption == TagMod \in Nat /\ TagMod > 1
ASSUME ShortRecvsAssumption == ShortRecvs \in BOOLEAN

VARIABLES
    connected,   \* neither end has closed the connection
    stream,      \* R-messages with octets the client has not read
    cut,         \* the first of them has lost octets: only Broken stands for it
    shortRecv    \* history: some recv has returned part of a frame

Tags == 0 .. TagMod - 1

\* The replies.  n is the msize of RVersion and the nwqid of RWalk; data is
\* what RRead and RStat carry.  Type "none" is no message the client has a use
\* for: the octets could not be read or parsed and an exception is on its way.
\* "overrun" is the undefined behaviour of extractDataView, which checks no
\* length, when it ends in an access violation.
ReplyTypes == {"RVersion", "RAuth", "RError", "RAttach", "RWalk", "ROpen",
               "RRead", "RClunk", "RStat", "none", "overrun"}
Replies == [type : ReplyTypes, tag : Tags, n : Nat, data : Seq(Int)]

Broken == [type |-> "none", tag |-> 0, n |-> 0, data |-> <<>>]
Overrun == [type |-> "overrun", tag |-> 0, n |-> 0, data |-> <<>>]

\* A unit that is not one of the file: zero padding or octets of something
\* else.
Bad == -1

\* A recv that returns only part of message m: the rest of the buffer is
\* zero, so parsing fails, or yields m's type with a payload cut short or
\* filled up (n = 0 stands for any number that is not m's).  Fewer than four
\* octets at the peek make the length itself arbitrary, for the rest of
\* read_buf is not initialised, and the buffer maybe too small for the payload
\* m announces, or large enough for it and what follows it.
Damaged(m) ==
    {Broken}
    \cup (IF m.type \in {"RRead", "RStat"} THEN {Overrun} ELSE {})
    \cup {[m EXCEPT !.n = n, !.data = [i \in 1 .. len |->
                                         IF i <= k THEN m.data[i] ELSE Bad]] :
            n \in {0, m.n}, len \in 0 .. Len(m.data), k \in 0 .. Len(m.data)}

\* What a frame that starts in the middle of a message may be taken for: any
\* message, or none (a length of zero makes recv return 0, which is reported
\* as a closed connection).  <<Bad>> stands for any data there.  How many
\* octets are left is not kept, so that there may be more such messages than
\* the octets could make.
Garbage == {[type |-> t, tag |-> 0, n |-> 0, data |-> <<>>] : t \in ReplyTypes}
    \cup {[type |-> t, tag |-> 0, n |-> 0, data |-> <<Bad>>] : t \in {"RRead", "RStat"}}

\* What readParseIncomingMessage makes of the stream's octets when it does not
\* get the whole of the next message.
Misread ==
    IF stream = <<>> THEN {}
    ELSE IF cut THEN Garbage
    ELSE IF ShortRecvs THEN Damaged(Head(stream)) ELSE {}

\* What it may return or, as Broken, throw for.
Readable ==
    Misread \cup (IF stream # <<>> /\ ~cut THEN {Head(stream)} ELSE {})
            \cup (IF stream = <<>> /\ ~connected THEN {Broken} ELSE {})

\* A recv of the wrong length ends anywhere: before, inside or after the next
\* message, or behind several.
Skip ==
    \E k \in 1 .. Len(stream) + 1 :
        \/ /\ k <= Len(stream) /\ cut' = TRUE
           /\ stream' = <<Broken>> \o SubSeq(stream, k + 1, Len(stream))
        \/ /\ k > 1 \/ ~cut
           /\ cut' = FALSE
           /\ stream' = SubSeq(stream, k, Len(stream))

\* peekForMessageLength and readData: one recv each, whose effect on the
\* stream goes with the message r that was read.
Consume(r) ==
    \/ /\ stream = <<>>
       /\ UNCHANGED <<stream, cut, shortRecv>>
    \/ /\ stream # <<>> /\ ~cut /\ r = Head(stream)
       /\ stream' = Tail(stream)
       /\ UNCHANGED <<cut, shortRecv>>
    \/ /\ r \in Misread
       /\ shortRecv' = TRUE
       /\ Skip

\* The connection is lost, maybe with the last messages on their way.
Lose ==
    /\ connected
    /\ connected' = FALSE
    /\ \E k \in 0 .. Len(stream) : /\ stream' = SubSeq(stream, 1, k)
                                   /\ cut' = (cut /\ k > 0)
=============================================================================
