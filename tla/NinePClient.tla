---------------------------- MODULE NinePClient ----------------------------
(***************************************************************************)
(* The 9P2000 client of 9p-dokany (protocol/Client.cpp): the connection    *)
(* handshake run by the constructor of Client::Impl, the three operations  *)
(* the Dokan callbacks call (getDirectoryContents, getFileInformation and  *)
(* readFile), and the exceptions that end them, against a conforming 9P    *)
(* server over a TCP connection.                                           *)
(*                                                                         *)
(* There is one client thread: Configuration::thread_count is 1 and no     *)
(* option changes it, so Dokan runs one callback at a time.  Every RPC is  *)
(* two steps of that thread: it sends the T-message, then it reads one     *)
(* reply.  The server, and the loss of the connection, interleave with it. *)
(*                                                                         *)
(* The content of a file or a directory is a row of units, numbered from   *)
(* 1: a unit is a directory entry, or some bytes of a file.                *)
(***************************************************************************)
EXTENDS ReplyChannel

CONSTANTS
    FidMod,         \* number of values of a Fid (2^32)
    MaxMsgSize,     \* MAX_MSG_SIZE, announced in TVersion
    ServerMsizes,   \* the msize values a server may answer with
    DirCount,       \* the count getDirectoryContents asks for (65535)
    Slack,          \* units a server may send beyond the count of a TRead
    \* bounds of the model
    MaxNames,       \* longest path, in components
    MaxSize,        \* largest file or directory, in units
    MaxWant,        \* largest buffer of a ReadFile, in units
    MaxListing,     \* longest list of garbled directory entries followed
    MaxCalls        \* number of client operations

ASSUME WidthAssumption ==
    FidMod \in Nat /\ FidMod > 2

ASSUME SizeAssumption ==
    /\ MaxMsgSize \in Nat
    /\ ServerMsizes \subseteq Nat
    /\ DirCount \in Nat \ {0}
    /\ Slack \in Nat

ASSUME BoundAssumption ==
    /\ MaxNames \in Nat
    /\ MaxSize \in Nat
    /\ MaxWant \in Nat
    /\ MaxListing \in Nat
    /\ MaxCalls \in Nat

VARIABLES
    \* the client thread
    step,        \* what the thread is doing: the RPC it is in, or none
    awaiting,    \* the T-message of that RPC is sent, its reply not yet read
    op,          \* the operation of class Client in progress, with its locals
    result,      \* what the last operation returned
    \* the rest of Client::Impl
    tagIssuer,   \* m_tag_issuer
    fidIssuer,   \* m_fid_issuer
    root,        \* m_fid_tracker.getRootEntry()->fid
    msize,       \* m_max_message_size
    \* the connection, whose other variables are ReplyChannel's
    inbox,       \* T-messages the server has not handled
    \* the server
    agreed,      \* it has accepted the client's protocol version
    serverFids,  \* what each fid stands for
    \* history
    calls,       \* operations begun
    abandoned    \* fids of operations that ended by an exception

clientVars == <<step, awaiting, op, result>>
sessionVars == <<tagIssuer, fidIssuer, root, msize>>
netVars == <<connected, inbox, stream, cut>>
historyVars == <<calls, shortRecv, abandoned>>
vars == <<clientVars, sessionVars, netVars, agreed, serverFids, historyVars>>

-----------------------------------------------------------------------------
(* Values *)

Fids == 0 .. FidMod - 1
NOTAG == TagMod - 1
NoRoot == -1

Calls == {"dir", "stat", "read"}
HandshakeSteps == {"connect", "version", "auth", "attach"}
CallSteps == {"walk", "open", "stat", "read", "clunk"}
Steps == HandshakeSteps \cup {"idle"} \cup CallSteps
            \cup {"terminated", "unmounted"}

\* The messages the client sends (TxMessageBuilder's build functions).
TVersion == [type : {"TVersion"}, tag : Tags, msize : Nat]
TAuth == [type : {"TAuth"}, tag : Tags]
TAttach == [type : {"TAttach"}, tag : Tags, fid : Fids]
TWalk == [type : {"TWalk"}, tag : Tags, fid : Fids \cup {NoRoot},
          newfid : Fids, nwname : Nat]
TOpen == [type : {"TOpen"}, tag : Tags, fid : Fids]
TStat == [type : {"TStat"}, tag : Tags, fid : Fids]
TRead == [type : {"TRead"}, tag : Tags, fid : Fids, offset : Nat, count : Nat]
TClunk == [type : {"TClunk"}, tag : Tags, fid : Fids]
Requests == TVersion \cup TAuth \cup TAttach \cup TWalk
                \cup TOpen \cup TStat \cup TRead \cup TClunk

\* What a fid stands for at the server.
Nodes == [node : {"none", "root", "other"}, size : Nat, open : BOOLEAN]
Unbound == [node |-> "none", size |-> 0, open |-> FALSE]
Bound(f) == serverFids[f] # Unbound

\* The locals of an operation; want is the count of its TRead, data what it
\* has collected: entries, bytes, or one stat.
Ops == [call : Calls \cup {"none"}, names : Nat, offset : Nat, want : Nat,
        fid : Fids, data : Seq(Int)]
NoOp == [call |-> "none", names |-> 0, offset |-> 0, want |-> 0, fid |-> 0,
         data |-> <<>>]

Units(first, n) == [i \in 1 .. n |-> first + i]

Smaller(a, b) == IF a < b THEN a ELSE b

\* Mutant of Issue: the increment is forgotten.
IssueSame(last, mod) == last

\* IntegerIssuer::issue pre-increments an unsigned integer, which wraps.
Issue(last, mod) == (last + 1) % mod

NoResult == [call |-> "none", ret |-> 0, want |-> 0]

-----------------------------------------------------------------------------
(* Initial state: wmain is about to construct the Client. *)

Init ==
    /\ step = "connect" /\ awaiting = FALSE
    /\ op = NoOp
    /\ result = NoResult
    /\ tagIssuer = 0 /\ fidIssuer = 0 /\ root = NoRoot /\ msize = MaxMsgSize
    /\ connected = FALSE /\ inbox = <<>> /\ stream = <<>> /\ cut = FALSE
    /\ agreed = FALSE /\ serverFids = [f \in Fids |-> Unbound]
    /\ calls = 0 /\ shortRecv = FALSE /\ abandoned = {}

-----------------------------------------------------------------------------
(* The building blocks of the client's steps.                              *)

\* Control passes to step s of the same operation, whose locals are now o.
Proceed(s, o) ==
    /\ step' = s
    /\ awaiting' = FALSE
    /\ op' = o
    /\ UNCHANGED <<result, abandoned, connected>>

\* The process ends and its socket is closed.
Die ==
    /\ step' = "terminated"
    /\ awaiting' = FALSE
    /\ op' = NoOp
    /\ connected' = FALSE
    /\ UNCHANGED <<result, abandoned>>

\* Mutant of Throw: readFile does not catch.
ThrowUncaught(o) == Die

\* Mutant of Throw: every operation catches, and returns what it has so far.
ThrowCaught(o) ==
    /\ step' = "idle"
    /\ awaiting' = FALSE
    /\ op' = NoOp
    /\ result' = [call |-> o.call, ret |-> Len(o.data), want |-> o.want]
    /\ abandoned' = abandoned \cup {o.fid}
    /\ UNCHANGED connected

\* An exception leaves operation o.  Client::readFile catches everything and
\* returns -1, with no clunk of the fid its walk may have created; nothing
\* else on the way out, of wmain or of the other two callbacks, catches it.
Throw(o) ==
    \/ /\ o.call = "read"
       /\ step' = "idle"
       /\ awaiting' = FALSE
       /\ op' = NoOp
       /\ result' = [call |-> "read", ret |-> -1, want |-> o.want]
       /\ abandoned' = abandoned \cup {o.fid}
       /\ UNCHANGED connected
    \/ o.call # "read" /\ Die

\* What becomes of o when the reply r is not the one it can go on with.  An
\* overrun is an invalid read of memory, which no catch clause sees.
Fail(r, o) ==
    \/ r.type # "overrun" /\ Throw(o)
    \/ r.type = "overrun" /\ Die

\* The operation returns; readFile returns the number of units the server
\* sent (read_size), not the number it copied.
Return ==
    /\ step' = "idle"
    /\ awaiting' = FALSE
    /\ op' = NoOp
    /\ result' = [call |-> op.call, ret |-> Len(op.data), want |-> op.want]
    /\ UNCHANGED <<abandoned, connected>>

\* sendMessageInTxBuffer.  On a connection that is gone send() fails, or
\* still succeeds once and the message is lost.
Send(m, o) ==
    \/ /\ awaiting' = TRUE
       /\ op' = o
       /\ inbox' = IF connected THEN Append(inbox, m) ELSE inbox
       /\ UNCHANGED <<step, result, abandoned, connected>>
    \/ /\ ~connected
       /\ Throw(o)
       /\ UNCHANGED inbox

\* What a step that only sends, or only receives, leaves alone.
SendFrame == UNCHANGED <<root, msize, stream, cut, agreed, serverFids, calls, shortRecv>>
RecvFrame == UNCHANGED <<tagIssuer, fidIssuer, inbox, agreed, serverFids, calls>>

-----------------------------------------------------------------------------
(* Constructor: connection, version, authentication, attachment.           *)

ConnectToServer ==
    /\ step = "connect"
    /\ \/ /\ step' = "version"
          /\ connected' = TRUE
          /\ UNCHANGED <<awaiting, op, result, abandoned>>
       \/ Throw(op)
    /\ UNCHANGED <<sessionVars, inbox, stream, cut, agreed, serverFids, calls, shortRecv>>

SendTVersion ==
    /\ step = "version" /\ ~awaiting
    /\ Send([type |-> "TVersion", tag |-> NOTAG, msize |-> msize], op)
    /\ UNCHANGED <<tagIssuer, fidIssuer>>
    /\ SendFrame

\* Mutant of AgreedMsize: the server's word is taken.
TheirMsize(theirs) == theirs

AgreedMsize(theirs) == Smaller(msize, theirs)

RecvRVersion ==
    /\ step = "version" /\ awaiting
    /\ \E r \in Readable :
         /\ Consume(r)
         /\ \/ /\ r.type = "RVersion"
               /\ msize' = AgreedMsize(r.n)
               /\ Proceed("auth", op)
            \/ r.type # "RVersion" /\ UNCHANGED msize /\ Fail(r, op)
    /\ UNCHANGED root
    /\ RecvFrame

SendTAuth ==
    /\ step = "auth" /\ ~awaiting
    /\ tagIssuer' = Issue(tagIssuer, TagMod)
    /\ Send([type |-> "TAuth", tag |-> tagIssuer'], op)
    /\ UNCHANGED fidIssuer
    /\ SendFrame

\* RError is the answer hoped for: the server wants no authentication.
RecvRAuth ==
    /\ step = "auth" /\ awaiting
    /\ \E r \in Readable :
         /\ Consume(r)
         /\ \/ r.type = "RError" /\ Proceed("attach", op)
            \/ r.type # "RError" /\ Fail(r, op)
    /\ UNCHANGED <<root, msize>>
    /\ RecvFrame

SendTAttach ==
    /\ step = "attach" /\ ~awaiting
    /\ fidIssuer' = Issue(fidIssuer, FidMod)
    /\ tagIssuer' = Issue(tagIssuer, TagMod)
    /\ Send([type |-> "TAttach", tag |-> tagIssuer', fid |-> fidIssuer'],
            [op EXCEPT !.fid = fidIssuer'])
    /\ SendFrame

\* Mutant of RecvRAttach: an RError is as good as an RAttach, as in
\* doAuthentication.
RecvRAttachAny ==
    /\ step = "attach" /\ awaiting
    /\ \E r \in Readable :
         /\ Consume(r)
         /\ \/ r.type \in {"RAttach", "RError"} /\ root' = op.fid /\ Proceed("idle", NoOp)
            \/ r.type \notin {"RAttach", "RError"} /\ UNCHANGED root /\ Fail(r, op)
    /\ UNCHANGED msize
    /\ RecvFrame

RecvRAttach ==
    /\ step = "attach" /\ awaiting
    /\ \E r \in Readable :
         /\ Consume(r)
         /\ \/ r.type = "RAttach" /\ root' = op.fid /\ Proceed("idle", NoOp)
            \/ r.type # "RAttach" /\ UNCHANGED root /\ Fail(r, op)
    /\ UNCHANGED msize
    /\ RecvFrame

-----------------------------------------------------------------------------
(* Operations: each walks a new fid from the root, uses it and clunks it.  *)

\* A Dokan callback calls getDirectoryContents, getFileInformation or
\* readFile on a path of n components.
Invoke(c, n, off, len) ==
    /\ step = "idle" /\ calls < MaxCalls
    /\ calls' = calls + 1
    /\ step' = "walk"
    /\ result' = NoResult
    /\ op' = [call |-> c, names |-> n, fid |-> 0, data |-> <<>>,
              offset |-> IF c = "read" THEN off ELSE 0,
              want |-> IF c = "read" THEN len ELSE DirCount]
    /\ UNCHANGED <<awaiting, sessionVars, netVars, agreed, serverFids, shortRecv, abandoned>>

\* Mutant of SendTWalk: the walk moves the root fid itself.
SendTWalkInPlace ==
    /\ step = "walk" /\ ~awaiting
    /\ tagIssuer' = Issue(tagIssuer, TagMod)
    /\ Send([type |-> "TWalk", tag |-> tagIssuer', fid |-> root,
             newfid |-> root, nwname |-> op.names],
            [op EXCEPT !.fid = root])
    /\ UNCHANGED fidIssuer
    /\ SendFrame

SendTWalk ==
    /\ step = "walk" /\ ~awaiting
    /\ tagIssuer' = Issue(tagIssuer, TagMod)
    /\ fidIssuer' = Issue(fidIssuer, FidMod)
    /\ Send([type |-> "TWalk", tag |-> tagIssuer', fid |-> root,
             newfid |-> fidIssuer', nwname |-> op.names],
            [op EXCEPT !.fid = fidIssuer'])
    /\ SendFrame

\* Any RWalk counts as success, whatever its nwqid.
RecvRWalk ==
    /\ step = "walk" /\ awaiting
    /\ \E r \in Readable :
         /\ Consume(r)
         /\ \/ /\ r.type = "RWalk"
               /\ Proceed(IF op.call = "stat" THEN "stat" ELSE "open", op)
            \/ r.type # "RWalk" /\ Fail(r, op)
    /\ UNCHANGED <<root, msize>>
    /\ RecvFrame

\* TOpen, TStat, TRead and TClunk differ only in their fields.
SendOnFid(s, m) ==
    /\ step = s /\ ~awaiting
    /\ tagIssuer' = Issue(tagIssuer, TagMod)
    /\ Send(m, op)
    /\ UNCHANGED fidIssuer
    /\ SendFrame

SendTOpen ==
    SendOnFid("open", [type |-> "TOpen", tag |-> tagIssuer', fid |-> op.fid])

\* Mutant of RecvROpen: an RError is not noticed.
RecvROpenAny ==
    /\ step = "open" /\ awaiting
    /\ \E r \in Readable : Consume(r) /\ Proceed("read", op)
    /\ UNCHANGED <<root, msize>>
    /\ RecvFrame

RecvROpen ==
    /\ step = "open" /\ awaiting
    /\ \E r \in Readable :
         /\ Consume(r)
         /\ \/ r.type = "ROpen" /\ Proceed("read", op)
            \/ r.type # "ROpen" /\ Fail(r, op)
    /\ UNCHANGED <<root, msize>>
    /\ RecvFrame

SendTStat ==
    SendOnFid("stat", [type |-> "TStat", tag |-> tagIssuer', fid |-> op.fid])

\* Mutant of RecvRStat: getFileInformation returns without a clunk.
RecvRStatUnclunked ==
    /\ step = "stat" /\ awaiting
    /\ \E r \in Readable :
         /\ Consume(r)
         /\ \/ r.type = "RStat" /\ Return
            \/ r.type # "RStat" /\ Fail(r, op)
    /\ UNCHANGED <<root, msize>>
    /\ RecvFrame

RecvRStat ==
    /\ step = "stat" /\ awaiting
    /\ \E r \in Readable :
         /\ Consume(r)
         /\ \/ /\ r.type = "RStat"
               /\ Proceed("clunk", [op EXCEPT !.data = r.data])
            \/ r.type # "RStat" /\ Fail(r, op)
    /\ UNCHANGED <<root, msize>>
    /\ RecvFrame

\* Mutant of SendTRead: readFile's offset is not passed on.
SendTReadFromStart ==
    SendOnFid("read", [type |-> "TRead", tag |-> tagIssuer', fid |-> op.fid,
                       offset |-> IF op.call = "read" THEN 0 ELSE op.offset,
                       count |-> op.want])

SendTRead ==
    SendOnFid("read", [type |-> "TRead", tag |-> tagIssuer', fid |-> op.fid,
                       offset |-> op.offset, count |-> op.want])

\* Mutant of ReadRStats: the offset counts replies.
ReadRStatsByOne(units) ==
    Proceed("read", [op EXCEPT !.data = @ \o units, !.offset = @ + 1])

\* readRStatsFromData: the entries of one reply join the list, unless parsing
\* stumbles over units that are no entries.
ReadRStats(units) ==
    LET garbled == \E i \in DOMAIN units : units[i] = Bad
    IN  \/ /\ garbled => Len(op.data) + Len(units) <= MaxListing
           /\ Proceed("read", [op EXCEPT !.data = @ \o units,
                                         !.offset = @ + Len(units)])
        \/ garbled /\ (Throw(op) \/ Die)

\* Mutant of EndOfDirectory: the loop has no end.
NoEndOfDirectory(units) == FALSE

EndOfDirectory(units) == units = <<>>

\* readFile takes one reply; getDirectoryContents goes on until one is empty.
RecvRRead ==
    /\ step = "read" /\ awaiting
    /\ \E r \in Readable :
         /\ Consume(r)
         /\ \/ /\ r.type = "RRead" /\ op.call = "read"
               /\ Proceed("clunk", [op EXCEPT !.data = r.data])
            \/ /\ r.type = "RRead" /\ op.call = "dir" /\ EndOfDirectory(r.data)
               /\ Proceed("clunk", op)
            \/ /\ r.type = "RRead" /\ op.call = "dir" /\ ~EndOfDirectory(r.data)
               /\ ReadRStats(r.data)
            \/ r.type # "RRead" /\ Fail(r, op)
    /\ UNCHANGED <<root, msize>>
    /\ RecvFrame

\* Mutant of SendTClunk: the operation returns without reading the reply.
SendTClunkUnawaited ==
    /\ step = "clunk" /\ ~awaiting
    /\ tagIssuer' = Issue(tagIssuer, TagMod)
    /\ inbox' = IF connected THEN Append(inbox, [type |-> "TClunk",
                                    tag |-> tagIssuer', fid |-> op.fid]) ELSE inbox
    /\ Return
    /\ UNCHANGED fidIssuer
    /\ SendFrame

SendTClunk ==
    SendOnFid("clunk", [type |-> "TClunk", tag |-> tagIssuer', fid |-> op.fid])

RecvRClunk ==
    /\ step = "clunk" /\ awaiting
    /\ \E r \in Readable :
         /\ Consume(r)
         /\ \/ r.type = "RClunk" /\ Return
            \/ r.type # "RClunk" /\ Fail(r, op)
    /\ UNCHANGED <<root, msize>>
    /\ RecvFrame

\* DokanMain returns, wmain returns, ~Impl closes the socket.
Unmount ==
    /\ step = "idle"
    /\ step' = "unmounted"
    /\ connected' = FALSE
    /\ UNCHANGED <<awaiting, op, result, sessionVars, inbox, stream, cut,
                   agreed, serverFids, historyVars>>

-----------------------------------------------------------------------------
(* The server (external): it handles T-messages in order, one reply each.  *)

req == Head(inbox)

Transmit(type, n, units) ==
    /\ inbox' = Tail(inbox)
    /\ stream' = Append(stream, [type |-> type, tag |-> req.tag, n |-> n,
                                 data |-> units])
    /\ UNCHANGED <<clientVars, sessionVars, connected, cut, historyVars>>

Reply(type, n, units) ==
    /\ Transmit(type, n, units)
    /\ UNCHANGED agreed

Handles(type) == connected /\ inbox # <<>> /\ req.type = type

Bind(f, node) == serverFids' = [serverFids EXCEPT ![f] = node]

\* A server that does not speak the client's version answers with the version
\* "unknown", which the client does not look at.
AnswerVersion ==
    /\ Handles("TVersion")
    /\ \E n \in ServerMsizes : Transmit("RVersion", n, <<>>)
    /\ agreed' \in BOOLEAN
    /\ UNCHANGED serverFids

AnswerAuth ==
    /\ Handles("TAuth") /\ agreed
    /\ Reply("RAuth", 0, <<>>)
    /\ UNCHANGED serverFids

AnswerAttach ==
    /\ Handles("TAttach") /\ agreed
    /\ ~Bound(req.fid)
    /\ Reply("RAttach", 0, <<>>)
    /\ \E s \in 0 .. MaxSize :
         Bind(req.fid, [node |-> "root", size |-> s, open |-> FALSE])

CanWalk ==
    /\ req.fid \in Fids
    /\ Bound(req.fid)
    /\ ~serverFids[req.fid].open
    /\ req.newfid = req.fid \/ ~Bound(req.newfid)

\* The whole path exists: newfid is created.
AnswerWalk ==
    /\ Handles("TWalk") /\ CanWalk
    /\ Reply("RWalk", req.nwname, <<>>)
    /\ \/ req.nwname = 0 /\ Bind(req.newfid, serverFids[req.fid])
       \/ /\ req.nwname > 0
          /\ \E s \in 0 .. MaxSize :
               Bind(req.newfid, [node |-> "other", size |-> s, open |-> FALSE])

\* Some of the path exists, not all of it: newfid is not created.
AnswerPartialWalk ==
    /\ Handles("TWalk") /\ CanWalk
    /\ \E n \in 1 .. req.nwname - 1 : Reply("RWalk", n, <<>>)
    /\ UNCHANGED serverFids

AnswerOpen ==
    /\ Handles("TOpen")
    /\ Bound(req.fid) /\ ~serverFids[req.fid].open
    /\ Reply("ROpen", 0, <<>>)
    /\ serverFids' = [serverFids EXCEPT ![req.fid].open = TRUE]

AnswerStat ==
    /\ Handles("TStat")
    /\ Bound(req.fid)
    /\ Reply("RStat", 0, <<serverFids[req.fid].size>>)
    /\ UNCHANGED serverFids

\* At least one unit while there is one, none at the end; a directory read
\* returns whole entries.
AnswerRead ==
    /\ Handles("TRead")
    /\ Bound(req.fid) /\ serverFids[req.fid].open
    /\ LET left == serverFids[req.fid].size - req.offset
           most == Smaller(left, req.count + Slack)
       IN  \E n \in IF most > 0 THEN 1 .. most ELSE {0} :
             Reply("RRead", 0, Units(req.offset, n))
    /\ UNCHANGED serverFids

\* The fid is gone even when the clunk itself fails.
AnswerClunk ==
    /\ Handles("TClunk")
    /\ Bound(req.fid)
    /\ \E t \in {"RClunk", "RError"} : Reply(t, 0, <<>>)
    /\ Bind(req.fid, Unbound)

\* A request may be refused; an unusable one must be.
AnswerError ==
    /\ connected /\ inbox # <<>>
    /\ req.type = "TClunk" => ~Bound(req.fid)
    /\ Reply("RError", 0, <<>>)
    /\ UNCHANGED serverFids

\* The connection is lost, with what was on its way to the server and maybe
\* what was on its way to the client; the server forgets its fids.  (That it
\* also forgets them after the client has closed the socket is left out: there
\* is nobody to notice.)
Disconnect ==
    /\ Lose
    /\ inbox' = <<>>
    /\ serverFids' = [f \in Fids |-> Unbound]
    /\ UNCHANGED <<clientVars, sessionVars, agreed, historyVars>>

-----------------------------------------------------------------------------
(* Specification *)

\* The process has ended.
Finished ==
    /\ step \in {"terminated", "unmounted"}
    /\ UNCHANGED vars

ClientStep ==
    \/ ConnectToServer
    \/ SendTVersion \/ RecvRVersion
    \/ SendTAuth \/ RecvRAuth
    \/ SendTAttach \/ RecvRAttach
    \/ SendTWalk \/ RecvRWalk
    \/ SendTOpen \/ RecvROpen
    \/ SendTStat \/ RecvRStat
    \/ SendTRead \/ RecvRRead
    \/ SendTClunk \/ RecvRClunk

ServerStep ==
    \/ AnswerVersion \/ AnswerAuth \/ AnswerAttach
    \/ AnswerWalk \/ AnswerPartialWalk
    \/ AnswerOpen \/ AnswerStat \/ AnswerRead \/ AnswerClunk
    \/ AnswerError

Next ==
    \/ \E c \in Calls, n \in 0 .. MaxNames, off \in 0 .. MaxSize, len \in 1 .. MaxWant :
         Invoke(c, n, off, len)
    \/ ClientStep
    \/ Unmount
    \/ ServerStep
    \/ Disconnect
    \/ Finished

\* The client's thread runs on while it is in a call (it has nothing to wait
\* for but its reply), and the server answers what it has received.
Fairness == WF_vars(ClientStep) /\ WF_vars(ServerStep)

Spec == Init /\ [][Next]_vars
FairSpec == Spec /\ Fairness

-----------------------------------------------------------------------------
(* Properties *)

ClientTypeOK ==
    /\ step \in Steps
    /\ awaiting \in BOOLEAN
    /\ op \in Ops
    /\ result \in [call : Calls \cup {"none"}, ret : Int, want : Nat]

SessionTypeOK ==
    /\ tagIssuer \in Tags
    /\ fidIssuer \in Fids
    /\ root \in Fids \cup {NoRoot}
    /\ msize \in 0 .. MaxMsgSize

NetTypeOK ==
    /\ connected \in BOOLEAN
    /\ inbox \in Seq(Requests)
    /\ stream \in Seq(Replies)
    /\ cut \in BOOLEAN

HistoryTypeOK ==
    /\ calls \in 0 .. MaxCalls
    /\ shortRecv \in BOOLEAN
    /\ abandoned \subseteq Fids

\* Every variable has its type; in particular the negotiated message size
\* never exceeds the one the client announced, whatever the server answers.
TypeOK ==
    /\ ClientTypeOK
    /\ SessionTypeOK
    /\ NetTypeOK
    /\ agreed \in BOOLEAN
    /\ serverFids \in [Fids -> Nodes]
    /\ HistoryTypeOK

\* The steps that are RPCs, the request and the answer of each.
RpcSteps == {"version", "auth", "attach"} \cup CallSteps

RequestOf(s) ==
    CASE s = "version" -> "TVersion" [] s = "auth" -> "TAuth"
      [] s = "attach" -> "TAttach" [] s = "walk" -> "TWalk" [] s = "open" -> "TOpen"
      [] s = "stat" -> "TStat" [] s = "read" -> "TRead" [] s = "clunk" -> "TClunk"

AnswerOf(s) ==
    CASE s = "version" -> "RVersion" [] s = "auth" -> "RAuth"
      [] s = "attach" -> "RAttach" [] s = "walk" -> "RWalk" [] s = "open" -> "ROpen"
      [] s = "stat" -> "RStat" [] s = "read" -> "RRead" [] s = "clunk" -> "RClunk"

CurrentTag == IF step = "version" THEN NOTAG ELSE tagIssuer

\* At most one message is under way, and only while the client waits for it.
OneInFlight ==
    /\ ~cut
    /\ Len(inbox) + Len(stream) <= 1
    /\ inbox # <<>> \/ stream # <<>> => awaiting

RequestMatches ==
    inbox # <<>> => req.type = RequestOf(step) /\ req.tag = CurrentTag

ReplyMatches ==
    stream # <<>> => /\ Head(stream).type \in {AnswerOf(step), "RError"}
                     /\ Head(stream).tag = CurrentTag

\* The client compares no tag and identifies a reply by its type alone.  That
\* is enough as long as recv returns whole frames: what is under way is the
\* request the client waits to have answered or the answer to it, with the tag
\* last issued - also after a call that an exception ended and on a connection
\* that is lost half way.
Lockstep ==
    ~shortRecv => /\ OneInFlight
                  /\ awaiting => step \in RpcSteps
                  /\ RequestMatches
                  /\ ReplyMatches

\* No fid has been issued twice yet.
NoWrap == calls < FidMod - 1

\* A fid that a TWalk asks the server to create is new to the server: a fid
\* that a failed operation left behind is never handed out again, not even
\* after the client has lost its place in the stream.
FreshFid ==
    NoWrap => \A i \in DOMAIN inbox :
                 inbox[i].type = "TWalk" => ~Bound(inbox[i].newfid)

\* The client does not look at the version string of an RVersion, and takes any
\* RError to its TAuth as a wish for no authentication: still the volume is
\* mounted only where the server has accepted the version, for the attachment
\* is refused elsewhere.
MountNeedsVersion ==
    ~shortRecv /\ step \in {"idle"} \cup CallSteps => agreed

\* The root fid every walk starts from is never walked, opened or clunked.
RootPinned ==
    root # NoRoot /\ connected /\ NoWrap /\ ~shortRecv =>
        /\ serverFids[root].node = "root"
        /\ ~serverFids[root].open

\* Between operations the server holds the root fid and the fids of the reads
\* that ended by an exception, no others: a call that returns has released
\* its fid.
FidAccounting ==
    ~shortRecv =>
        \A f \in Fids : Bound(f) => \/ f \in abandoned \cup {root}
                                    \/ step \in CallSteps \cup {"attach"} /\ f = op.fid
                                    \/ step = "terminated"

\* Though doWalk takes a partial walk for a success, no operation reads or
\* clunks a fid the server did not create: the TOpen or TStat in between is
\* refused.  A TRead is only sent on an open fid.
WalkedBeforeUse ==
    connected /\ ~shortRecv =>
        /\ step = "read" => serverFids[op.fid].open
        /\ step = "clunk" /\ (~awaiting \/ inbox # <<>>) => Bound(op.fid)

\* getDirectoryContents returns each entry of the directory once, in order and
\* none left out, into however many replies the server splits them.
DirListingExact ==
    step = "clunk" /\ op.call = "dir" /\ connected /\ ~shortRecv
        /\ (~awaiting \/ inbox # <<>>) =>
            op.data = Units(0, serverFids[op.fid].size)

\* readFile returns bytes of the file, from the offset asked for, provided no
\* recv has returned part of a frame.
WholeFramesGiveFileData ==
    step = "clunk" /\ op.call = "read" /\ ~shortRecv =>
        op.data = Units(op.offset, Len(op.data))

\* Every operation returns or takes the process down, unless a recv has
\* returned part of a frame: the directory loop ends, and no reply is waited
\* for that the server will not send.
CallReturns == step \in CallSteps ~> (step \notin CallSteps \/ shortRecv)

-----------------------------------------------------------------------------
(* What the users of the volume see of it. *)

Phase ==
    CASE step \in HandshakeSteps -> "mounting"
      [] step = "idle" -> "ready"
      [] step \in CallSteps -> "busy"
      [] step \in {"terminated", "unmounted"} -> "gone"

Volume == INSTANCE MountedVolume WITH
              phase <- Phase,
              serving <- op.call,
              answered <- result.call,
              ret <- result.ret

\* The client, its exceptions included, behaves as a mounted volume should: a
\* failed read costs nobody the mount, and no answer is given twice.
ImplementsVolume == Volume!Spec
=============================================================================
