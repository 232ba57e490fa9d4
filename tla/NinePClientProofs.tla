------------------------ MODULE NinePClientProofs ------------------------
(***************************************************************************)
(* Theorems about NinePClient, for every value of its constants: its       *)
(* types, then its operations, that is what the client has mounted, which  *)
(* fid it uses, and what it collects.  The latter hold as long as no recv  *)
(* returns part of a frame, and rest on Lockstep: what is under way then   *)
(* is one message, which belongs to the RPC the client is in.              *)
(***************************************************************************)
EXTENDS NinePClient, SequenceTheorems, TLAPS

-----------------------------------------------------------------------------
(* Lemmas: the building blocks of the steps keep the types.                *)

\* The initial state has the types.
LEMMA InitTypeOK == Init => TypeOK
  <1> SUFFICES ASSUME Init PROVE TypeOK
    OBVIOUS
  <1> USE WidthAssumption, TagAssumption, SizeAssumption, ShortRecvsAssumption, BoundAssumption DEF Init
  <1>1. ClientTypeOK
    <2>1. 0 \in Fids
      BY DEF Fids
    <2>2. <<>> \in Seq(Int)
      OBVIOUS
    <2>3. NoOp \in Ops
      BY <2>1, <2>2 DEF NoOp, Ops
    <2>4. op \in Ops
      BY <2>3
    <2>5. step \in Steps /\ awaiting \in BOOLEAN
      BY DEF Steps, HandshakeSteps
    <2>6. result \in [call : Calls \cup {"none"}, ret : Int, want : Nat]
      BY DEF NoResult
    <2> QED BY <2>4, <2>5, <2>6 DEF ClientTypeOK
  <1>2. SessionTypeOK
    BY DEF SessionTypeOK, Tags, Fids, NoRoot
  <1>3. NetTypeOK
    <2>1. <<>> \in Seq(Requests) /\ <<>> \in Seq(Replies)
      OBVIOUS
    <2> QED BY <2>1 DEF NetTypeOK
  <1>5. HistoryTypeOK
    <2>1. calls \in 0 .. MaxCalls
      OBVIOUS
    <2>2. abandoned \subseteq Fids
      OBVIOUS
    <2>3. shortRecv \in BOOLEAN
      OBVIOUS
    <2> QED BY <2>1, <2>2, <2>3 DEF HistoryTypeOK
  <1>4. agreed \in BOOLEAN /\ serverFids \in [Fids -> Nodes]
    BY DEF Nodes, Unbound
  <1> QED BY <1>1, <1>2, <1>3, <1>4, <1>5 DEF TypeOK

\* An issuer issues a value of its integer type.
LEMMA IssueType ==
  /\ \A last \in Tags : Issue(last, TagMod) \in Tags
  /\ \A last \in Fids : Issue(last, FidMod) \in Fids
  <1>1. ASSUME NEW mod \in Nat, mod > 0, NEW last \in 0 .. mod - 1
        PROVE  Issue(last, mod) \in 0 .. mod - 1
    BY DEF Issue
  <1>2. TagMod > 0 /\ FidMod > 0
    BY WidthAssumption, TagAssumption
  <1>3. \A last \in Tags : Issue(last, TagMod) \in Tags
    BY <1>1, <1>2, WidthAssumption, TagAssumption DEF Tags
  <1>4. \A last \in Fids : Issue(last, FidMod) \in Fids
    BY <1>1, <1>2, WidthAssumption, TagAssumption DEF Fids
  <1> QED BY <1>3, <1>4

\* What a short recv makes of a message is still a message.
LEMMA DamagedType ==
  ASSUME NEW m \in Replies
  PROVE  Damaged(m) \subseteq Replies
  <1> /\ m.data \in Seq(Int) /\ Len(m.data) \in Nat /\ m.n \in Nat
    BY DEF Replies
  <1>1. Broken \in Replies /\ Overrun \in Replies
    BY WidthAssumption, TagAssumption DEF Broken, Overrun, Replies, ReplyTypes, Tags
  <1>2. ASSUME NEW n \in {0, m.n}, NEW d \in Seq(Int)
        PROVE  [m EXCEPT !.n = n, !.data = d] \in Replies
    <2> n \in Nat
      OBVIOUS
    <2> QED BY DEF Replies
  <1>3. ASSUME NEW len \in 0 .. Len(m.data), NEW k \in 0 .. Len(m.data)
        PROVE  [i \in 1 .. len |-> IF i <= k THEN m.data[i] ELSE Bad] \in Seq(Int)
    BY DEF Bad
  <1> DEFINE Changed(n, len, k) ==
               [m EXCEPT !.n = n, !.data = [i \in 1 .. len |-> IF i <= k THEN m.data[i] ELSE Bad]]
  <1>4. \A n \in {0, m.n}, len \in 0 .. Len(m.data), k \in 0 .. Len(m.data) :
          Changed(n, len, k) \in Replies
    BY <1>2, <1>3
  <1>5. Damaged(m) =
          {Broken} \cup (IF m.type \in {"RRead", "RStat"} THEN {Overrun} ELSE {})
            \cup {Changed(n, len, k) :
                    n \in {0, m.n}, len \in 0 .. Len(m.data), k \in 0 .. Len(m.data)}
    BY DEF Damaged
  <1> HIDE DEF Changed
  <1>6. {Changed(n, len, k) :
           n \in {0, m.n}, len \in 0 .. Len(m.data), k \in 0 .. Len(m.data)} \subseteq Replies
    BY <1>4
  <1> QED BY <1>1, <1>5, <1>6

\* Neither is anything else the client may read.
LEMMA ReadableType ==
  ASSUME NetTypeOK
  PROVE  Readable \subseteq Replies
  <1>1. Garbage \subseteq Replies
    <2>1. <<>> \in Seq(Int) /\ <<Bad>> \in Seq(Int) /\ 0 \in Tags
      BY WidthAssumption, TagAssumption DEF Bad, Tags
    <2>2. ASSUME NEW t \in ReplyTypes, NEW d \in Seq(Int)
          PROVE  [type |-> t, tag |-> 0, n |-> 0, data |-> d] \in Replies
      BY <2>1 DEF Replies
    <2> QED BY <2>1, <2>2 DEF Garbage, ReplyTypes
  <1>2. Broken \in Replies
    BY WidthAssumption, TagAssumption DEF Broken, Replies, ReplyTypes, Tags
  <1>3. stream # <<>> => Head(stream) \in Replies
    BY DEF NetTypeOK
  <1>4. Misread \subseteq Replies
    BY <1>1, <1>3, DamagedType DEF Misread
  <1> QED BY <1>2, <1>3, <1>4 DEF Readable

\* Consuming one reply leaves a stream of replies.
LEMMA ConsumeType ==
  ASSUME NetTypeOK, HistoryTypeOK, NEW r, Consume(r)
  PROVE  /\ stream' \in Seq(Replies) /\ cut' \in BOOLEAN /\ shortRecv' \in BOOLEAN
  <1> USE DEF NetTypeOK, HistoryTypeOK
  <1>1. CASE UNCHANGED <<stream, cut, shortRecv>>
    BY <1>1
  <1>2. CASE stream # <<>> /\ stream' = Tail(stream) /\ UNCHANGED <<cut, shortRecv>>
    BY <1>2
  <1>3. CASE shortRecv' = TRUE /\ Skip
    <2>1. Broken \in Replies
      BY WidthAssumption, TagAssumption DEF Broken, Replies, ReplyTypes, Tags
    <2>2. PICK k \in 1 .. Len(stream) + 1 :
            /\ cut' \in BOOLEAN
            /\ \/ k <= Len(stream) /\ stream' = <<Broken>> \o SubSeq(stream, k + 1, Len(stream))
               \/ stream' = SubSeq(stream, k, Len(stream))
      BY <1>3 DEF Skip
    <2>3. SubSeq(stream, k, Len(stream)) \in Seq(Replies)
      OBVIOUS
    <2>4. k <= Len(stream) => SubSeq(stream, k + 1, Len(stream)) \in Seq(Replies)
      OBVIOUS
    <2>5. <<Broken>> \in Seq(Replies)
      BY <2>1
    <2>6. stream' \in Seq(Replies)
      <3>1. CASE stream' = SubSeq(stream, k, Len(stream))
        BY <3>1, <2>3
      <3>2. CASE k <= Len(stream) /\ stream' = <<Broken>> \o SubSeq(stream, k + 1, Len(stream))
        BY <3>2, <2>4, <2>5
      <3> QED BY <2>2, <3>1, <3>2
    <2> QED BY <1>3, <2>2, <2>6
  <1> QED BY <1>1, <1>2, <1>3 DEF Consume

\* Going on to the next step (Proceed) leaves the client's variables typed.
LEMMA ProceedType ==
  ASSUME TypeOK, NEW s \in Steps, NEW o \in Ops, Proceed(s, o)
  PROVE  ClientTypeOK' /\ connected' \in BOOLEAN /\ abandoned' \subseteq Fids
  BY DEF Proceed, TypeOK, ClientTypeOK, NetTypeOK, HistoryTypeOK

\* The locals of no operation are typed.
LEMMA NoOpType == NoOp \in Ops
  <1>1. 0 \in Fids
    BY WidthAssumption, TagAssumption DEF Fids
  <1>2. <<>> \in Seq(Int)
    OBVIOUS
  <1> QED BY <1>1, <1>2 DEF NoOp, Ops

\* The end of the process (Die) leaves the client's variables typed.
LEMMA DieType ==
  ASSUME TypeOK, Die
  PROVE  ClientTypeOK' /\ connected' \in BOOLEAN /\ abandoned' \subseteq Fids
  BY NoOpType DEF Die, TypeOK, ClientTypeOK, NetTypeOK, HistoryTypeOK, Steps

\* An exception (Throw), caught by readFile or not, leaves them typed.
LEMMA ThrowType ==
  ASSUME TypeOK, NEW o \in Ops, Throw(o)
  PROVE  ClientTypeOK' /\ connected' \in BOOLEAN /\ abandoned' \subseteq Fids
  <1>1. CASE Die
    BY <1>1, DieType
  <1>2. CASE /\ step' = "idle" /\ awaiting' = FALSE /\ op' = NoOp
             /\ result' = [call |-> "read", ret |-> -1, want |-> o.want]
             /\ abandoned' = abandoned \cup {o.fid}
             /\ UNCHANGED connected
    <2>1. o.fid \in Fids /\ o.want \in Nat
      BY DEF Ops
    <2>2. step' \in Steps /\ awaiting' \in BOOLEAN /\ op' \in Ops
      BY <1>2, NoOpType DEF Steps
    <2>3. result' \in [call : Calls \cup {"none"}, ret : Int, want : Nat]
      BY <1>2, <2>1 DEF Calls
    <2> QED
      BY <1>2, <2>1, <2>2, <2>3 DEF TypeOK, ClientTypeOK, NetTypeOK, HistoryTypeOK
  <1> QED BY <1>1, <1>2 DEF Throw

\* So does a reply that cannot be gone on with (Fail).
LEMMA FailType ==
  ASSUME TypeOK, NEW r, NEW o \in Ops, Fail(r, o)
  PROVE  ClientTypeOK' /\ connected' \in BOOLEAN /\ abandoned' \subseteq Fids
  BY DieType, ThrowType DEF Fail

\* An operation that returns (Return) leaves a typed result.
LEMMA ReturnType ==
  ASSUME TypeOK, Return
  PROVE  ClientTypeOK' /\ connected' \in BOOLEAN /\ abandoned' \subseteq Fids
  <1>1. op.call \in Calls \cup {"none"} /\ Len(op.data) \in Nat /\ op.want \in Nat
    BY DEF TypeOK, ClientTypeOK, Ops
  <1>2. result' \in [call : Calls \cup {"none"}, ret : Int, want : Nat]
    BY <1>1 DEF Return
  <1>3. step' \in Steps /\ awaiting' \in BOOLEAN /\ op' \in Ops
    BY NoOpType DEF Return, Steps
  <1> QED
    BY <1>2, <1>3 DEF Return, TypeOK, ClientTypeOK, NetTypeOK, HistoryTypeOK

\* A step that sends one message keeps every type.
LEMMA SendKeepsTypes ==
  ASSUME TypeOK, NEW m \in Requests, NEW o \in Ops, Send(m, o), SendFrame,
         tagIssuer' \in Tags, fidIssuer' \in Fids
  PROVE  TypeOK'
  <1>1. ClientTypeOK' /\ connected' \in BOOLEAN /\ abandoned' \subseteq Fids
    <2>1. CASE Throw(o)
      BY <2>1, ThrowType
    <2>2. CASE /\ awaiting' = TRUE /\ op' = o
               /\ UNCHANGED <<step, result, abandoned, connected>>
      BY <2>2 DEF TypeOK, ClientTypeOK, NetTypeOK, HistoryTypeOK
    <2> QED BY <2>1, <2>2 DEF Send
  <1>2. inbox' \in Seq(Requests)
    <2>1. inbox \in Seq(Requests) /\ Append(inbox, m) \in Seq(Requests)
      BY DEF TypeOK, NetTypeOK
    <2> QED BY <2>1 DEF Send
  <1> QED
    BY <1>1, <1>2 DEF SendFrame, TypeOK, SessionTypeOK, NetTypeOK, HistoryTypeOK

\* So does a step that reads one reply, if its outcome is well typed.
LEMMA RecvKeepsTypes ==
  ASSUME TypeOK, NEW r \in Readable, Consume(r), RecvFrame,
         ClientTypeOK', connected' \in BOOLEAN, abandoned' \subseteq Fids,
         root' \in Fids \cup {NoRoot}, msize' \in 0 .. MaxMsgSize
  PROVE  TypeOK'
  <1>1. stream' \in Seq(Replies) /\ cut' \in BOOLEAN /\ shortRecv' \in BOOLEAN
    BY ConsumeType DEF TypeOK
  <1> QED
    BY <1>1 DEF RecvFrame, TypeOK, SessionTypeOK, NetTypeOK, HistoryTypeOK

\* And so does an answer of the server.
LEMMA ReplyKeepsTypes ==
  ASSUME TypeOK, inbox # <<>>, NEW t \in ReplyTypes, NEW n \in Nat, NEW u \in Seq(Int),
         Transmit(t, n, u), agreed' \in BOOLEAN, serverFids' \in [Fids -> Nodes]
  PROVE  TypeOK'
  <1>1. req \in Requests /\ Tail(inbox) \in Seq(Requests)
    BY DEF TypeOK, NetTypeOK, req
  <1>2. req.tag \in Tags
    BY <1>1 DEF Requests, TVersion, TAuth, TAttach, TWalk, TOpen, TStat, TRead, TClunk
  <1>3. [type |-> t, tag |-> req.tag, n |-> n, data |-> u] \in Replies
    BY <1>2 DEF Replies
  <1>4. stream' \in Seq(Replies) /\ inbox' \in Seq(Requests)
    BY <1>1, <1>3 DEF Transmit, TypeOK, NetTypeOK
  <1> QED
    BY <1>4
    DEF Transmit, TypeOK, ClientTypeOK, SessionTypeOK, NetTypeOK, HistoryTypeOK,
        clientVars, sessionVars, historyVars

\* A request has the fields of its type.
LEMMA RequestFields ==
  ASSUME NEW m \in Requests
  PROVE  /\ m.type = "TAttach" => m \in TAttach
         /\ m.type = "TWalk" => m \in TWalk
         /\ m.type = "TOpen" => m \in TOpen
         /\ m.type = "TStat" => m \in TStat
         /\ m.type = "TRead" => m \in TRead
         /\ m.type = "TClunk" => m \in TClunk
  BY DEF Requests, TVersion, TAuth, TAttach, TWalk, TOpen, TStat, TRead, TClunk

\* Rebinding a fid keeps the server's map a map to nodes.
LEMMA BindType ==
  ASSUME TypeOK, NEW f, NEW node \in Nodes, Bind(f, node)
  PROVE  serverFids' \in [Fids -> Nodes]
  BY DEF TypeOK, Bind
-----------------------------------------------------------------------------
(* Type correctness *)

\* Every step keeps the types.
LEMMA NextKeepsTypes == TypeOK /\ [Next]_vars => TypeOK'
  <1> SUFFICES ASSUME TypeOK, [Next]_vars PROVE TypeOK'
    OBVIOUS
  <1> USE DEF TypeOK
  <1>types. /\ op \in Ops /\ tagIssuer \in Tags /\ fidIssuer \in Fids
            /\ root \in Fids \cup {NoRoot} /\ msize \in 0 .. MaxMsgSize
            /\ op.fid \in Fids /\ op.names \in Nat /\ op.offset \in Nat
            /\ op.want \in Nat /\ op.data \in Seq(Int)
    BY DEF ClientTypeOK, SessionTypeOK, Ops
  <1>issue. Issue(tagIssuer, TagMod) \in Tags /\ Issue(fidIssuer, FidMod) \in Fids
    BY <1>types, IssueType
  <1>empty. <<>> \in Seq(Int) /\ 0 \in Nat
    OBVIOUS
  <1>req. inbox # <<>> => req \in Requests
    BY DEF NetTypeOK, req
  <1>1. CASE ConnectToServer
    <2>1. ClientTypeOK' /\ connected' \in BOOLEAN /\ abandoned' \subseteq Fids
      <3>1. CASE Throw(op)
        BY <3>1, <1>types, ThrowType
      <3>2. CASE /\ step' = "version" /\ connected' = TRUE
                 /\ UNCHANGED <<awaiting, op, result, abandoned>>
        BY <3>2 DEF ClientTypeOK, HistoryTypeOK, Steps, HandshakeSteps
      <3> QED BY <1>1, <3>1, <3>2 DEF ConnectToServer
    <2> QED
      BY <1>1, <2>1 DEF ConnectToServer, SessionTypeOK, NetTypeOK, HistoryTypeOK, sessionVars
  <1>2. CASE SendTVersion
    <2> DEFINE m == [type |-> "TVersion", tag |-> NOTAG, msize |-> msize]
    <2>1. m \in Requests
      BY <1>types, WidthAssumption, TagAssumption, SizeAssumption, ShortRecvsAssumption DEF Requests, TVersion, NOTAG, Tags
    <2> QED
      BY <1>2, <1>types, <2>1, SendKeepsTypes DEF SendTVersion
  <1>3. CASE RecvRVersion
    <2> PICK r \in Readable :
          /\ Consume(r)
          /\ \/ msize' = AgreedMsize(r.n) /\ Proceed("auth", op)
             \/ UNCHANGED msize /\ Fail(r, op)
      BY <1>3 DEF RecvRVersion
    <2>1. r.n \in Nat
      BY ReadableType DEF Replies
    <2>2. msize' \in 0 .. MaxMsgSize
      BY <1>types, <2>1, SizeAssumption, ShortRecvsAssumption DEF AgreedMsize, Smaller
    <2>3. ClientTypeOK' /\ connected' \in BOOLEAN /\ abandoned' \subseteq Fids
      BY <1>types, ProceedType, FailType DEF Steps, HandshakeSteps
    <2> QED
      BY <1>3, <1>types, <2>2, <2>3, RecvKeepsTypes DEF RecvRVersion
  <1>4. CASE SendTAuth
    <2> DEFINE m == [type |-> "TAuth", tag |-> tagIssuer']
    <2>1. tagIssuer' \in Tags /\ fidIssuer' \in Fids
      BY <1>4, <1>types, <1>issue DEF SendTAuth, SendOnFid
    <2>2. m \in Requests
      BY <1>types, <2>1 DEF Requests, TAuth
    <2> QED
      BY <1>4, <1>types, <2>1, <2>2, SendKeepsTypes DEF SendTAuth, SendOnFid
  <1>5. CASE RecvRAuth
    <2> PICK r \in Readable :
          /\ Consume(r)
          /\ \/ Proceed("attach", op)
             \/ Fail(r, op)
      BY <1>5 DEF RecvRAuth
    <2>2. ClientTypeOK' /\ connected' \in BOOLEAN /\ abandoned' \subseteq Fids
      BY <1>types, ProceedType, FailType DEF Steps, HandshakeSteps
    <2> QED
      BY <1>5, <1>types, <2>2, RecvKeepsTypes DEF RecvRAuth
  <1>6. CASE SendTAttach
    <2> DEFINE m == [type |-> "TAttach", tag |-> tagIssuer', fid |-> fidIssuer']
               o == [op EXCEPT !.fid = fidIssuer']
    <2>1. tagIssuer' \in Tags /\ fidIssuer' \in Fids
      BY <1>6, <1>issue DEF SendTAttach
    <2>2. m \in Requests /\ o \in Ops
      BY <1>types, <2>1 DEF Requests, TAttach, Ops
    <2> QED
      BY <1>6, <2>1, <2>2, SendKeepsTypes DEF SendTAttach
  <1>7. CASE RecvRAttach
    <2> PICK r \in Readable :
          /\ Consume(r)
          /\ \/ root' = op.fid /\ Proceed("idle", NoOp)
             \/ UNCHANGED root /\ Fail(r, op)
      BY <1>7 DEF RecvRAttach
    <2>2. ClientTypeOK' /\ connected' \in BOOLEAN /\ abandoned' \subseteq Fids
      BY <1>types, NoOpType, ProceedType, FailType DEF Steps
    <2> QED
      BY <1>7, <1>types, <2>2, RecvKeepsTypes DEF RecvRAttach
  <1>8. CASE \E c \in Calls, n \in 0 .. MaxNames, off \in 0 .. MaxSize, len \in 1 .. MaxWant :
                 Invoke(c, n, off, len)
    <2> PICK c \in Calls, n \in 0 .. MaxNames, off \in 0 .. MaxSize, len \in 1 .. MaxWant :
          Invoke(c, n, off, len)
      BY <1>8
    <2>1. 0 \in Fids /\ <<>> \in Seq(Int) /\ DirCount \in Nat
      BY WidthAssumption, TagAssumption, SizeAssumption, ShortRecvsAssumption DEF Fids
    <2>2. op' \in Ops
      BY <2>1, BoundAssumption DEF Invoke, Ops
    <2>3. calls' \in 0 .. MaxCalls
      BY BoundAssumption DEF Invoke, HistoryTypeOK
    <2>4. step' \in Steps /\ result' \in [call : Calls \cup {"none"}, ret : Int, want : Nat]
      BY DEF Invoke, Steps, CallSteps, NoResult
    <2> QED
      BY <2>2, <2>3, <2>4
      DEF Invoke, ClientTypeOK, SessionTypeOK, NetTypeOK, HistoryTypeOK, sessionVars, netVars
  <1>9. CASE SendTWalk
    <2> DEFINE m == [type |-> "TWalk", tag |-> tagIssuer', fid |-> root,
                     newfid |-> fidIssuer', nwname |-> op.names]
               o == [op EXCEPT !.fid = fidIssuer']
    <2>1. tagIssuer' \in Tags /\ fidIssuer' \in Fids
      BY <1>9, <1>issue DEF SendTWalk
    <2>2. m \in Requests /\ o \in Ops
      BY <1>types, <2>1 DEF Requests, TWalk, Ops
    <2> QED
      BY <1>9, <2>1, <2>2, SendKeepsTypes DEF SendTWalk
  <1>10. CASE RecvRWalk
    <2> PICK r \in Readable :
          /\ Consume(r)
          /\ \/ Proceed(IF op.call = "stat" THEN "stat" ELSE "open", op)
             \/ Fail(r, op)
      BY <1>10 DEF RecvRWalk
    <2>2. ClientTypeOK' /\ connected' \in BOOLEAN /\ abandoned' \subseteq Fids
      BY <1>types, ProceedType, FailType DEF Steps, CallSteps
    <2> QED
      BY <1>10, <1>types, <2>2, RecvKeepsTypes DEF RecvRWalk
  <1>11. CASE SendTOpen
    <2> DEFINE m == [type |-> "TOpen", tag |-> tagIssuer', fid |-> op.fid]
    <2>1. tagIssuer' \in Tags /\ fidIssuer' \in Fids
      BY <1>11, <1>types, <1>issue DEF SendTOpen, SendOnFid
    <2>2. m \in Requests
      BY <1>types, <2>1 DEF Requests, TOpen
    <2> QED
      BY <1>11, <1>types, <2>1, <2>2, SendKeepsTypes DEF SendTOpen, SendOnFid
  <1>12. CASE RecvROpen
    <2> PICK r \in Readable :
          /\ Consume(r)
          /\ \/ Proceed("read", op)
             \/ Fail(r, op)
      BY <1>12 DEF RecvROpen
    <2>2. ClientTypeOK' /\ connected' \in BOOLEAN /\ abandoned' \subseteq Fids
      BY <1>types, ProceedType, FailType DEF Steps, CallSteps
    <2> QED
      BY <1>12, <1>types, <2>2, RecvKeepsTypes DEF RecvROpen
  <1>13. CASE SendTStat
    <2> DEFINE m == [type |-> "TStat", tag |-> tagIssuer', fid |-> op.fid]
    <2>1. tagIssuer' \in Tags /\ fidIssuer' \in Fids
      BY <1>13, <1>types, <1>issue DEF SendTStat, SendOnFid
    <2>2. m \in Requests
      BY <1>types, <2>1 DEF Requests, TStat
    <2> QED
      BY <1>13, <1>types, <2>1, <2>2, SendKeepsTypes DEF SendTStat, SendOnFid
  <1>14. CASE RecvRStat
    <2> PICK r \in Readable :
          /\ Consume(r)
          /\ \/ Proceed("clunk", [op EXCEPT !.data = r.data])
             \/ Fail(r, op)
      BY <1>14 DEF RecvRStat
    <2>1. [op EXCEPT !.data = r.data] \in Ops
      BY <1>types, ReadableType DEF Replies, Ops
    <2>2. ClientTypeOK' /\ connected' \in BOOLEAN /\ abandoned' \subseteq Fids
      BY <1>types, <2>1, ProceedType, FailType DEF Steps, CallSteps
    <2> QED
      BY <1>14, <1>types, <2>2, RecvKeepsTypes DEF RecvRStat
  <1>15. CASE SendTRead
    <2> DEFINE m == [type |-> "TRead", tag |-> tagIssuer', fid |-> op.fid,
                     offset |-> op.offset, count |-> op.want]
    <2>1. tagIssuer' \in Tags /\ fidIssuer' \in Fids
      BY <1>15, <1>types, <1>issue DEF SendTRead, SendOnFid
    <2>2. m \in Requests
      BY <1>types, <2>1 DEF Requests, TRead
    <2> QED
      BY <1>15, <1>types, <2>1, <2>2, SendKeepsTypes DEF SendTRead, SendOnFid
  <1>16. CASE RecvRRead
    <2> PICK r \in Readable :
          /\ Consume(r)
          /\ \/ Proceed("clunk", [op EXCEPT !.data = r.data])
             \/ Proceed("clunk", op)
             \/ ReadRStats(r.data)
             \/ Fail(r, op)
      BY <1>16 DEF RecvRRead
    <2>1. /\ [op EXCEPT !.data = r.data] \in Ops
          /\ [op EXCEPT !.data = @ \o r.data, !.offset = @ + Len(r.data)] \in Ops
      <3>1. r.data \in Seq(Int)
        BY ReadableType DEF Replies
      <3>2. op.data \o r.data \in Seq(Int) /\ op.offset + Len(r.data) \in Nat
        BY <1>types, <3>1
      <3> QED BY <1>types, <3>1, <3>2 DEF Ops
    <2>2. ClientTypeOK' /\ connected' \in BOOLEAN /\ abandoned' \subseteq Fids
      BY <1>types, <2>1, ProceedType, FailType, ThrowType, DieType DEF ReadRStats, Steps, CallSteps
    <2> QED
      BY <1>16, <1>types, <2>2, RecvKeepsTypes DEF RecvRRead
  <1>17. CASE SendTClunk
    <2> DEFINE m == [type |-> "TClunk", tag |-> tagIssuer', fid |-> op.fid]
    <2>1. tagIssuer' \in Tags /\ fidIssuer' \in Fids
      BY <1>17, <1>types, <1>issue DEF SendTClunk, SendOnFid
    <2>2. m \in Requests
      BY <1>types, <2>1 DEF Requests, TClunk
    <2> QED
      BY <1>17, <1>types, <2>1, <2>2, SendKeepsTypes DEF SendTClunk, SendOnFid
  <1>18. CASE RecvRClunk
    <2> PICK r \in Readable :
          /\ Consume(r)
          /\ \/ Return
             \/ Fail(r, op)
      BY <1>18 DEF RecvRClunk
    <2>2. ClientTypeOK' /\ connected' \in BOOLEAN /\ abandoned' \subseteq Fids
      BY <1>types, ReturnType, FailType
    <2> QED
      BY <1>18, <1>types, <2>2, RecvKeepsTypes DEF RecvRClunk
  <1>19. CASE Unmount
    BY <1>19
    DEF Unmount, ClientTypeOK, SessionTypeOK, NetTypeOK, HistoryTypeOK, Steps,
        sessionVars, historyVars
  <1>20. CASE AnswerVersion
    <2> PICK n \in ServerMsizes : Transmit("RVersion", n, <<>>)
      BY <1>20 DEF AnswerVersion
    <2> QED
      BY <1>20, <1>empty, SizeAssumption, ShortRecvsAssumption, ReplyKeepsTypes DEF AnswerVersion, Handles, ReplyTypes
  <1>21. CASE AnswerAuth
    BY <1>21, <1>empty, ReplyKeepsTypes DEF AnswerAuth, Reply, Handles, ReplyTypes
  <1>22. CASE AnswerAttach
    <2> PICK s \in 0 .. MaxSize :
          Bind(req.fid, [node |-> "root", size |-> s, open |-> FALSE])
      BY <1>22 DEF AnswerAttach
    <2>1. [node |-> "root", size |-> s, open |-> FALSE] \in Nodes
      BY BoundAssumption DEF Nodes
    <2>2. serverFids' \in [Fids -> Nodes]
      BY <2>1, BindType
    <2> QED
      BY <1>22, <2>2, <1>empty, ReplyKeepsTypes DEF AnswerAttach, Reply, Handles, ReplyTypes
  <1>23. CASE AnswerWalk
    <2>1. req \in TWalk
      BY <1>23, <1>req, RequestFields DEF AnswerWalk, Handles
    <2>2. req.nwname \in Nat
      BY <2>1 DEF TWalk
    <2>3. serverFids' \in [Fids -> Nodes]
      <3>1. CASE Bind(req.newfid, serverFids[req.fid])
        <4>1. serverFids[req.fid] \in Nodes
          BY <1>23 DEF AnswerWalk, CanWalk
        <4> QED BY <3>1, <4>1, BindType
      <3>2. ASSUME NEW s \in 0 .. MaxSize,
                   Bind(req.newfid, [node |-> "other", size |-> s, open |-> FALSE])
            PROVE  serverFids' \in [Fids -> Nodes]
        <4>1. [node |-> "other", size |-> s, open |-> FALSE] \in Nodes
          BY BoundAssumption DEF Nodes
        <4> QED BY <3>2, <4>1, BindType
      <3> QED BY <1>23, <3>1, <3>2 DEF AnswerWalk
    <2> QED
      BY <1>23, <2>2, <2>3, <1>empty, ReplyKeepsTypes DEF AnswerWalk, Reply, Handles, ReplyTypes
  <1>24. CASE AnswerPartialWalk
    <2>1. req \in TWalk
      BY <1>24, <1>req, RequestFields DEF AnswerPartialWalk, Handles
    <2>2. req.nwname \in Nat
      BY <2>1 DEF TWalk
    <2> PICK n \in 1 .. req.nwname - 1 : Reply("RWalk", n, <<>>)
      BY <1>24 DEF AnswerPartialWalk
    <2>3. n \in Nat
      BY <2>2
    <2> QED
      BY <1>24, <2>3, <1>empty, ReplyKeepsTypes DEF AnswerPartialWalk, Reply, Handles, ReplyTypes
  <1>25. CASE AnswerOpen
    <2>1. req \in TOpen
      BY <1>25, <1>req, RequestFields DEF AnswerOpen, Handles
    <2>2. req.fid \in Fids
      BY <2>1 DEF TOpen
    <2>3. [serverFids[req.fid] EXCEPT !.open = TRUE] \in Nodes
      BY <2>2 DEF Nodes
    <2>4. serverFids' \in [Fids -> Nodes]
      BY <1>25, <2>3 DEF AnswerOpen
    <2> QED
      BY <1>25, <2>4, <1>empty, ReplyKeepsTypes DEF AnswerOpen, Reply, Handles, ReplyTypes
  <1>26. CASE AnswerStat
    <2>1. req \in TStat
      BY <1>26, <1>req, RequestFields DEF AnswerStat, Handles
    <2>2. serverFids[req.fid].size \in Int
      BY <2>1 DEF TStat, Nodes
    <2>3. <<serverFids[req.fid].size>> \in Seq(Int)
      BY <2>2
    <2> QED
      BY <1>26, <2>3, ReplyKeepsTypes DEF AnswerStat, Reply, Handles, ReplyTypes
  <1>27. CASE AnswerRead
    <2>1. req \in TRead
      BY <1>27, <1>req, RequestFields DEF AnswerRead, Handles
    <2>2. req.offset \in Int
      BY <2>1 DEF TRead
    <2> PICK n : /\ n \in 0 .. n /\ n \in Nat
                 /\ Reply("RRead", 0, Units(req.offset, n))
      <3> DEFINE left == serverFids[req.fid].size - req.offset
                 most == Smaller(left, req.count + Slack)
      <3>1. most \in Int
        BY <2>1, SizeAssumption, ShortRecvsAssumption DEF TRead, Nodes, Smaller
      <3>2. PICK n \in IF most > 0 THEN 1 .. most ELSE {0} :
              Reply("RRead", 0, Units(req.offset, n))
        BY <1>27 DEF AnswerRead
      <3>3. n \in Nat
        BY <3>1, <3>2
      <3> QED BY <3>2, <3>3
    <2>3. Units(req.offset, n) \in Seq(Int)
      BY <2>2 DEF Units
    <2> QED
      BY <1>27, <2>3, ReplyKeepsTypes DEF AnswerRead, Reply, Handles, ReplyTypes
  <1>28. CASE AnswerClunk
    <2> PICK t \in {"RClunk", "RError"} : Reply(t, 0, <<>>)
      BY <1>28 DEF AnswerClunk
    <2>1. Unbound \in Nodes
      BY DEF Unbound, Nodes
    <2>2. serverFids' \in [Fids -> Nodes]
      BY <1>28, <2>1, BindType DEF AnswerClunk
    <2> QED
      BY <1>28, <2>2, <1>empty, ReplyKeepsTypes DEF AnswerClunk, Reply, Handles, ReplyTypes
  <1>29. CASE AnswerError
    BY <1>29, <1>empty, ReplyKeepsTypes DEF AnswerError, Reply, ReplyTypes
  <1>30. CASE Disconnect
    <2>1. <<>> \in Seq(Requests) /\ <<>> \in Seq(Replies)
      OBVIOUS
    <2>2. Unbound \in Nodes
      BY DEF Unbound, Nodes
    <2>3. serverFids' \in [Fids -> Nodes]
      BY <1>30, <2>2 DEF Disconnect
    <2>4. NetTypeOK'
      <3>1. ASSUME NEW k \in 0 .. Len(stream)
            PROVE  SubSeq(stream, 1, k) \in Seq(Replies)
        BY DEF NetTypeOK
      <3> QED
        BY <1>30, <2>1, <3>1 DEF Disconnect, Lose, NetTypeOK
    <2> QED
      BY <1>30, <2>3, <2>4
      DEF Disconnect, Lose, ClientTypeOK, SessionTypeOK, HistoryTypeOK, clientVars,
          sessionVars, historyVars
  <1>31. CASE Finished \/ UNCHANGED vars
    BY <1>31
    DEF Finished, vars, ClientTypeOK, SessionTypeOK, NetTypeOK, HistoryTypeOK,
        clientVars, sessionVars, netVars, historyVars
  <1> QED
    BY <1>1, <1>2, <1>3, <1>4, <1>5, <1>6, <1>7, <1>8, <1>9, <1>10, <1>11,
       <1>12, <1>13, <1>14, <1>15, <1>16, <1>17, <1>18, <1>19, <1>20, <1>21,
       <1>22, <1>23, <1>24, <1>25, <1>26, <1>27, <1>28, <1>29, <1>30, <1>31
    DEF Next, ClientStep, ServerStep

\* Every reachable state is well typed, and no server can raise the message
\* size above MAX_MSG_SIZE (doVersionHandshake).
THEOREM TypeCorrect == Spec => []TypeOK
  <1>1. Init => TypeOK
    BY InitTypeOK
  <1>2. TypeOK /\ [Next]_vars => TypeOK'
    BY NextKeepsTypes
  <1> QED BY <1>1, <1>2, PTL DEF Spec
-----------------------------------------------------------------------------
(* Lockstep *)

\* Lockstep is inductive together with the fact that nothing waits for the
\* server on a connection that is gone: an exception for a lost connection
\* would otherwise leave a request behind.
LockstepInv ==
    /\ TypeOK
    /\ Lockstep
    /\ ~shortRecv /\ ~connected => inbox = <<>>

\* Sending: there was nothing under way, now there is this request.
LEMMA SendInLockstep ==
  ASSUME LockstepInv, TypeOK', ~awaiting, step \in RpcSteps,
         NEW m, NEW o, Send(m, o), SendFrame, m.type = RequestOf(step),
         m.tag = IF step = "version" THEN NOTAG ELSE tagIssuer'
  PROVE  LockstepInv'
  <1> SUFFICES ASSUME ~shortRecv' PROVE Lockstep' /\ (~connected' => inbox' = <<>>)
    BY DEF LockstepInv, Lockstep
  <1>1. ~shortRecv /\ stream' = stream /\ cut' = cut
    BY DEF SendFrame
  <1>2. ~cut /\ inbox = <<>> /\ stream = <<>>
    BY <1>1 DEF LockstepInv, Lockstep, OneInFlight
  <1>3. CASE Throw(o)
    <2>1. awaiting' = FALSE /\ inbox' = <<>> /\ (connected' => connected)
      BY <1>2, <1>3 DEF Throw, Die, Send
    <2> QED
      BY <1>1, <1>2, <2>1 DEF Lockstep, OneInFlight, RequestMatches, ReplyMatches
  <1>4. CASE /\ awaiting' = TRUE /\ UNCHANGED <<step, connected>>
             /\ inbox' = IF connected THEN Append(inbox, m) ELSE inbox
    <2>1. inbox' = IF connected THEN <<m>> ELSE <<>>
      BY <1>2, <1>4
    <2>2. Len(inbox') + Len(stream') <= 1 /\ (connected => req' = m)
      BY <1>1, <1>2, <2>1 DEF req
    <2> QED
      BY <1>1, <1>2, <1>4, <2>1, <2>2
      DEF Lockstep, OneInFlight, RequestMatches, ReplyMatches, CurrentTag
  <1> QED BY <1>3, <1>4 DEF Send

\* Receiving: nothing is under way any more.
LEMMA RecvInLockstep ==
  ASSUME LockstepInv, TypeOK', NEW r \in Readable, Consume(r),
         UNCHANGED inbox, awaiting' = FALSE
  PROVE  LockstepInv'
  <1> SUFFICES ASSUME ~shortRecv' PROVE Lockstep' /\ inbox' = <<>>
    BY DEF LockstepInv, Lockstep
  <1>1. inbox \in Seq(Requests) /\ stream \in Seq(Replies)
    BY DEF LockstepInv, TypeOK, NetTypeOK
  <1>2. CASE stream = <<>> /\ UNCHANGED <<stream, cut, shortRecv>>
    <2>1. ~connected /\ ~shortRecv
      BY <1>2 DEF Readable, Misread
    <2> QED
      BY <1>2, <2>1
      DEF LockstepInv, Lockstep, OneInFlight, RequestMatches, ReplyMatches
  <1>3. CASE stream # <<>> /\ stream' = Tail(stream) /\ UNCHANGED <<cut, shortRecv>>
    <2>1. ~cut /\ Len(inbox) + Len(stream) <= 1
      BY <1>3 DEF LockstepInv, Lockstep, OneInFlight
    <2>2. inbox = <<>> /\ stream' = <<>>
      BY <1>1, <1>3, <2>1
    <2> QED
      BY <1>3, <2>1, <2>2 DEF Lockstep, OneInFlight, RequestMatches, ReplyMatches
  <1>4. CASE shortRecv' = TRUE
    BY <1>4
  <1> QED BY <1>2, <1>3, <1>4 DEF Consume

\* Answering: the reply takes the place of the request, with its tag.
LEMMA ReplyInLockstep ==
  ASSUME LockstepInv, TypeOK', inbox # <<>>, connected,
         NEW t, NEW n, NEW u, Transmit(t, n, u),
         step \in RpcSteps /\ req.type = RequestOf(step) => t \in {AnswerOf(step), "RError"}
  PROVE  LockstepInv'
  <1> SUFFICES ASSUME ~shortRecv' PROVE Lockstep' /\ connected'
    BY DEF LockstepInv, Lockstep
  <1>1. ~shortRecv /\ UNCHANGED <<cut, step, awaiting, tagIssuer, connected>>
    BY DEF Transmit, historyVars, clientVars, sessionVars
  <1>2. inbox \in Seq(Requests) /\ stream \in Seq(Replies)
    BY DEF LockstepInv, TypeOK, NetTypeOK
  <1>3. /\ ~cut /\ awaiting /\ Len(inbox) + Len(stream) <= 1 /\ step \in RpcSteps
        /\ req.type = RequestOf(step) /\ req.tag = CurrentTag
    BY <1>1 DEF LockstepInv, Lockstep, OneInFlight, RequestMatches
  <1>4. Tail(inbox) = <<>> /\ stream = <<>>
    BY <1>2, <1>3
  <1> DEFINE m == [type |-> t, tag |-> req.tag, n |-> n, data |-> u]
  <1>5. inbox' = <<>> /\ stream' = <<m>>
    BY <1>4 DEF Transmit
  <1>6. Len(inbox') + Len(stream') <= 1 /\ Head(stream') = m
    BY <1>5
  <1>7. m.type \in {AnswerOf(step), "RError"} /\ m.tag = CurrentTag
    BY <1>3
  <1> HIDE DEF m
  <1> QED
    BY <1>1, <1>3, <1>5, <1>6, <1>7
    DEF Lockstep, OneInFlight, RequestMatches, ReplyMatches, CurrentTag

\* Every step keeps the lockstep.
LEMMA NextKeepsLockstep == LockstepInv /\ [Next]_vars => LockstepInv'
  <1> SUFFICES ASSUME LockstepInv, [Next]_vars PROVE LockstepInv'
    OBVIOUS
  <1>types. TypeOK'
    BY NextKeepsTypes DEF LockstepInv
  <1> USE <1>types
  <1>1. CASE ConnectToServer
    <2>1. /\ awaiting' = FALSE \/ UNCHANGED awaiting
          /\ UNCHANGED <<inbox, stream, cut, shortRecv>>
      BY <1>1 DEF ConnectToServer, Throw, Die
    <2>2. ~shortRecv => ~awaiting /\ inbox = <<>> /\ stream = <<>> /\ ~cut
      BY <1>1 DEF ConnectToServer, LockstepInv, Lockstep, OneInFlight, RpcSteps, CallSteps
    <2> QED
      BY <2>1, <2>2 DEF LockstepInv, Lockstep, OneInFlight, RequestMatches, ReplyMatches
  <1>2. CASE SendTVersion
    BY <1>2, SendInLockstep DEF SendTVersion, RpcSteps, CallSteps, RequestOf
  <1>3. CASE RecvRVersion
    BY <1>3, RecvInLockstep DEF RecvRVersion, RecvFrame, Proceed, Fail, Throw, Die
  <1>4. CASE SendTAuth
    BY <1>4, SendInLockstep DEF SendTAuth, RpcSteps, CallSteps, RequestOf
  <1>5. CASE RecvRAuth
    BY <1>5, RecvInLockstep DEF RecvRAuth, RecvFrame, Proceed, Fail, Throw, Die
  <1>6. CASE SendTAttach
    BY <1>6, SendInLockstep DEF SendTAttach, RpcSteps, CallSteps, RequestOf
  <1>7. CASE RecvRAttach
    BY <1>7, RecvInLockstep DEF RecvRAttach, RecvFrame, Proceed, Fail, Throw, Die
  <1>8. CASE \E c \in Calls, n \in 0 .. MaxNames, off \in 0 .. MaxSize, len \in 1 .. MaxWant :
                 Invoke(c, n, off, len)
    <2>1. UNCHANGED <<awaiting, inbox, stream, cut, shortRecv>>
      BY <1>8 DEF Invoke, netVars, historyVars
    <2>2. ~shortRecv => ~awaiting /\ inbox = <<>> /\ stream = <<>> /\ ~cut
      BY <1>8 DEF Invoke, LockstepInv, Lockstep, OneInFlight, RpcSteps, CallSteps
    <2> QED
      BY <2>1, <2>2 DEF LockstepInv, Lockstep, OneInFlight, RequestMatches, ReplyMatches
  <1>9. CASE SendTWalk
    BY <1>9, SendInLockstep DEF SendTWalk, RpcSteps, CallSteps, RequestOf
  <1>10. CASE RecvRWalk
    BY <1>10, RecvInLockstep DEF RecvRWalk, RecvFrame, Proceed, Fail, Throw, Die
  <1>11. CASE SendTOpen
    BY <1>11, SendInLockstep DEF SendTOpen, SendOnFid, RpcSteps, CallSteps, RequestOf
  <1>12. CASE RecvROpen
    BY <1>12, RecvInLockstep DEF RecvROpen, RecvFrame, Proceed, Fail, Throw, Die
  <1>13. CASE SendTStat
    BY <1>13, SendInLockstep DEF SendTStat, SendOnFid, RpcSteps, CallSteps, RequestOf
  <1>14. CASE RecvRStat
    BY <1>14, RecvInLockstep DEF RecvRStat, RecvFrame, Proceed, Fail, Throw, Die
  <1>15. CASE SendTRead
    BY <1>15, SendInLockstep DEF SendTRead, SendOnFid, RpcSteps, CallSteps, RequestOf
  <1>16. CASE RecvRRead
    BY <1>16, RecvInLockstep DEF RecvRRead, RecvFrame, Proceed, Fail, Throw, Die, ReadRStats
  <1>17. CASE SendTClunk
    BY <1>17, SendInLockstep DEF SendTClunk, SendOnFid, RpcSteps, CallSteps, RequestOf
  <1>18. CASE RecvRClunk
    BY <1>18, RecvInLockstep DEF RecvRClunk, RecvFrame, Proceed, Fail, Throw, Die, Return
  <1>19. CASE Unmount
    <2>1. UNCHANGED <<awaiting, inbox, stream, cut, shortRecv>>
      BY <1>19 DEF Unmount, netVars, historyVars
    <2>2. ~shortRecv => ~awaiting /\ inbox = <<>> /\ stream = <<>> /\ ~cut
      BY <1>19 DEF Unmount, LockstepInv, Lockstep, OneInFlight, RpcSteps, CallSteps
    <2> QED
      BY <2>1, <2>2 DEF LockstepInv, Lockstep, OneInFlight, RequestMatches, ReplyMatches
  <1>20. CASE AnswerVersion
    BY <1>20, ReplyInLockstep DEF AnswerVersion, Handles, RequestOf, AnswerOf, RpcSteps, CallSteps
  <1>21. CASE AnswerAuth
    BY <1>21, ReplyInLockstep DEF AnswerAuth, Reply, Handles, RequestOf, AnswerOf, RpcSteps, CallSteps
  <1>22. CASE AnswerAttach
    BY <1>22, ReplyInLockstep DEF AnswerAttach, Reply, Handles, RequestOf, AnswerOf, RpcSteps, CallSteps
  <1>23. CASE AnswerWalk
    BY <1>23, ReplyInLockstep DEF AnswerWalk, Reply, Handles, RequestOf, AnswerOf, RpcSteps, CallSteps
  <1>24. CASE AnswerPartialWalk
    BY <1>24, ReplyInLockstep DEF AnswerPartialWalk, Reply, Handles, RequestOf, AnswerOf, RpcSteps, CallSteps
  <1>25. CASE AnswerOpen
    BY <1>25, ReplyInLockstep DEF AnswerOpen, Reply, Handles, RequestOf, AnswerOf, RpcSteps, CallSteps
  <1>26. CASE AnswerStat
    BY <1>26, ReplyInLockstep DEF AnswerStat, Reply, Handles, RequestOf, AnswerOf, RpcSteps, CallSteps
  <1>27. CASE AnswerRead
    BY <1>27, ReplyInLockstep DEF AnswerRead, Reply, Handles, RequestOf, AnswerOf, RpcSteps, CallSteps
  <1>28. CASE AnswerClunk
    BY <1>28, ReplyInLockstep DEF AnswerClunk, Reply, Handles, RequestOf, AnswerOf, RpcSteps, CallSteps
  <1>29. CASE AnswerError
    BY <1>29, ReplyInLockstep DEF AnswerError, Reply, Handles, RequestOf, AnswerOf, RpcSteps, CallSteps
  <1>30. CASE Disconnect
    <2>1. /\ inbox' = <<>>
          /\ UNCHANGED <<step, awaiting, tagIssuer, shortRecv>>
          /\ connected /\ ~connected'
      BY <1>30 DEF Disconnect, Lose, clientVars, sessionVars, historyVars
    <2>2. inbox \in Seq(Requests) /\ stream \in Seq(Replies) /\ cut \in BOOLEAN
      BY DEF LockstepInv, TypeOK, NetTypeOK
    <2>3. PICK k \in 0 .. Len(stream) :
            stream' = SubSeq(stream, 1, k) /\ cut' = (cut /\ k > 0)
      BY <1>30 DEF Disconnect, Lose
    <2>4. Len(stream') = k /\ (k > 0 => Head(stream') = Head(stream))
      BY <2>2, <2>3
    <2>5. /\ Len(inbox') + Len(stream') <= Len(inbox) + Len(stream)
          /\ stream' # <<>> => stream # <<>> /\ Head(stream') = Head(stream)
          /\ ~cut => ~cut'
      BY <2>1, <2>2, <2>3, <2>4
    <2> QED
      BY <2>1, <2>5
      DEF LockstepInv, Lockstep, OneInFlight, RequestMatches, ReplyMatches, CurrentTag
  <1>31. CASE Finished \/ UNCHANGED vars
    BY <1>31
    DEF Finished, vars, clientVars, sessionVars, netVars, historyVars, LockstepInv,
        Lockstep, OneInFlight, RequestMatches, ReplyMatches, CurrentTag, req
  <1> QED
    BY <1>1, <1>2, <1>3, <1>4, <1>5, <1>6, <1>7, <1>8, <1>9, <1>10, <1>11,
       <1>12, <1>13, <1>14, <1>15, <1>16, <1>17, <1>18, <1>19, <1>20, <1>21,
       <1>22, <1>23, <1>24, <1>25, <1>26, <1>27, <1>28, <1>29, <1>30, <1>31
    DEF Next, ClientStep, ServerStep

\* As long as no recv returns part of a frame, the client always reads the
\* answer to the request it has just sent (readParseIncomingMessage and its
\* callers), though it compares no tag.
THEOREM LockstepAlways == Spec => []Lockstep
  <1>1. Init => LockstepInv
    <2>1. Init => Lockstep
      BY DEF Init, Lockstep, OneInFlight, RequestMatches, ReplyMatches
    <2> QED BY <2>1, InitTypeOK DEF LockstepInv, Init
  <1>2. LockstepInv /\ [Next]_vars => LockstepInv'
    BY NextKeepsLockstep
  <1>3. LockstepInv => Lockstep
    BY DEF LockstepInv
  <1> QED BY <1>1, <1>2, <1>3, PTL DEF Spec
-----------------------------------------------------------------------------
(* Fids *)

\* The message asks the server to create fid f.
Creates(m, f) ==
    \/ m.type = "TAttach" /\ m.fid = f
    \/ m.type = "TWalk" /\ m.newfid = f

\* The client is about to issue a fid, or has still to come to it.
BeforeIssue ==
    \/ step \in {"connect", "version", "auth"}
    \/ step \in {"attach", "walk"} /\ ~awaiting

\* At most one fid is issued for the mount and one for each operation; until
\* the issuer wraps no fid at the server, nor one on its way there, is above
\* the last one issued, and those on their way are new and all different.
FidInv ==
    /\ TypeOK
    /\ fidIssuer <= calls + 1
    /\ BeforeIssue => fidIssuer <= calls
    /\ NoWrap =>
         /\ \A f \in Fids : Bound(f) => f <= fidIssuer
         /\ \A f \in Fids : \A i \in DOMAIN inbox :
              Creates(inbox[i], f) =>
                /\ f <= fidIssuer
                /\ ~Bound(f)
                /\ \A j \in DOMAIN inbox : Creates(inbox[j], f) => i = j

\* Sending a message that creates no fid, or the one just issued.
LEMMA SendKeepsFids ==
  ASSUME FidInv, TypeOK', ~awaiting, NEW m \in Requests, NEW o, Send(m, o), SendFrame,
         \/ fidIssuer' = fidIssuer /\ \A f \in Fids : ~Creates(m, f)
         \/ /\ step \in {"attach", "walk"}
            /\ fidIssuer' = Issue(fidIssuer, FidMod)
            /\ \A f \in Fids : Creates(m, f) => f = fidIssuer'
  PROVE  FidInv'
  <1>types. /\ fidIssuer \in Nat /\ fidIssuer < FidMod /\ calls \in Nat
            /\ inbox \in Seq(Requests) /\ FidMod \in Nat /\ FidMod > 2
    BY WidthAssumption, TagAssumption, BoundAssumption
    DEF FidInv, TypeOK, SessionTypeOK, HistoryTypeOK, NetTypeOK, Fids
  <1>same. UNCHANGED <<calls, serverFids>>
    BY DEF SendFrame
  <1>1. /\ fidIssuer' <= calls + 1
        /\ NoWrap => \/ fidIssuer' = fidIssuer /\ \A f \in Fids : ~Creates(m, f)
                     \/ /\ fidIssuer' = fidIssuer + 1
                        /\ \A f \in Fids : Creates(m, f) => f = fidIssuer'
    <2>1. CASE fidIssuer' = fidIssuer /\ \A f \in Fids : ~Creates(m, f)
      BY <2>1 DEF FidInv
    <2>2. CASE /\ step \in {"attach", "walk"} /\ fidIssuer' = Issue(fidIssuer, FidMod)
               /\ \A f \in Fids : Creates(m, f) => f = fidIssuer'
      <3>1. fidIssuer <= calls
        BY <2>2 DEF FidInv, BeforeIssue
      <3>2. fidIssuer' = IF fidIssuer + 1 = FidMod THEN 0 ELSE fidIssuer + 1
        BY <1>types, <2>2 DEF Issue
      <3> QED BY <1>types, <2>2, <3>1, <3>2 DEF NoWrap
    <2> QED BY <2>1, <2>2
  <1>2. BeforeIssue' => fidIssuer' <= calls'
    <2>1. CASE Throw(o)
      BY <2>1 DEF BeforeIssue, Throw, Die
    <2>2. CASE awaiting' = TRUE /\ UNCHANGED step
      BY <1>same, <2>2 DEF BeforeIssue, FidInv
    <2> QED BY <2>1, <2>2 DEF Send
  <1>3. ASSUME NoWrap, NEW f \in Fids, Bound(f)
        PROVE  f <= fidIssuer'
    BY <1>types, <1>1, <1>3 DEF FidInv, Fids
  <1>4. ASSUME NoWrap, NEW f \in Fids, NEW i \in DOMAIN inbox', Creates(inbox'[i], f)
        PROVE  /\ f <= fidIssuer' /\ ~Bound(f)
               /\ \A j \in DOMAIN inbox' : Creates(inbox'[j], f) => i = j
    <2>1. CASE inbox' = inbox
      BY <1>types, <1>1, <1>4, <2>1 DEF FidInv, Fids
    <2>2. CASE inbox' = Append(inbox, m)
      <3>1. /\ DOMAIN inbox' = 1 .. Len(inbox) + 1
            /\ \A k \in 1 .. Len(inbox) : inbox'[k] = inbox[k]
            /\ inbox'[Len(inbox) + 1] = m
            /\ DOMAIN inbox = 1 .. Len(inbox) /\ Len(inbox) \in Nat
        BY <1>types, <2>2
      <3>2. CASE \E k \in DOMAIN inbox : Creates(inbox[k], f)
        <4>1. f <= fidIssuer /\ ~Bound(f)
          BY <1>4, <3>2 DEF FidInv
        <4>2. ~Creates(m, f)
          BY <1>types, <1>1, <1>4, <4>1 DEF Fids
        <4>3. i \in DOMAIN inbox /\ Creates(inbox[i], f)
          BY <1>4, <3>1, <4>2
        <4>4. \A j \in DOMAIN inbox : Creates(inbox[j], f) => i = j
          BY <1>4, <4>3 DEF FidInv
        <4>5. \A j \in DOMAIN inbox' : Creates(inbox'[j], f) => i = j
          BY <3>1, <4>2, <4>4
        <4> QED BY <1>types, <1>1, <1>4, <4>1, <4>5 DEF Fids
      <3>3. CASE ~\E k \in DOMAIN inbox : Creates(inbox[k], f)
        <4>1. i = Len(inbox) + 1 /\ Creates(m, f)
          BY <1>4, <3>1, <3>3
        <4>2. f = fidIssuer' /\ fidIssuer' = fidIssuer + 1
          BY <1>1, <1>4, <4>1
        <4>3. ~Bound(f)
          BY <1>types, <1>4, <4>2 DEF FidInv, Fids
        <4>4. \A j \in DOMAIN inbox' : Creates(inbox'[j], f) => i = j
          BY <3>1, <3>3, <4>1
        <4> QED BY <1>types, <4>2, <4>3, <4>4
      <3> QED BY <3>2, <3>3
    <2> QED BY <2>1, <2>2 DEF Send
  <1>5. (NoWrap' => NoWrap) /\ \A f : Bound(f)' <=> Bound(f)
    BY <1>same DEF NoWrap, Bound
  <1> QED
    BY <1>same, <1>1, <1>2, <1>3, <1>4, <1>5 DEF FidInv

\* A step of the client that sends nothing and does not come to an issue.
LEMMA OtherStepKeepsFids ==
  ASSUME FidInv, TypeOK', UNCHANGED <<fidIssuer, inbox, serverFids, calls>>,
         BeforeIssue' => BeforeIssue
  PROVE  FidInv'
  BY DEF FidInv, NoWrap, Bound

\* An answer of the server creates no other fid than the request asks for.
LEMMA AnswerKeepsFids ==
  ASSUME FidInv, TypeOK', inbox # <<>>, inbox' = Tail(inbox),
         UNCHANGED <<step, awaiting, fidIssuer, calls>>,
         \A f \in Fids : Bound(f)' => Bound(f) \/ Creates(req, f)
  PROVE  FidInv'
  <1>1. /\ inbox \in Seq(Requests) /\ Len(inbox) \in Nat /\ Len(inbox) > 0
        /\ DOMAIN inbox = 1 .. Len(inbox) /\ DOMAIN inbox' = 1 .. Len(inbox) - 1
        /\ \A k \in DOMAIN inbox' : inbox'[k] = inbox[k + 1]
        /\ req = inbox[1]
    BY DEF FidInv, TypeOK, NetTypeOK, req
  <1>2. fidIssuer' <= calls' + 1 /\ (BeforeIssue' => fidIssuer' <= calls')
    BY DEF FidInv, BeforeIssue
  <1>3. ASSUME NoWrap, NEW f \in Fids, Bound(f)'
        PROVE  f <= fidIssuer'
    <2>1. CASE Bound(f)
      BY <1>3, <2>1 DEF FidInv
    <2>2. CASE Creates(inbox[1], f)
      BY <1>1, <1>3, <2>2 DEF FidInv
    <2> QED BY <1>1, <1>3, <2>1, <2>2
  <1>4. ASSUME NoWrap, NEW f \in Fids, NEW i \in DOMAIN inbox', Creates(inbox'[i], f)
        PROVE  /\ f <= fidIssuer' /\ ~Bound(f)'
               /\ \A j \in DOMAIN inbox' : Creates(inbox'[j], f) => i = j
    <2>1. i + 1 \in DOMAIN inbox /\ Creates(inbox[i + 1], f) /\ 1 \in DOMAIN inbox
      BY <1>1, <1>4
    <2>2. /\ f <= fidIssuer /\ ~Bound(f)
          /\ \A j \in DOMAIN inbox : Creates(inbox[j], f) => i + 1 = j
      BY <1>4, <2>1 DEF FidInv
    <2>3. ~Creates(inbox[1], f)
      BY <1>1, <2>1, <2>2
    <2>4. ASSUME NEW j \in DOMAIN inbox', Creates(inbox'[j], f)
          PROVE  i = j
      <3>1. j + 1 \in DOMAIN inbox /\ Creates(inbox[j + 1], f)
        BY <1>1, <2>4
      <3>2. i + 1 = j + 1 /\ i \in Int /\ j \in Int
        BY <1>1, <2>2, <3>1
      <3> QED BY <3>2
    <2> QED BY <1>1, <2>2, <2>3, <2>4
  <1>5. NoWrap' => NoWrap
    BY DEF NoWrap
  <1> QED
    BY <1>2, <1>3, <1>4, <1>5 DEF FidInv

\* Every step keeps the fids apart.
LEMMA NextKeepsFids == FidInv /\ [Next]_vars => FidInv'
  <1> SUFFICES ASSUME FidInv, [Next]_vars PROVE FidInv'
    OBVIOUS
  <1>next. TypeOK'
    BY NextKeepsTypes DEF FidInv
  <1>types. /\ op \in Ops /\ op.fid \in Fids /\ op.names \in Nat
            /\ op.offset \in Nat /\ op.want \in Nat
            /\ root \in Fids \cup {NoRoot} /\ msize \in Nat
            /\ fidIssuer \in Fids /\ tagIssuer \in Tags
            /\ serverFids \in [Fids -> Nodes]
    BY SizeAssumption, ShortRecvsAssumption DEF FidInv, TypeOK, ClientTypeOK, SessionTypeOK, Ops
  <1>issue. Issue(tagIssuer, TagMod) \in Tags /\ Issue(fidIssuer, FidMod) \in Fids
    BY <1>types, IssueType
  <1> USE <1>next
  <1>1. CASE ConnectToServer
    BY <1>1, OtherStepKeepsFids DEF ConnectToServer, Throw, Die, BeforeIssue, sessionVars
  <1>2. CASE SendTVersion
    <2> DEFINE m == [type |-> "TVersion", tag |-> NOTAG, msize |-> msize]
    <2>1. m \in Requests
      BY <1>2, <1>types, WidthAssumption, TagAssumption, SizeAssumption, ShortRecvsAssumption DEF SendTVersion, Requests, TVersion, NOTAG, Tags
    <2>2. \A f \in Fids : ~Creates(m, f)
      BY DEF Creates
    <2> QED
      BY <1>2, <2>1, <2>2, SendKeepsFids DEF SendTVersion
  <1>3. CASE RecvRVersion
    BY <1>3, OtherStepKeepsFids DEF RecvRVersion, RecvFrame, Proceed, Fail, Throw, Die, BeforeIssue
  <1>4. CASE SendTAuth
    <2> DEFINE m == [type |-> "TAuth", tag |-> tagIssuer']
    <2>1. m \in Requests
      BY <1>4, <1>types, <1>issue DEF SendTAuth, Requests, TAuth
    <2>2. \A f \in Fids : ~Creates(m, f)
      BY DEF Creates
    <2> QED
      BY <1>4, <2>1, <2>2, SendKeepsFids DEF SendTAuth
  <1>5. CASE RecvRAuth
    BY <1>5, OtherStepKeepsFids DEF RecvRAuth, RecvFrame, Proceed, Fail, Throw, Die, BeforeIssue
  <1>6. CASE SendTAttach
    <2> DEFINE m == [type |-> "TAttach", tag |-> tagIssuer', fid |-> fidIssuer']
    <2>1. m \in Requests
      BY <1>6, <1>types, <1>issue DEF SendTAttach, Requests, TAttach
    <2>2. \A f \in Fids : Creates(m, f) => f = fidIssuer'
      BY DEF Creates
    <2> QED
      BY <1>6, <2>1, <2>2, SendKeepsFids DEF SendTAttach
  <1>7. CASE RecvRAttach
    BY <1>7, OtherStepKeepsFids DEF RecvRAttach, RecvFrame, Proceed, Fail, Throw, Die, BeforeIssue
  <1>8. CASE \E c \in Calls, n \in 0 .. MaxNames, off \in 0 .. MaxSize, len \in 1 .. MaxWant :
                 Invoke(c, n, off, len)
    <2>1. /\ fidIssuer' = fidIssuer /\ calls' = calls + 1
          /\ UNCHANGED <<inbox, serverFids>>
      BY <1>8 DEF Invoke, sessionVars, netVars
    <2>2. calls \in Nat /\ FidMod \in Nat /\ fidIssuer \in Nat
      BY <1>types, WidthAssumption, TagAssumption, BoundAssumption DEF FidInv, TypeOK, HistoryTypeOK, Fids
    <2>3. NoWrap' => NoWrap
      BY <2>1, <2>2 DEF NoWrap
    <2> QED
      BY <2>1, <2>2, <2>3 DEF FidInv, Bound
  <1>9. CASE SendTWalk
    <2> DEFINE m == [type |-> "TWalk", tag |-> tagIssuer', fid |-> root,
                     newfid |-> fidIssuer', nwname |-> op.names]
    <2>1. m \in Requests
      BY <1>9, <1>types, <1>issue DEF SendTWalk, Requests, TWalk
    <2>2. \A f \in Fids : Creates(m, f) => f = fidIssuer'
      BY DEF Creates
    <2> QED
      BY <1>9, <2>1, <2>2, SendKeepsFids DEF SendTWalk
  <1>10. CASE RecvRWalk
    BY <1>10, OtherStepKeepsFids DEF RecvRWalk, RecvFrame, Proceed, Fail, Throw, Die, BeforeIssue
  <1>11. CASE SendTOpen
    <2> DEFINE m == [type |-> "TOpen", tag |-> tagIssuer', fid |-> op.fid]
    <2>1. m \in Requests
      BY <1>11, <1>types, <1>issue DEF SendTOpen, SendOnFid, Requests, TOpen
    <2>2. \A f \in Fids : ~Creates(m, f)
      BY DEF Creates
    <2> QED
      BY <1>11, <2>1, <2>2, SendKeepsFids DEF SendTOpen, SendOnFid
  <1>12. CASE RecvROpen
    BY <1>12, OtherStepKeepsFids DEF RecvROpen, RecvFrame, Proceed, Fail, Throw, Die, BeforeIssue
  <1>13. CASE SendTStat
    <2> DEFINE m == [type |-> "TStat", tag |-> tagIssuer', fid |-> op.fid]
    <2>1. m \in Requests
      BY <1>13, <1>types, <1>issue DEF SendTStat, SendOnFid, Requests, TStat
    <2>2. \A f \in Fids : ~Creates(m, f)
      BY DEF Creates
    <2> QED
      BY <1>13, <2>1, <2>2, SendKeepsFids DEF SendTStat, SendOnFid
  <1>14. CASE RecvRStat
    BY <1>14, OtherStepKeepsFids DEF RecvRStat, RecvFrame, Proceed, Fail, Throw, Die, BeforeIssue
  <1>15. CASE SendTRead
    <2> DEFINE m == [type |-> "TRead", tag |-> tagIssuer', fid |-> op.fid,
                     offset |-> op.offset, count |-> op.want]
    <2>1. m \in Requests
      BY <1>15, <1>types, <1>issue DEF SendTRead, SendOnFid, Requests, TRead
    <2>2. \A f \in Fids : ~Creates(m, f)
      BY DEF Creates
    <2> QED
      BY <1>15, <2>1, <2>2, SendKeepsFids DEF SendTRead, SendOnFid
  <1>16. CASE RecvRRead
    BY <1>16, OtherStepKeepsFids DEF RecvRRead, RecvFrame, Proceed, Fail, Throw, Die, ReadRStats, BeforeIssue
  <1>17. CASE SendTClunk
    <2> DEFINE m == [type |-> "TClunk", tag |-> tagIssuer', fid |-> op.fid]
    <2>1. m \in Requests
      BY <1>17, <1>types, <1>issue DEF SendTClunk, SendOnFid, Requests, TClunk
    <2>2. \A f \in Fids : ~Creates(m, f)
      BY DEF Creates
    <2> QED
      BY <1>17, <2>1, <2>2, SendKeepsFids DEF SendTClunk, SendOnFid
  <1>18. CASE RecvRClunk
    BY <1>18, OtherStepKeepsFids DEF RecvRClunk, RecvFrame, Proceed, Fail, Throw, Die, Return, BeforeIssue
  <1>19. CASE Unmount
    BY <1>19, OtherStepKeepsFids DEF Unmount, BeforeIssue, sessionVars, historyVars
  <1>20. CASE AnswerVersion
    BY <1>20, AnswerKeepsFids
    DEF AnswerVersion, Handles, Reply, Transmit, Bound, clientVars, sessionVars, historyVars
  <1>21. CASE AnswerAuth
    BY <1>21, AnswerKeepsFids
    DEF AnswerAuth, Handles, Reply, Transmit, Bound, clientVars, sessionVars, historyVars
  <1>22. CASE AnswerAttach
    <2>1. \A f \in Fids : Bound(f)' => Bound(f) \/ Creates(req, f)
      BY <1>22, <1>types DEF AnswerAttach, Handles, Bind, Bound, Creates
    <2> QED
      BY <1>22, <2>1, AnswerKeepsFids
      DEF AnswerAttach, Handles, Reply, Transmit, clientVars, sessionVars, historyVars
  <1>23. CASE AnswerWalk
    <2>1. \A f \in Fids : Bound(f)' => Bound(f) \/ Creates(req, f)
      BY <1>23, <1>types DEF AnswerWalk, Handles, Bind, Bound, Creates
    <2> QED
      BY <1>23, <2>1, AnswerKeepsFids
      DEF AnswerWalk, Handles, Reply, Transmit, clientVars, sessionVars, historyVars
  <1>24. CASE AnswerPartialWalk
    BY <1>24, AnswerKeepsFids
    DEF AnswerPartialWalk, Handles, Reply, Transmit, Bound, clientVars, sessionVars, historyVars
  <1>25. CASE AnswerOpen
    <2>1. \A f \in Fids : Bound(f)' => Bound(f) \/ Creates(req, f)
      BY <1>25, <1>types DEF AnswerOpen, Handles, Bind, Bound, Creates
    <2> QED
      BY <1>25, <2>1, AnswerKeepsFids
      DEF AnswerOpen, Handles, Reply, Transmit, clientVars, sessionVars, historyVars
  <1>26. CASE AnswerStat
    BY <1>26, AnswerKeepsFids
    DEF AnswerStat, Handles, Reply, Transmit, Bound, clientVars, sessionVars, historyVars
  <1>27. CASE AnswerRead
    BY <1>27, AnswerKeepsFids
    DEF AnswerRead, Handles, Reply, Transmit, Bound, clientVars, sessionVars, historyVars
  <1>28. CASE AnswerClunk
    <2>1. \A f \in Fids : Bound(f)' => Bound(f) \/ Creates(req, f)
      BY <1>28, <1>types DEF AnswerClunk, Handles, Bind, Bound, Creates
    <2> QED
      BY <1>28, <2>1, AnswerKeepsFids
      DEF AnswerClunk, Handles, Reply, Transmit, clientVars, sessionVars, historyVars
  <1>29. CASE AnswerError
    BY <1>29, AnswerKeepsFids
    DEF AnswerError, Reply, Transmit, Bound, clientVars, sessionVars, historyVars
  <1>30. CASE Disconnect
    <2>1. /\ inbox' = <<>> /\ \A f \in Fids : ~Bound(f)'
          /\ UNCHANGED <<step, awaiting, fidIssuer, calls>>
      BY <1>30 DEF Disconnect, Lose, Bound, clientVars, sessionVars, historyVars
    <2>2. DOMAIN inbox' = {}
      BY <2>1
    <2> QED
      BY <2>1, <2>2 DEF FidInv, BeforeIssue
  <1>31. CASE Finished \/ UNCHANGED vars
    BY <1>31, OtherStepKeepsFids
    DEF Finished, vars, clientVars, sessionVars, netVars, historyVars, BeforeIssue
  <1> QED
    BY <1>1, <1>2, <1>3, <1>4, <1>5, <1>6, <1>7, <1>8, <1>9, <1>10, <1>11,
       <1>12, <1>13, <1>14, <1>15, <1>16, <1>17, <1>18, <1>19, <1>20, <1>21,
       <1>22, <1>23, <1>24, <1>25, <1>26, <1>27, <1>28, <1>29, <1>30, <1>31
    DEF Next, ClientStep, ServerStep

\* No fid has been issued at the start.
LEMMA InitFids == Init => FidInv
  <1>1. Init => fidIssuer = 0 /\ calls = 0 /\ inbox = <<>> /\ \A f \in Fids : ~Bound(f)
    BY DEF Init, Bound
  <1> QED BY <1>1, InitTypeOK DEF FidInv

\* Until the fid issuer has wrapped around, a TWalk never names a fid the
\* server already holds (sendWalkMessage), however the operations before it
\* ended and whatever the client has read of the stream.
THEOREM FreshFidAlways == Spec => []FreshFid
  <1>1. Init => FidInv
    BY InitFids
  <1>2. FidInv /\ [Next]_vars => FidInv'
    BY NextKeepsFids
  <1>3. FidInv => FreshFid
    <2> SUFFICES ASSUME FidInv, NoWrap, NEW i \in DOMAIN inbox, inbox[i].type = "TWalk"
                 PROVE  ~Bound(inbox[i].newfid)
      BY DEF FreshFid
    <2>1. inbox[i] \in Requests
      BY DEF FidInv, TypeOK, NetTypeOK
    <2>2. inbox[i].newfid \in Fids
      BY <2>1, RequestFields DEF TWalk
    <2> QED BY <2>2 DEF FidInv, Creates
  <1> QED BY <1>1, <1>2, <1>3, PTL DEF Spec

-----------------------------------------------------------------------------
(* The client implements the mounted volume, when recv returns whole       *)
(* frames.                                                                 *)

\* An operation is in progress exactly in the steps of one, and what arrives
\* is what the server sent.
VolumeInv ==
    /\ TypeOK
    /\ ~cut
    /\ \A i \in DOMAIN stream : stream[i].type # "overrun"
    /\ step \in CallSteps => op.call \in Calls
    /\ step \notin CallSteps => op.call = "none"

\* What a step of the client must show: a step of the volume or none, and the
\* relation of the step to the operation kept.
Follows ==
    /\ [Volume!Next]_(Volume!vars)
    /\ step' \in CallSteps => op'.call \in Calls
    /\ step' \notin CallSteps => op'.call = "none"

\* No reply that can be read is an overrun, and reading keeps it so.
LEMMA WholeFrames ==
  ASSUME ~ShortRecvs, VolumeInv, NEW r \in Readable, Consume(r)
  PROVE  /\ r.type # "overrun"
         /\ ~cut'
         /\ \A i \in DOMAIN stream' : stream'[i].type # "overrun"
  <1>1. Misread = {} /\ stream \in Seq(Replies)
    BY DEF VolumeInv, Misread, TypeOK, NetTypeOK
  <1>2. r.type # "overrun"
    <2>1. CASE stream # <<>> /\ r = Head(stream)
      <3>1. 1 \in DOMAIN stream /\ r = stream[1]
        BY <1>1, <2>1
      <3> QED
        BY <3>1 DEF VolumeInv
    <2>2. CASE r = Broken
      BY <2>2 DEF Broken
    <2> QED
      BY <1>1, <2>1, <2>2 DEF Readable
  <1>3. CASE stream' = stream /\ cut' = cut
    BY <1>2, <1>3 DEF VolumeInv
  <1>4. CASE stream # <<>> /\ stream' = Tail(stream) /\ cut' = cut
    <2>1. \A i \in DOMAIN Tail(stream) :
            i + 1 \in DOMAIN stream /\ Tail(stream)[i] = stream[i + 1]
      BY <1>1, <1>4
    <2> QED
      BY <1>2, <1>4, <2>1 DEF VolumeInv
  <1> QED
    BY <1>1, <1>3, <1>4 DEF Consume

\* Going on to the next step of an operation, or of the handshake.
LEMMA ProceedFollows ==
  ASSUME VolumeInv, NEW s, NEW o, Proceed(s, o), o.call = op.call,
         \/ step \in CallSteps /\ s \in CallSteps
         \/ step \in HandshakeSteps /\ s \in HandshakeSteps
  PROVE  Follows
  BY DEF VolumeInv, Follows, Proceed, Phase, HandshakeSteps, CallSteps, Volume!vars

\* The end of the process: in the handshake the mount fails, in an operation
\* that is not a read the volume is taken away.
LEMMA DieFollows ==
  ASSUME VolumeInv, Die, step \in HandshakeSteps \cup CallSteps, op.call # "read"
  PROVE  Follows
  <1>1. CASE step \in HandshakeSteps
    BY <1>1 DEF VolumeInv, Follows, Die, NoOp, Phase, HandshakeSteps, CallSteps,
                Volume!Next, Volume!MountFails
  <1>2. CASE step \in CallSteps
    BY <1>2 DEF VolumeInv, Follows, Die, NoOp, Phase, HandshakeSteps, CallSteps,
                Volume!Next, Volume!Abort
  <1> QED
    BY <1>1, <1>2

\* An exception: a read fails and the volume stays, anything else is as above.
LEMMA ThrowFollows ==
  ASSUME VolumeInv, NEW o, Throw(o), o.call = op.call,
         step \in HandshakeSteps \cup CallSteps
  PROVE  Follows
  <1>1. CASE o.call # "read" /\ Die
    BY <1>1, DieFollows
  <1>2. CASE /\ o.call = "read" /\ step' = "idle" /\ op' = NoOp
             /\ result' = [call |-> "read", ret |-> -1, want |-> o.want]
    <2>1. step \in CallSteps
      BY <1>2 DEF VolumeInv
    <2> QED
      BY <1>2, <2>1 DEF Follows, NoOp, Phase, HandshakeSteps, CallSteps,
                        Volume!Next, Volume!FailRead
  <1> QED
    BY <1>1, <1>2 DEF Throw

\* Sending shows nothing to the users of the volume, unless it throws.
LEMMA SendFollows ==
  ASSUME VolumeInv, NEW m, NEW o, Send(m, o), SendFrame, o.call = op.call,
         step \in HandshakeSteps \cup CallSteps, TypeOK'
  PROVE  VolumeInv' /\ Follows
  <1>1. Follows
    <2>1. CASE Throw(o)
      BY <2>1, ThrowFollows
    <2>2. CASE op' = o /\ UNCHANGED <<step, result>>
      BY <2>2 DEF VolumeInv, Follows, Phase, Volume!vars
    <2> QED
      BY <2>1, <2>2 DEF Send
  <1> QED
    BY <1>1 DEF VolumeInv, Follows, SendFrame

\* Reading a reply: whatever is done with it, given that this follows, the
\* invariant is kept.
LEMMA RecvFollows ==
  ASSUME ~ShortRecvs, VolumeInv, TypeOK', NEW r \in Readable, Consume(r), Follows
  PROVE  VolumeInv'
  BY WholeFrames DEF VolumeInv, Follows

\* A reply the operation cannot go on with.
LEMMA FailFollows ==
  ASSUME ~ShortRecvs, VolumeInv, NEW r \in Readable, Consume(r), Fail(r, op),
         step \in HandshakeSteps \cup CallSteps
  PROVE  Follows
  BY WholeFrames, ThrowFollows DEF Fail

\* The operation returns what it has collected.
LEMMA ReturnFollows ==
  ASSUME VolumeInv, Return, step \in CallSteps
  PROVE  Follows
  <1>1. Len(op.data) \in Nat
    BY DEF VolumeInv, TypeOK, ClientTypeOK, Ops
  <1> QED
    BY <1>1 DEF VolumeInv, Follows, Return, NoOp, Phase, HandshakeSteps, CallSteps,
                Volume!Next, Volume!Succeed

\* A list of entries read from a reply, or the exception of a garbled one.
LEMMA ReadRStatsFollows ==
  ASSUME VolumeInv, NEW units, ReadRStats(units), step \in CallSteps, op.call = "dir"
  PROVE  Follows
  <1>1. CASE \E o : Proceed("read", o) /\ o.call = op.call
    BY <1>1, ProceedFollows DEF CallSteps
  <1>2. CASE Throw(op)
    BY <1>2, ThrowFollows
  <1>3. CASE Die
    BY <1>3, DieFollows
  <1>4. op \in Ops
    BY DEF VolumeInv, TypeOK, ClientTypeOK
  <1>5. \A d, n : [op EXCEPT !.data = d, !.offset = n].call = op.call
    BY <1>4 DEF Ops
  <1> QED
    BY <1>1, <1>2, <1>3, <1>5 DEF ReadRStats

\* The sends of the client follow the volume.
LEMMA SendsFollow ==
  ASSUME VolumeInv, TypeOK',
         \/ SendTVersion \/ SendTAuth \/ SendTAttach \/ SendTWalk
         \/ SendTOpen \/ SendTStat \/ SendTRead \/ SendTClunk
  PROVE  VolumeInv' /\ Follows
  <1> USE DEF HandshakeSteps, CallSteps
  <1>1. op \in Ops
    BY DEF VolumeInv, TypeOK, ClientTypeOK
  <1>2. \A f : [op EXCEPT !.fid = f].call = op.call
    BY <1>1 DEF Ops
  <1>3. ASSUME NEW s \in CallSteps, NEW m, SendOnFid(s, m)  PROVE VolumeInv' /\ Follows
    BY <1>3, SendFollows DEF SendOnFid
  <1>4. CASE SendTVersion
    BY <1>4, SendFollows DEF SendTVersion
  <1>5. CASE SendTAuth
    BY <1>5, SendFollows DEF SendTAuth
  <1>6. CASE SendTAttach
    BY <1>2, <1>6, SendFollows DEF SendTAttach
  <1>7. CASE SendTWalk
    BY <1>2, <1>7, SendFollows DEF SendTWalk
  <1>8. CASE SendTOpen \/ SendTStat \/ SendTRead \/ SendTClunk
    BY <1>3, <1>8 DEF SendTOpen, SendTStat, SendTRead, SendTClunk
  <1> QED
    BY <1>4, <1>5, <1>6, <1>7, <1>8

\* The receives of the handshake follow the volume: the last one mounts it.
LEMMA HandshakeRecvsFollow ==
  ASSUME ~ShortRecvs, VolumeInv, TypeOK', RecvRVersion \/ RecvRAuth \/ RecvRAttach
  PROVE  VolumeInv' /\ Follows
  <1>1. CASE RecvRVersion
    <2>1. PICK r \in Readable :
            Consume(r) /\ (Proceed("auth", op) \/ Fail(r, op))
      BY <1>1 DEF RecvRVersion
    <2>2. step \in HandshakeSteps /\ "auth" \in HandshakeSteps
      BY <1>1 DEF RecvRVersion, HandshakeSteps
    <2> QED
      BY <2>1, <2>2, ProceedFollows, FailFollows, RecvFollows
  <1>2. CASE RecvRAuth
    <2>1. PICK r \in Readable :
            Consume(r) /\ (Proceed("attach", op) \/ Fail(r, op))
      BY <1>2 DEF RecvRAuth
    <2>2. step \in HandshakeSteps /\ "attach" \in HandshakeSteps
      BY <1>2 DEF RecvRAuth, HandshakeSteps
    <2> QED
      BY <2>1, <2>2, ProceedFollows, FailFollows, RecvFollows
  <1>3. CASE RecvRAttach
    <2>1. PICK r \in Readable :
            Consume(r) /\ (Proceed("idle", NoOp) \/ Fail(r, op))
      BY <1>3 DEF RecvRAttach
    <2>2. step = "attach"
      BY <1>3 DEF RecvRAttach
    <2>3. CASE Proceed("idle", NoOp)
      <3>1. Follows
        BY <2>2, <2>3 DEF VolumeInv, Follows, Proceed, NoOp, Phase, HandshakeSteps,
                          CallSteps, Volume!Next, Volume!Mount
      <3> QED
        BY <2>1, <3>1, RecvFollows
    <2>4. CASE Fail(r, op)
      BY <2>1, <2>2, <2>4, FailFollows, RecvFollows DEF HandshakeSteps
    <2> QED
      BY <2>1, <2>3, <2>4
  <1> QED
    BY <1>1, <1>2, <1>3

\* The receives of an operation follow the volume: one operation goes on,
\* returns or fails.
LEMMA CallRecvsFollow ==
  ASSUME ~ShortRecvs, VolumeInv, TypeOK',
         RecvRWalk \/ RecvROpen \/ RecvRStat \/ RecvRRead \/ RecvRClunk
  PROVE  VolumeInv' /\ Follows
  <1>1. op \in Ops
    BY DEF VolumeInv, TypeOK, ClientTypeOK
  <1>2. \A d : [op EXCEPT !.data = d].call = op.call
    BY <1>1 DEF Ops
  <1>3. step \in CallSteps
    BY DEF RecvRWalk, RecvROpen, RecvRStat, RecvRRead, RecvRClunk, CallSteps
  <1>4. PICK r \in Readable :
          /\ Consume(r)
          /\ \/ \E s \in CallSteps : \E o : o.call = op.call /\ Proceed(s, o)
             \/ op.call = "dir" /\ ReadRStats(r.data)
             \/ Fail(r, op)
             \/ Return
    <2>1. CASE RecvRWalk
      BY <2>1 DEF RecvRWalk, CallSteps
    <2>2. CASE RecvROpen
      BY <2>2 DEF RecvROpen, CallSteps
    <2>3. CASE RecvRStat
      BY <1>2, <2>3 DEF RecvRStat, CallSteps
    <2>4. CASE RecvRRead
      BY <1>2, <2>4 DEF RecvRRead, CallSteps
    <2>5. CASE RecvRClunk
      BY <2>5 DEF RecvRClunk
    <2> QED
      BY <2>1, <2>2, <2>3, <2>4, <2>5
  <1>5. Follows
    BY <1>3, <1>4, ProceedFollows, ReadRStatsFollows, FailFollows, ReturnFollows
  <1> QED
    BY <1>4, <1>5, RecvFollows

\* What the server answers and the loss of the connection are nothing to the
\* users of the volume; the server sends no overruns.
LEMMA ServerFollows ==
  ASSUME VolumeInv, TypeOK', ServerStep \/ Disconnect
  PROVE  VolumeInv' /\ Follows
  <1>1. UNCHANGED clientVars
    BY DEF ServerStep, AnswerVersion, AnswerAuth, AnswerAttach, AnswerWalk,
           AnswerPartialWalk, AnswerOpen, AnswerStat, AnswerRead, AnswerClunk,
           AnswerError, Reply, Transmit, Disconnect
  <1>2. Follows
    BY <1>1 DEF VolumeInv, Follows, clientVars, Phase, Volume!vars
  <1>3. ASSUME NEW type, NEW n, NEW units, type # "overrun", Transmit(type, n, units)
        PROVE  ~cut' /\ \A i \in DOMAIN stream' : stream'[i].type # "overrun"
    <2>1. PICK reply : reply.type # "overrun" /\ stream' = Append(stream, reply)
      BY <1>3 DEF Transmit
    <2>2. stream \in Seq(Replies)
      BY DEF VolumeInv, TypeOK, NetTypeOK
    <2>3. \A i \in DOMAIN stream' : IF i \in DOMAIN stream THEN stream'[i] = stream[i]
                                    ELSE stream'[i] = reply
      BY <2>1, <2>2
    <2> QED
      BY <1>3, <2>1, <2>3 DEF VolumeInv, Transmit
  <1>4. CASE Disconnect
    <2>1. PICK k \in 0 .. Len(stream) :
            stream' = SubSeq(stream, 1, k) /\ cut' = (cut /\ k > 0)
      BY <1>4 DEF Disconnect, Lose
    <2>2. stream \in Seq(Replies)
      BY DEF VolumeInv, TypeOK, NetTypeOK
    <2>3. \A i \in DOMAIN stream' : i \in DOMAIN stream /\ stream'[i] = stream[i]
      BY <2>1, <2>2
    <2> QED
      BY <1>2, <1>4, <2>1, <2>3 DEF VolumeInv, Follows, Disconnect
  <1>5. CASE \E type, n, units : type # "overrun" /\ Transmit(type, n, units)
    BY <1>2, <1>3, <1>5 DEF VolumeInv, Follows
  <1>6. ServerStep => \E type, n, units : type # "overrun" /\ Transmit(type, n, units)
    <2> SUFFICES ASSUME ServerStep
                 PROVE  \E type, n, units : type # "overrun" /\ Transmit(type, n, units)
      OBVIOUS
    <2>1. CASE AnswerVersion \/ AnswerAuth \/ AnswerAttach
      BY <2>1 DEF AnswerVersion, AnswerAuth, AnswerAttach, Reply
    <2>2. CASE AnswerWalk \/ AnswerPartialWalk
      BY <2>2 DEF AnswerWalk, AnswerPartialWalk, Reply
    <2>3. CASE AnswerOpen \/ AnswerStat \/ AnswerRead
      BY <2>3 DEF AnswerOpen, AnswerStat, AnswerRead, Reply
    <2>4. CASE AnswerClunk \/ AnswerError
      BY <2>4 DEF AnswerClunk, AnswerError, Reply
    <2> QED
      BY <2>1, <2>2, <2>3, <2>4 DEF ServerStep
  <1> QED
    BY <1>4, <1>5, <1>6

\* Every step of the client and its server is a step of the volume, or none.
LEMMA NextFollows ==
  ASSUME ~ShortRecvs, VolumeInv, [Next]_vars
  PROVE  VolumeInv' /\ [Volume!Next]_(Volume!vars)
  <1>1. TypeOK'
    BY NextKeepsTypes DEF VolumeInv
  <1> SUFFICES VolumeInv' /\ Follows
    BY DEF Follows
  <1>2. ASSUME NEW c \in Calls, NEW n \in 0 .. MaxNames, NEW off \in 0 .. MaxSize,
               NEW len \in 1 .. MaxWant, Invoke(c, n, off, len)
        PROVE  VolumeInv' /\ Follows
    <2>1. Follows
      BY <1>2 DEF VolumeInv, Follows, Invoke, NoResult, Phase, HandshakeSteps, CallSteps,
                  Volume!Next, Volume!Begin
    <2> QED
      BY <1>1, <1>2, <2>1 DEF VolumeInv, Follows, Invoke, netVars
  <1>3. CASE ConnectToServer
    <2>1. Follows
      <3>1. step \in HandshakeSteps
        BY <1>3 DEF ConnectToServer, HandshakeSteps
      <3>2. CASE Throw(op)
        BY <3>1, <3>2, ThrowFollows
      <3>3. CASE step = "connect" /\ step' = "version" /\ UNCHANGED <<op, result>>
        BY <3>3 DEF VolumeInv, Follows, Phase, HandshakeSteps, CallSteps, Volume!vars
      <3> QED
        BY <1>3, <3>2, <3>3 DEF ConnectToServer
    <2> QED
      BY <1>1, <1>3, <2>1 DEF VolumeInv, Follows, ConnectToServer
  <1>4. CASE ClientStep /\ ~ConnectToServer
    BY <1>1, <1>4, SendsFollow, HandshakeRecvsFollow, CallRecvsFollow DEF ClientStep
  <1>5. CASE Unmount
    <2>1. Follows
      BY <1>5 DEF VolumeInv, Follows, Unmount, Phase, HandshakeSteps, CallSteps,
                  Volume!Next, Volume!Unmount
    <2> QED
      BY <1>1, <1>5, <2>1 DEF VolumeInv, Follows, Unmount
  <1>6. CASE ServerStep \/ Disconnect
    BY <1>1, <1>6, ServerFollows
  <1>7. CASE UNCHANGED vars
    BY <1>1, <1>7 DEF VolumeInv, Follows, vars, clientVars, netVars, Phase, Volume!vars
  <1> QED
    BY <1>2, <1>3, <1>4, <1>5, <1>6, <1>7 DEF Next, Finished

\* When every recv returns a whole frame, the client behaves as the mounted
\* volume should: an exception in a read is an answer and leaves the volume,
\* any other takes it away, and no operation is answered twice.
THEOREM VolumeImplemented ==
  ASSUME ~ShortRecvs
  PROVE  Spec => ImplementsVolume
<1>1. Init => VolumeInv /\ Volume!Init
  BY InitTypeOK DEF Init, VolumeInv, NoOp, NoResult, Phase, HandshakeSteps, CallSteps,
                    Volume!Init
<1>2. VolumeInv /\ [Next]_vars => VolumeInv' /\ [Volume!Next]_(Volume!vars)
  BY NextFollows
<1> QED
  BY <1>1, <1>2, PTL DEF Spec, ImplementsVolume, Volume!Spec


-----------------------------------------------------------------------------
(* Lemmas: rows of units *)

\* A row of n units is a sequence of length n.
LEMMA UnitsLength ==
  ASSUME NEW first \in Int, NEW n \in Nat
  PROVE  /\ Units(first, n) \in Seq(Int)
         /\ Len(Units(first, n)) = n
         /\ Units(first, n) = <<>> <=> n = 0
  BY DEF Units

\* Two rows, the second of which begins where the first ends, are one.
LEMMA UnitsConcat ==
  ASSUME NEW first \in Int, NEW a \in Nat, NEW b \in Nat
  PROVE  Units(first, a) \o Units(first + a, b) = Units(first, a + b)
  <1> DEFINE s == Units(first, a)
             t == Units(first + a, b)
             u == Units(first, a + b)
  <1>1. s \in Seq(Int) /\ t \in Seq(Int) /\ u \in Seq(Int)
    BY UnitsLength
  <1>2. Len(s) = a /\ Len(t) = b /\ Len(u) = a + b
    BY UnitsLength
  <1>3. /\ s \o t \in Seq(Int) /\ Len(s \o t) = a + b
        /\ \A i \in 1 .. a + b : (s \o t)[i] = IF i <= a THEN s[i] ELSE t[i - a]
    <2> HIDE DEF s, t, u
    <2> QED BY <1>1, <1>2, ConcatProperties
  <1>4. ASSUME NEW i \in 1 .. a + b
        PROVE  (s \o t)[i] = u[i]
    <2>1. CASE i <= a
      BY <1>3, <2>1 DEF Units
    <2>2. CASE i > a
      <3>1. i - a \in 1 .. b /\ (s \o t)[i] = t[i - a]
        <4> HIDE DEF s, t
        <4> QED BY <1>3, <2>2
      <3>2. t[i - a] = first + a + (i - a)
        BY <3>1 DEF Units
      <3>3. u[i] = first + i
        BY DEF Units
      <3>4. first + a + (i - a) = first + i
        OBVIOUS
      <3> QED BY <3>1, <3>2, <3>3, <3>4, Zenon
    <2>3. i <= a \/ i > a
      OBVIOUS
    <2> QED BY <2>1, <2>2, <2>3, Zenon
  <1>5. s \o t = u
    <2> HIDE DEF s, t, u
    <2> QED BY <1>1, <1>2, <1>3, <1>4, SeqEqual
  <1> QED BY <1>5

\* s and t together are the first n units.
UnitsJoined(s, t, n) == s \o t = Units(0, n)

\* What has been collected from the start, and what follows it.
LEMMA UnitsGrow ==
  ASSUME NEW a \in Nat, NEW b \in Nat, NEW s, NEW t, s = Units(0, a), t = Units(a, b)
  PROVE  UnitsJoined(s, t, a + b)
  <1>1. Units(0, a) \o Units(0 + a, b) = Units(0, a + b)
    <2>1. 0 \in Int
      OBVIOUS
    <2> QED BY <2>1, UnitsConcat, Zenon
  <1>2. Units(0 + a, b) = Units(a, b)
    BY DEF Units
  <1>3. Units(0, a) \o Units(a, b) = Units(0, a + b)
    BY <1>1, <1>2, Zenon
  <1> QED BY <1>3, Zenon DEF UnitsJoined

-----------------------------------------------------------------------------
(* Lemmas: a step on whole frames *)

\* Sending: nothing was under way, and now at most this message is; or the
\* connection is gone and the operation ends.
LEMMA Sent ==
  ASSUME LockstepInv, ~shortRecv', ~awaiting, step \in RpcSteps,
         NEW m, NEW o, Send(m, o), SendFrame
  PROVE  /\ ~shortRecv /\ inbox = <<>> /\ stream = <<>> /\ stream' = <<>>
         /\ UNCHANGED <<root, agreed, serverFids, calls>>
         /\ \/ Throw(o) /\ inbox' = <<>>
            \/ /\ awaiting' = TRUE /\ op' = o
               /\ UNCHANGED <<step, connected, abandoned>>
               /\ inbox' # <<>> => req' = m
  <1>1. /\ ~shortRecv /\ UNCHANGED <<root, agreed, serverFids, calls, stream>>
    BY DEF SendFrame
  <1>2. inbox = <<>> /\ stream = <<>>
    BY <1>1 DEF LockstepInv, Lockstep, OneInFlight
  <1>3. CASE Throw(o) /\ UNCHANGED inbox
    BY <1>1, <1>2, <1>3
  <1>4. CASE /\ awaiting' = TRUE /\ op' = o
             /\ inbox' = IF connected THEN Append(inbox, m) ELSE inbox
             /\ UNCHANGED <<step, result, abandoned, connected>>
    <2>1. Append(inbox, m) = <<m>>
      BY <1>2
    <2>2. inbox' # <<>> => req' = m
      BY <1>2, <1>4, <2>1 DEF req
    <2> QED BY <1>1, <1>2, <1>4, <2>2
  <1> QED BY <1>3, <1>4 DEF Send

\* Receiving: the client has read what was under way, or nothing was, the
\* connection is gone and an exception on its way.
LEMMA Received ==
  ASSUME LockstepInv, ~shortRecv', NEW r \in Readable, Consume(r), UNCHANGED inbox
  PROVE  /\ ~shortRecv /\ inbox = <<>> /\ inbox' = <<>> /\ stream' = <<>>
         /\ r.type # "none" => stream # <<>> /\ r = Head(stream)
  <1>1. inbox \in Seq(Requests) /\ stream \in Seq(Replies)
    BY DEF LockstepInv, TypeOK, NetTypeOK
  <1>2. CASE stream = <<>> /\ UNCHANGED <<stream, cut, shortRecv>>
    <2>1. ~connected /\ r = Broken
      BY <1>2 DEF Readable, Misread
    <2> QED
      BY <1>2, <2>1 DEF LockstepInv, Broken
  <1>3. CASE stream # <<>> /\ r = Head(stream) /\ stream' = Tail(stream) /\ UNCHANGED shortRecv
    <2>1. Len(inbox) + Len(stream) <= 1
      BY <1>3 DEF LockstepInv, Lockstep, OneInFlight
    <2> QED BY <1>1, <1>3, <2>1
  <1> QED BY <1>2, <1>3 DEF Consume

\* Answering: the reply takes the place of the request of the RPC the client
\* is in.
LEMMA Replied ==
  ASSUME LockstepInv, ~shortRecv', inbox # <<>>, NEW t, NEW n, NEW u, Transmit(t, n, u)
  PROVE  /\ ~shortRecv /\ awaiting /\ step \in RpcSteps
         /\ req \in Requests /\ req.type = RequestOf(step)
         /\ inbox' = <<>> /\ stream' # <<>>
         /\ Head(stream').type = t /\ Head(stream').data = u
         /\ UNCHANGED <<clientVars, sessionVars, connected, historyVars>>
  <1>1. ~shortRecv /\ UNCHANGED <<clientVars, sessionVars, connected, historyVars>>
    BY DEF Transmit, historyVars
  <1>2. inbox \in Seq(Requests) /\ stream \in Seq(Replies)
    BY DEF LockstepInv, TypeOK, NetTypeOK
  <1>3. req \in Requests
    BY <1>2 DEF req
  <1>4. /\ awaiting /\ Len(inbox) + Len(stream) <= 1 /\ step \in RpcSteps
        /\ req.type = RequestOf(step)
    BY <1>1 DEF LockstepInv, Lockstep, OneInFlight, RequestMatches
  <1>5. Tail(inbox) = <<>> /\ stream = <<>>
    BY <1>2, <1>4
  <1> DEFINE m == [type |-> t, tag |-> req.tag, n |-> n, data |-> u]
  <1>6. inbox' = <<>> /\ stream' = <<m>>
    BY <1>5 DEF Transmit
  <1>7. m.type = t /\ m.data = u
    OBVIOUS
  <1> HIDE DEF m
  <1> QED BY <1>1, <1>3, <1>4, <1>6, <1>7

-----------------------------------------------------------------------------
(* The operation in progress *)

\* The request m asks for what operation o is about: its fid, its path, its
\* place in the file.
AsksFor(m, o) ==
    /\ m.type \in {"TAttach", "TOpen", "TStat", "TRead", "TClunk"} => m.fid = o.fid
    /\ m.type = "TWalk" => m.fid = root /\ m.newfid = o.fid /\ m.nwname = o.names
    /\ m.type = "TRead" => m.offset = o.offset /\ m.count = o.want

\* Units that an RRead delivers are those at the operation's place in the file;
\* there are none only at its end.
Delivers(units) ==
    /\ units = Units(op.offset, Len(units))
    /\ connected =>
         /\ units = <<>> => serverFids[op.fid].size <= op.offset
         /\ units # <<>> => op.offset + Len(units) <= serverFids[op.fid].size

\* What the server has done when it sends a reply of this type.
Means(type, units) ==
    /\ type = "RAttach" =>
         /\ agreed
         /\ connected => serverFids[op.fid].node = "root" /\ ~serverFids[op.fid].open
    /\ type = "ROpen" /\ connected => serverFids[op.fid].open
    /\ type = "RStat" /\ connected => Bound(op.fid)
    /\ type = "RRead" => Delivers(units)
    /\ type = "RClunk" => ~Bound(op.fid)

\* The message under way belongs to the operation.
Asked == inbox # <<>> => AsksFor(req, op)
Answered == stream # <<>> => Means(Head(stream).type, Head(stream).data)

\* There is a root fid after the attachment and not before, and the server has
\* accepted the version then.
Mounted ==
    /\ step \in HandshakeSteps => root = NoRoot /\ op.call = "none"
    /\ step \in {"idle"} \cup CallSteps => root # NoRoot /\ agreed

\* The RPC is one of the operation in progress, which asks for something.
Serving ==
    step \in CallSteps =>
        /\ op.call \in Calls /\ op.want > 0
        /\ step = "stat" => op.call = "stat"
        /\ step \in {"open", "read"} => op.call # "stat"

\* The fid is open where it is read and bound where it is to be clunked.
Walked ==
    connected =>
        /\ step = "read" => serverFids[op.fid].open
        /\ step = "clunk" /\ (~awaiting \/ inbox # <<>>) => Bound(op.fid)

\* getDirectoryContents has collected the directory as far as its offset, and
\* to its end when it clunks the fid.
Listing ==
    step \in CallSteps /\ op.call = "dir" =>
        /\ op.want = DirCount
        /\ op.offset = Len(op.data)
        /\ op.data = Units(0, Len(op.data))
        /\ step \in {"walk", "open"} => op.data = <<>>
        /\ step = "read" /\ connected => Len(op.data) <= serverFids[op.fid].size
        /\ step = "clunk" /\ (~awaiting \/ inbox # <<>>) /\ connected =>
             Len(op.data) = serverFids[op.fid].size

\* readFile has collected bytes of the file.
Reading ==
    step = "clunk" /\ op.call = "read" => op.data = Units(op.offset, Len(op.data))

\* Together these are inductive: each of them is what the next one needs when
\* the reply is read.
InOrder == Asked /\ Answered /\ Mounted /\ Serving /\ Walked /\ Listing /\ Reading

OperationInv ==
    /\ LockstepInv
    /\ ~shortRecv => InOrder

-----------------------------------------------------------------------------
(* Lemmas: the building blocks of the steps keep the operation in order. *)

\* Nothing is under way and the client is in no operation.
LEMMA EndInOrder ==
  ASSUME InOrder, inbox' = <<>>, stream' = <<>>, UNCHANGED <<root, agreed>>,
         step' \in {"idle", "terminated", "unmounted"},
         step' = "idle" => step \in {"idle"} \cup CallSteps
  PROVE  InOrder'
  BY DEF InOrder, Asked, Answered, Mounted, Serving, Walked, Listing, Reading,
         HandshakeSteps, CallSteps

\* An exception ends an operation in order.
LEMMA ThrowInOrder ==
  ASSUME InOrder, step \in HandshakeSteps \cup CallSteps, inbox' = <<>>, stream' = <<>>,
         UNCHANGED <<root, agreed>>, NEW o, o.call = op.call, Throw(o)
  PROVE  InOrder'
  <1>1. step' = "idle" => step \in CallSteps
    BY DEF Throw, Die, InOrder, Mounted
  <1>2. step' \in {"idle", "terminated", "unmounted"}
    BY DEF Throw, Die
  <1> QED BY <1>1, <1>2, EndInOrder

\* Sending a request that asks for what the operation is about.
LEMMA SendInOrder ==
  ASSUME OperationInv, LockstepInv', ~awaiting,
         step \in RpcSteps, NEW m, NEW o, Send(m, o), SendFrame, AsksFor(m, o),
         \/ o = op
         \/ step \in {"attach", "walk"} /\ \E f : o = [op EXCEPT !.fid = f]
  PROVE  OperationInv'
  <1> SUFFICES ASSUME ~shortRecv' PROVE InOrder'
    BY DEF OperationInv
  <1>1. LockstepInv
    BY DEF OperationInv
  <1>2. /\ ~shortRecv /\ inbox = <<>> /\ stream' = <<>>
        /\ UNCHANGED <<root, agreed, serverFids>>
        /\ \/ Throw(o) /\ inbox' = <<>>
           \/ /\ awaiting' = TRUE /\ op' = o
              /\ UNCHANGED <<step, connected>>
              /\ inbox' # <<>> => req' = m
    BY <1>1, Sent
  <1>3. InOrder
    BY <1>2 DEF OperationInv
  <1>4. op \in Ops
    BY <1>1 DEF LockstepInv, TypeOK, ClientTypeOK
  <1>5. /\ o.call = op.call /\ o.names = op.names /\ o.offset = op.offset
        /\ o.want = op.want /\ o.data = op.data
        /\ step \notin {"attach", "walk"} => o.fid = op.fid
    BY <1>4 DEF Ops
  <1>6. CASE Throw(o) /\ inbox' = <<>>
    BY <1>2, <1>3, <1>5, <1>6, ThrowInOrder DEF RpcSteps, HandshakeSteps
  <1>7. CASE /\ awaiting' = TRUE /\ op' = o
             /\ UNCHANGED <<step, connected>>
             /\ inbox' # <<>> => req' = m
    <2>1. Asked'
      BY <1>2, <1>7 DEF Asked, AsksFor
    <2>2. Answered'
      BY <1>2 DEF Answered
    <2>3. Mounted'
      BY <1>2, <1>3, <1>5, <1>7 DEF InOrder, Mounted
    <2>7. Serving'
      BY <1>2, <1>3, <1>5, <1>7 DEF InOrder, Serving
    <2>4. Walked'
      BY <1>2, <1>3, <1>5, <1>7 DEF InOrder, Walked, Bound
    <2>5. Listing'
      BY <1>2, <1>3, <1>5, <1>7 DEF InOrder, Listing
    <2>6. Reading'
      BY <1>2, <1>3, <1>5, <1>7 DEF InOrder, Reading
    <2> QED BY <2>1, <2>2, <2>3, <2>4, <2>5, <2>6, <2>7 DEF InOrder
  <1> QED BY <1>2, <1>6, <1>7

\* A reply that cannot be gone on with.
LEMMA FailInOrder ==
  ASSUME OperationInv, LockstepInv', step \in HandshakeSteps \cup CallSteps,
         NEW r \in Readable, Consume(r), RecvFrame, UNCHANGED root,
         Fail(r, op) \/ Throw(op) \/ Die
  PROVE  OperationInv'
  <1> SUFFICES ASSUME ~shortRecv' PROVE InOrder'
    BY DEF OperationInv
  <1>1. LockstepInv /\ UNCHANGED <<inbox, agreed>>
    BY DEF OperationInv, RecvFrame
  <1>2. ~shortRecv /\ inbox' = <<>> /\ stream' = <<>>
    BY <1>1, Received
  <1>3. InOrder
    BY <1>2 DEF OperationInv
  <1>4. CASE Throw(op)
    BY <1>1, <1>2, <1>3, <1>4, ThrowInOrder
  <1>5. CASE Die
    BY <1>1, <1>2, <1>3, <1>5, EndInOrder DEF Die
  <1> QED BY <1>4, <1>5 DEF Fail

\* An answer of the server, if it means what it should.
LEMMA ReplyInOrder ==
  ASSUME OperationInv, LockstepInv', inbox # <<>>,
         NEW t, NEW n, NEW u, Transmit(t, n, u),
         step = "version" \/ UNCHANGED agreed,
         step = "read" => UNCHANGED serverFids,
         ~shortRecv => Means(t, u)'
  PROVE  OperationInv'
  <1> SUFFICES ASSUME ~shortRecv' PROVE InOrder'
    BY DEF OperationInv
  <1>1. LockstepInv
    BY DEF OperationInv
  <1>2. /\ ~shortRecv /\ awaiting
        /\ inbox' = <<>> /\ stream' # <<>>
        /\ Head(stream').type = t /\ Head(stream').data = u
        /\ UNCHANGED <<step, awaiting, op, root, connected>>
    BY <1>1, Replied DEF clientVars, sessionVars
  <1>3. InOrder
    BY <1>2 DEF OperationInv
  <1>4. Asked' /\ Answered'
    BY <1>2 DEF Asked, Answered
  <1>5. Mounted'
    BY <1>2, <1>3 DEF InOrder, Mounted, CallSteps
  <1>9. Serving'
    BY <1>2, <1>3 DEF InOrder, Serving
  <1>6. Walked'
    BY <1>2, <1>3 DEF InOrder, Walked
  <1>7. Listing'
    BY <1>2, <1>3 DEF InOrder, Listing
  <1>8. Reading'
    BY <1>2, <1>3 DEF InOrder, Reading
  <1> QED BY <1>4, <1>5, <1>6, <1>7, <1>8, <1>9 DEF InOrder

\* A reply the operation goes on with, if the next step finds what it needs.
LEMMA ProceedInOrder ==
  ASSUME OperationInv, LockstepInv', NEW r \in Readable, Consume(r), RecvFrame,
         r.type # "none", NEW s, NEW o, Proceed(s, o),
         InOrder /\ Means(r.type, r.data) => Mounted' /\ Serving' /\ Walked' /\ Listing' /\ Reading'
  PROVE  OperationInv'
  <1> SUFFICES ASSUME ~shortRecv' PROVE InOrder'
    BY DEF OperationInv
  <1>1. LockstepInv /\ UNCHANGED inbox
    BY DEF OperationInv, RecvFrame
  <1>2. /\ ~shortRecv /\ inbox' = <<>> /\ stream' = <<>>
        /\ stream # <<>> /\ r = Head(stream)
    BY <1>1, Received
  <1>3. InOrder /\ Means(r.type, r.data)
    BY <1>2 DEF OperationInv, InOrder, Answered
  <1>4. Asked' /\ Answered'
    BY <1>2 DEF Asked, Answered
  <1> QED BY <1>3, <1>4 DEF InOrder

\* Every step keeps the operation in order.
LEMMA NextInOrder == OperationInv /\ [Next]_vars => OperationInv'
  <1> SUFFICES ASSUME OperationInv, [Next]_vars PROVE OperationInv'
    OBVIOUS
  <1>lock. LockstepInv /\ LockstepInv'
    BY NextKeepsLockstep DEF OperationInv
  <1>types. /\ op \in Ops /\ op.fid \in Fids /\ op.data \in Seq(Int) /\ op.offset \in Nat
            /\ root \in Fids \cup {NoRoot} /\ serverFids \in [Fids -> Nodes]
    BY <1>lock DEF LockstepInv, TypeOK, ClientTypeOK, SessionTypeOK, Ops
  <1>steps. /\ RpcSteps \subseteq HandshakeSteps \cup CallSteps
            /\ HandshakeSteps = {"connect", "version", "auth", "attach"}
            /\ CallSteps = {"walk", "open", "stat", "read", "clunk"}
    BY DEF RpcSteps, HandshakeSteps, CallSteps
  <1> USE <1>lock
  <1>1. CASE ConnectToServer
    <2> SUFFICES ASSUME ~shortRecv' PROVE InOrder'
      BY DEF OperationInv
    <2>1. ~shortRecv /\ UNCHANGED <<root, inbox, stream, agreed>> /\ step = "connect"
      BY <1>1 DEF ConnectToServer, sessionVars
    <2>2. InOrder /\ ~awaiting /\ inbox = <<>> /\ stream = <<>>
      BY <2>1 DEF OperationInv, LockstepInv, Lockstep, OneInFlight, RpcSteps, CallSteps
    <2>3. CASE Throw(op)
      BY <2>1, <2>2, <2>3, <1>steps, ThrowInOrder
    <2>4. CASE step' = "version" /\ UNCHANGED op
      BY <2>1, <2>2, <2>4, <1>steps
      DEF InOrder, Asked, Answered, Mounted, Serving, Walked, Listing, Reading
    <2> QED BY <1>1, <2>3, <2>4 DEF ConnectToServer
  <1>2. CASE SendTVersion
    <2> DEFINE m == [type |-> "TVersion", tag |-> NOTAG, msize |-> msize]
    <2>1. AsksFor(m, op)
      BY DEF AsksFor
    <2> QED BY <1>2, <2>1, SendInOrder DEF SendTVersion, RpcSteps
  <1>3. CASE RecvRVersion
    <2> PICK r \in Readable :
          Consume(r) /\ ((r.type = "RVersion" /\ Proceed("auth", op)) \/ Fail(r, op))
      BY <1>3 DEF RecvRVersion
    <2>1. step = "version" /\ RecvFrame /\ UNCHANGED root
      BY <1>3 DEF RecvRVersion
    <2>2. CASE Fail(r, op)
      BY <2>1, <2>2, <1>steps, FailInOrder
    <2>3. CASE r.type = "RVersion" /\ Proceed("auth", op)
      <3>1. InOrder => Mounted' /\ Serving' /\ Walked' /\ Listing' /\ Reading'
        BY <2>1, <2>3, <1>steps DEF Proceed, InOrder, Mounted, Serving, Walked, Listing, Reading
      <3> QED BY <2>1, <2>3, <3>1, ProceedInOrder
    <2> QED BY <2>2, <2>3
  <1>4. CASE SendTAuth
    <2> DEFINE m == [type |-> "TAuth", tag |-> tagIssuer']
    <2>1. AsksFor(m, op)
      BY DEF AsksFor
    <2> QED BY <1>4, <2>1, SendInOrder DEF SendTAuth, RpcSteps
  <1>5. CASE RecvRAuth
    <2> PICK r \in Readable :
          Consume(r) /\ ((r.type = "RError" /\ Proceed("attach", op)) \/ Fail(r, op))
      BY <1>5 DEF RecvRAuth
    <2>1. step = "auth" /\ RecvFrame /\ UNCHANGED root
      BY <1>5 DEF RecvRAuth
    <2>2. CASE Fail(r, op)
      BY <2>1, <2>2, <1>steps, FailInOrder
    <2>3. CASE r.type = "RError" /\ Proceed("attach", op)
      <3>1. InOrder => Mounted' /\ Serving' /\ Walked' /\ Listing' /\ Reading'
        BY <2>1, <2>3, <1>steps DEF Proceed, InOrder, Mounted, Serving, Walked, Listing, Reading
      <3> QED BY <2>1, <2>3, <3>1, ProceedInOrder
    <2> QED BY <2>2, <2>3
  <1>6. CASE SendTAttach
    <2> DEFINE m == [type |-> "TAttach", tag |-> tagIssuer', fid |-> fidIssuer']
               o == [op EXCEPT !.fid = fidIssuer']
    <2>1. AsksFor(m, o)
      BY <1>types DEF AsksFor, Ops
    <2> QED BY <1>6, <2>1, SendInOrder DEF SendTAttach, RpcSteps
  <1>7. CASE RecvRAttach
    <2> PICK r \in Readable :
          /\ Consume(r)
          /\ \/ r.type = "RAttach" /\ root' = op.fid /\ Proceed("idle", NoOp)
             \/ UNCHANGED root /\ Fail(r, op)
      BY <1>7 DEF RecvRAttach
    <2>1. step = "attach" /\ RecvFrame
      BY <1>7 DEF RecvRAttach
    <2>2. CASE UNCHANGED root /\ Fail(r, op)
      BY <2>1, <2>2, <1>steps, FailInOrder
    <2>3. CASE r.type = "RAttach" /\ root' = op.fid /\ Proceed("idle", NoOp)
      <3>1. root' # NoRoot
        BY <2>3, <1>types, WidthAssumption DEF Fids, NoRoot
      <3>2. Means(r.type, r.data) => agreed'
        BY <2>1, <2>3 DEF Means, RecvFrame
      <3>3. InOrder /\ Means(r.type, r.data) => Mounted' /\ Serving' /\ Walked' /\ Listing' /\ Reading'
        BY <2>3, <3>1, <3>2, <1>steps DEF Proceed, Mounted, Serving, Walked, Listing, Reading
      <3> QED BY <2>1, <2>3, <3>3, ProceedInOrder
    <2> QED BY <2>2, <2>3
  <1>8. CASE \E c \in Calls, n \in 0 .. MaxNames, off \in 0 .. MaxSize, len \in 1 .. MaxWant :
                 Invoke(c, n, off, len)
    <2> SUFFICES ASSUME ~shortRecv' PROVE InOrder'
      BY DEF OperationInv
    <2> PICK c \in Calls, n \in 0 .. MaxNames, off \in 0 .. MaxSize, len \in 1 .. MaxWant :
          Invoke(c, n, off, len)
      BY <1>8
    <2>1. /\ ~shortRecv /\ UNCHANGED <<root, inbox, stream, agreed>>
          /\ step = "idle" /\ step' = "walk"
          /\ op'.data = <<>> /\ op'.call = c /\ op'.want > 0
          /\ c = "dir" => op'.offset = 0 /\ op'.want = DirCount
      BY SizeAssumption DEF Invoke, sessionVars, netVars
    <2>2. InOrder /\ ~awaiting /\ inbox = <<>> /\ stream = <<>>
      BY <2>1 DEF OperationInv, LockstepInv, Lockstep, OneInFlight, RpcSteps, CallSteps
    <2>3. Len(op'.data) = 0 /\ op'.data = Units(0, Len(op'.data))
      BY <2>1, UnitsLength
    <2>4. Asked' /\ Answered'
      BY <2>1, <2>2 DEF Asked, Answered
    <2>5. Mounted' /\ Serving' /\ Walked' /\ Reading'
      BY <2>1, <2>2, <1>steps DEF InOrder, Mounted, Serving, Walked, Reading
    <2>6. Listing'
      BY <2>1, <2>3 DEF Listing
    <2> QED BY <2>4, <2>5, <2>6 DEF InOrder
  <1>9. CASE SendTWalk
    <2> DEFINE m == [type |-> "TWalk", tag |-> tagIssuer', fid |-> root,
                     newfid |-> fidIssuer', nwname |-> op.names]
               o == [op EXCEPT !.fid = fidIssuer']
    <2>1. AsksFor(m, o)
      BY <1>types DEF AsksFor, Ops
    <2> QED BY <1>9, <2>1, SendInOrder DEF SendTWalk, RpcSteps, CallSteps
  <1>10. CASE RecvRWalk
    <2> DEFINE next == IF op.call = "stat" THEN "stat" ELSE "open"
    <2> PICK r \in Readable :
          Consume(r) /\ ((r.type = "RWalk" /\ Proceed(next, op)) \/ Fail(r, op))
      BY <1>10 DEF RecvRWalk
    <2>1. step = "walk" /\ RecvFrame /\ UNCHANGED root
      BY <1>10 DEF RecvRWalk
    <2>2. CASE Fail(r, op)
      BY <2>1, <2>2, <1>steps, FailInOrder
    <2>3. CASE r.type = "RWalk" /\ Proceed(next, op)
      <3>1. InOrder => Mounted' /\ Serving' /\ Walked' /\ Listing' /\ Reading'
        BY <2>1, <2>3, <1>steps
        DEF Proceed, RecvFrame, InOrder, Mounted, Serving, Walked, Listing, Reading
      <3> QED BY <2>1, <2>3, <3>1, ProceedInOrder
    <2> QED BY <2>2, <2>3
  <1>11. CASE SendTOpen
    <2> DEFINE m == [type |-> "TOpen", tag |-> tagIssuer', fid |-> op.fid]
    <2>1. AsksFor(m, op)
      BY DEF AsksFor
    <2> QED BY <1>11, <2>1, SendInOrder DEF SendTOpen, SendOnFid, RpcSteps, CallSteps
  <1>12. CASE RecvROpen
    <2> PICK r \in Readable :
          Consume(r) /\ ((r.type = "ROpen" /\ Proceed("read", op)) \/ Fail(r, op))
      BY <1>12 DEF RecvROpen
    <2>1. step = "open" /\ RecvFrame /\ UNCHANGED root
      BY <1>12 DEF RecvROpen
    <2>2. CASE Fail(r, op)
      BY <2>1, <2>2, <1>steps, FailInOrder
    <2>3. CASE r.type = "ROpen" /\ Proceed("read", op)
      <3>1. UNCHANGED <<serverFids, connected, agreed, root, op>> /\ step' = "read"
        BY <2>1, <2>3 DEF RecvFrame, Proceed
      <3>2. serverFids[op.fid].size >= 0 /\ Len(<<>>) = 0
        BY <1>types DEF Nodes
      <3>3. InOrder /\ Means(r.type, r.data) => Mounted' /\ Serving' /\ Walked' /\ Listing' /\ Reading'
        BY <2>1, <2>3, <3>1, <3>2, <1>steps
        DEF InOrder, Means, Mounted, Serving, Walked, Listing, Reading
      <3> QED BY <2>1, <2>3, <3>3, ProceedInOrder
    <2> QED BY <2>2, <2>3
  <1>13. CASE SendTStat
    <2> DEFINE m == [type |-> "TStat", tag |-> tagIssuer', fid |-> op.fid]
    <2>1. AsksFor(m, op)
      BY DEF AsksFor
    <2> QED BY <1>13, <2>1, SendInOrder DEF SendTStat, SendOnFid, RpcSteps, CallSteps
  <1>14. CASE RecvRStat
    <2> PICK r \in Readable :
          /\ Consume(r)
          /\ \/ r.type = "RStat" /\ Proceed("clunk", [op EXCEPT !.data = r.data])
             \/ Fail(r, op)
      BY <1>14 DEF RecvRStat
    <2>1. step = "stat" /\ RecvFrame /\ UNCHANGED root
      BY <1>14 DEF RecvRStat
    <2>2. CASE Fail(r, op)
      BY <2>1, <2>2, <1>steps, FailInOrder
    <2>3. CASE r.type = "RStat" /\ Proceed("clunk", [op EXCEPT !.data = r.data])
      <3>1. /\ UNCHANGED <<serverFids, connected, agreed, root>> /\ step' = "clunk"
            /\ op'.fid = op.fid /\ op'.call = op.call /\ op'.want = op.want
        BY <2>1, <2>3, <1>types DEF RecvFrame, Proceed, Ops
      <3>2. InOrder /\ Means(r.type, r.data) => Mounted' /\ Serving' /\ Walked' /\ Listing' /\ Reading'
        BY <2>1, <2>3, <3>1, <1>steps
        DEF InOrder, Means, Mounted, Serving, Walked, Listing, Reading, Bound
      <3> QED BY <2>1, <2>3, <3>2, ProceedInOrder
    <2> QED BY <2>2, <2>3
  <1>15. CASE SendTRead
    <2> DEFINE m == [type |-> "TRead", tag |-> tagIssuer', fid |-> op.fid,
                     offset |-> op.offset, count |-> op.want]
    <2>1. AsksFor(m, op)
      BY DEF AsksFor
    <2> QED BY <1>15, <2>1, SendInOrder DEF SendTRead, SendOnFid, RpcSteps, CallSteps
  <1>16. CASE RecvRRead
    <2> PICK r \in Readable :
          /\ Consume(r)
          /\ \/ /\ r.type = "RRead" /\ op.call = "read"
                /\ Proceed("clunk", [op EXCEPT !.data = r.data])
             \/ /\ r.type = "RRead" /\ op.call = "dir" /\ r.data = <<>>
                /\ Proceed("clunk", op)
             \/ /\ r.type = "RRead" /\ op.call = "dir" /\ r.data # <<>>
                /\ Proceed("read", [op EXCEPT !.data = @ \o r.data,
                                              !.offset = @ + Len(r.data)])
             \/ Fail(r, op) \/ Throw(op) \/ Die
      BY <1>16 DEF RecvRRead, EndOfDirectory, ReadRStats
    <2>1. step = "read" /\ RecvFrame /\ UNCHANGED root
      BY <1>16 DEF RecvRRead
    <2>2. CASE Fail(r, op) \/ Throw(op) \/ Die
      BY <2>1, <2>2, <1>steps, FailInOrder
    <2>data. r.data \in Seq(Int) /\ Len(r.data) \in Nat
      BY ReadableType DEF LockstepInv, TypeOK, Replies
    <2>same. UNCHANGED <<serverFids, agreed>>
      BY <2>1 DEF RecvFrame
    <2>bound. InOrder /\ connected => Bound(op.fid)
      BY <2>1 DEF InOrder, Walked, Bound, Unbound
    <2>3. CASE /\ r.type = "RRead" /\ op.call = "read"
               /\ Proceed("clunk", [op EXCEPT !.data = r.data])
      <3>1. /\ UNCHANGED connected /\ step' = "clunk" /\ op'.data = r.data
            /\ op'.fid = op.fid /\ op'.call = op.call /\ op'.offset = op.offset
            /\ op'.want = op.want
        BY <2>3, <1>types DEF Proceed, Ops
      <3>2. InOrder /\ Means(r.type, r.data) => Mounted' /\ Serving' /\ Walked' /\ Listing' /\ Reading'
        BY <2>1, <2>3, <2>same, <2>bound, <3>1, <1>steps
        DEF InOrder, Means, Delivers, Mounted, Serving, Walked, Listing, Reading, Bound
      <3> QED BY <2>1, <2>3, <3>2, ProceedInOrder
    <2>4. CASE /\ r.type = "RRead" /\ op.call = "dir" /\ r.data = <<>>
               /\ Proceed("clunk", op)
      <3>1. UNCHANGED <<connected, op>> /\ step' = "clunk"
        BY <2>4 DEF Proceed
      <3>2. serverFids[op.fid].size \in Nat /\ Len(op.data) \in Nat
        BY <1>types DEF Nodes
      <3>3. InOrder /\ Means(r.type, r.data) => Mounted' /\ Serving' /\ Walked' /\ Listing' /\ Reading'
        BY <2>1, <2>4, <2>same, <2>bound, <3>1, <3>2, <1>steps
        DEF InOrder, Means, Delivers, Mounted, Serving, Walked, Listing, Reading, Bound
      <3> QED BY <2>1, <2>4, <3>3, ProceedInOrder
    <2>5. CASE /\ r.type = "RRead" /\ op.call = "dir" /\ r.data # <<>>
               /\ Proceed("read", [op EXCEPT !.data = @ \o r.data,
                                             !.offset = @ + Len(r.data)])
      <3>1. /\ UNCHANGED connected /\ step' = "read" /\ op'.data = op.data \o r.data
            /\ op'.offset = op.offset + Len(r.data) /\ op'.want = op.want
            /\ op'.fid = op.fid /\ op'.call = op.call
        BY <2>5, <1>types DEF Proceed, Ops
      <3>2. Len(op'.data) = Len(op.data) + Len(r.data) /\ Len(op.data) \in Nat
        BY <3>1, <2>data, <1>types
      <3>3. InOrder /\ Means(r.type, r.data) => op'.data = Units(0, Len(op'.data))
        <4> SUFFICES ASSUME InOrder, Means(r.type, r.data)
                     PROVE  op'.data = Units(0, Len(op'.data))
          OBVIOUS
        <4>1. op.data = Units(0, Len(op.data)) /\ op.offset = Len(op.data)
          BY <2>1, <2>5, <1>steps DEF InOrder, Listing
        <4>2. r.data = Units(Len(op.data), Len(r.data))
          BY <2>5, <4>1 DEF Means, Delivers
        <4>3. op.data \o r.data = Units(0, Len(op.data) + Len(r.data))
          <5>1. UnitsJoined(op.data, r.data, Len(op.data) + Len(r.data))
            BY Zenon, <2>data, <3>2, <4>1, <4>2, UnitsGrow
          <5> QED BY Zenon, <5>1 DEF UnitsJoined
        <4> QED BY <3>1, <3>2, <4>3, Zenon
      <3>4. InOrder /\ Means(r.type, r.data) => Listing'
        BY <2>1, <2>5, <2>same, <2>data, <3>1, <3>2, <3>3, <1>types, <1>steps
        DEF InOrder, Means, Delivers, Listing
      <3>5. InOrder => Mounted' /\ Serving' /\ Walked' /\ Reading'
        BY <2>1, <2>5, <2>same, <3>1, <1>steps DEF InOrder, Mounted, Serving, Walked, Reading
      <3> QED BY <2>1, <2>5, <3>4, <3>5, ProceedInOrder
    <2> QED BY <2>2, <2>3, <2>4, <2>5
  <1>17. CASE SendTClunk
    <2> DEFINE m == [type |-> "TClunk", tag |-> tagIssuer', fid |-> op.fid]
    <2>1. AsksFor(m, op)
      BY DEF AsksFor
    <2> QED BY <1>17, <2>1, SendInOrder DEF SendTClunk, SendOnFid, RpcSteps, CallSteps
  <1>18. CASE RecvRClunk
    <2> PICK r \in Readable :
          Consume(r) /\ ((r.type = "RClunk" /\ Return) \/ Fail(r, op))
      BY <1>18 DEF RecvRClunk
    <2>1. step = "clunk" /\ RecvFrame /\ UNCHANGED root
      BY <1>18 DEF RecvRClunk
    <2>2. CASE Fail(r, op)
      BY <2>1, <2>2, <1>steps, FailInOrder
    <2>3. CASE r.type = "RClunk" /\ Return
      <3> SUFFICES ASSUME ~shortRecv' PROVE InOrder'
        BY DEF OperationInv
      <3>1. ~shortRecv /\ inbox' = <<>> /\ stream' = <<>> /\ UNCHANGED agreed
        BY <2>1, Received DEF RecvFrame
      <3>2. InOrder /\ step' = "idle"
        BY <2>3, <3>1 DEF OperationInv, Return
      <3> QED BY <2>1, <3>1, <3>2, <1>steps, EndInOrder
    <2> QED BY <2>2, <2>3
  <1>19. CASE Unmount
    <2> SUFFICES ASSUME ~shortRecv' PROVE InOrder'
      BY DEF OperationInv
    <2>1. /\ ~shortRecv /\ UNCHANGED <<root, inbox, stream, agreed>>
          /\ step = "idle" /\ step' = "unmounted"
      BY <1>19 DEF Unmount, sessionVars, historyVars
    <2>2. InOrder /\ ~awaiting /\ inbox = <<>> /\ stream = <<>>
      BY <2>1 DEF OperationInv, LockstepInv, Lockstep, OneInFlight, RpcSteps, CallSteps
    <2> QED BY <2>1, <2>2, EndInOrder
  <1>answer. ASSUME inbox # <<>>, NEW t, NEW n, NEW u, Transmit(t, n, u), ~shortRecv'
             PROVE  /\ ~shortRecv /\ InOrder /\ AsksFor(req, op)
                    /\ req \in Requests /\ step \in RpcSteps /\ req.type = RequestOf(step)
                    /\ UNCHANGED <<op, connected>>
    BY <1>answer, Replied DEF OperationInv, InOrder, Asked, clientVars
  <1>short. shortRecv' => OperationInv'
    BY DEF OperationInv
  <1>20. CASE AnswerVersion
    <2> SUFFICES ASSUME ~shortRecv' PROVE OperationInv'
      BY <1>short
    <2> PICK n \in ServerMsizes : Transmit("RVersion", n, <<>>)
      BY <1>20 DEF AnswerVersion
    <2>1. inbox # <<>> /\ req.type = "TVersion" /\ UNCHANGED serverFids
      BY <1>20 DEF AnswerVersion, Handles
    <2>2. step = "version"
      BY <2>1, <1>answer DEF RequestOf, RpcSteps, CallSteps
    <2>3. Means("RVersion", <<>>)'
      BY DEF Means
    <2> QED BY <2>1, <2>2, <2>3, ReplyInOrder
  <1>21. CASE AnswerAuth
    <2>1. Means("RAuth", <<>>)'
      BY DEF Means
    <2> QED BY <1>21, <2>1, ReplyInOrder DEF AnswerAuth, Handles, Reply
  <1>22. CASE AnswerAttach
    <2> SUFFICES ASSUME ~shortRecv' PROVE OperationInv'
      BY <1>short
    <2>1. /\ inbox # <<>> /\ req.type = "TAttach" /\ agreed /\ UNCHANGED agreed
          /\ Transmit("RAttach", 0, <<>>)
      BY <1>22 DEF AnswerAttach, Handles, Reply
    <2>2. step = "attach" /\ req.fid = op.fid /\ UNCHANGED <<op, connected>>
      BY <2>1, <1>answer DEF RequestOf, RpcSteps, CallSteps, AsksFor
    <2>3. serverFids'[op.fid].node = "root" /\ ~serverFids'[op.fid].open
      BY <1>22, <2>2, <1>types DEF AnswerAttach, Bind
    <2>4. Means("RAttach", <<>>)'
      BY <2>1, <2>2, <2>3 DEF Means
    <2> QED BY <2>1, <2>2, <2>4, ReplyInOrder
  <1>23. CASE AnswerWalk
    <2> SUFFICES ASSUME ~shortRecv' PROVE OperationInv'
      BY <1>short
    <2>1. /\ inbox # <<>> /\ req.type = "TWalk" /\ UNCHANGED agreed
          /\ Transmit("RWalk", req.nwname, <<>>)
      BY <1>23 DEF AnswerWalk, Handles, Reply
    <2>2. step = "walk"
      BY <2>1, <1>answer DEF RequestOf, RpcSteps, CallSteps
    <2>3. Means("RWalk", <<>>)'
      BY DEF Means
    <2> QED BY <2>1, <2>2, <2>3, ReplyInOrder
  <1>24. CASE AnswerPartialWalk
    <2>1. Means("RWalk", <<>>)'
      BY DEF Means
    <2> QED BY <1>24, <2>1, ReplyInOrder DEF AnswerPartialWalk, Handles, Reply
  <1>25. CASE AnswerOpen
    <2> SUFFICES ASSUME ~shortRecv' PROVE OperationInv'
      BY <1>short
    <2>1. /\ inbox # <<>> /\ req.type = "TOpen" /\ UNCHANGED agreed
          /\ Transmit("ROpen", 0, <<>>)
      BY <1>25 DEF AnswerOpen, Handles, Reply
    <2>2. step = "open" /\ req.fid = op.fid /\ UNCHANGED <<op, connected>>
      BY <2>1, <1>answer DEF RequestOf, RpcSteps, CallSteps, AsksFor
    <2>3. serverFids'[op.fid].open
      BY <1>25, <2>2, <1>types DEF AnswerOpen, Nodes
    <2>4. Means("ROpen", <<>>)'
      BY <2>2, <2>3 DEF Means
    <2> QED BY <2>1, <2>2, <2>4, ReplyInOrder
  <1>26. CASE AnswerStat
    <2> SUFFICES ASSUME ~shortRecv' PROVE OperationInv'
      BY <1>short
    <2> PICK stat : stat = <<serverFids[req.fid].size>>
      OBVIOUS
    <2>1. /\ inbox # <<>> /\ req.type = "TStat" /\ UNCHANGED <<agreed, serverFids>>
          /\ Bound(req.fid) /\ Transmit("RStat", 0, stat)
      BY <1>26 DEF AnswerStat, Handles, Reply
    <2>2. req.fid = op.fid /\ UNCHANGED <<op, connected>>
      BY <2>1, <1>answer DEF AsksFor
    <2>3. Means("RStat", stat)'
      BY <2>1, <2>2 DEF Means, Bound
    <2> QED BY <2>1, <2>3, ReplyInOrder
  <1>27. CASE AnswerRead
    <2> SUFFICES ASSUME ~shortRecv' PROVE OperationInv'
      BY <1>short
    <2> DEFINE left == serverFids[req.fid].size - req.offset
               most == Smaller(left, req.count + Slack)
    <2>1. inbox # <<>> /\ req.type = "TRead" /\ UNCHANGED <<agreed, serverFids>>
      BY <1>27 DEF AnswerRead, Handles, Reply
    <2>2. PICK n \in IF most > 0 THEN 1 .. most ELSE {0} :
            Transmit("RRead", 0, Units(req.offset, n))
      BY <1>27 DEF AnswerRead, Reply
    <2>3. /\ InOrder /\ step = "read" /\ UNCHANGED <<op, connected>>
          /\ req.fid = op.fid /\ req.offset = op.offset /\ req.count = op.want
      BY <2>1, <2>2, <1>answer DEF RequestOf, RpcSteps, CallSteps, AsksFor
    <2>4. serverFids[op.fid].size \in Nat /\ op.offset \in Nat /\ op.want \in Nat /\ Slack \in Nat
      BY <1>types, SizeAssumption DEF Ops, Nodes
    <2>5. op.want > 0
      BY <2>3 DEF InOrder, Serving, CallSteps
    <2>6. /\ n \in Nat
          /\ n = 0 => serverFids[op.fid].size <= op.offset
          /\ n > 0 => op.offset + n <= serverFids[op.fid].size
      BY <2>2, <2>3, <2>4, <2>5 DEF Smaller
    <2> PICK units : units = Units(op.offset, n)
      OBVIOUS
    <2>7. Len(units) = n /\ (units = <<>> <=> n = 0)
      BY <2>4, <2>6, UnitsLength
    <2>8. units = Units(op.offset, Len(units))
      BY <2>7
    <2>9. Means("RRead", units)'
      BY <2>1, <2>3, <2>6, <2>7, <2>8 DEF Means, Delivers
    <2>10. Transmit("RRead", 0, units)
      BY <2>2, <2>3
    <2> QED BY <2>1, <2>9, <2>10, ReplyInOrder
  <1>28. CASE AnswerClunk
    <2> SUFFICES ASSUME ~shortRecv' PROVE OperationInv'
      BY <1>short
    <2> PICK t \in {"RClunk", "RError"} : Transmit(t, 0, <<>>)
      BY <1>28 DEF AnswerClunk, Reply
    <2>1. inbox # <<>> /\ req.type = "TClunk" /\ UNCHANGED agreed
      BY <1>28 DEF AnswerClunk, Handles, Reply
    <2>2. step = "clunk" /\ req.fid = op.fid /\ UNCHANGED op
      BY <2>1, <1>answer DEF RequestOf, RpcSteps, CallSteps, AsksFor
    <2>3. serverFids'[op.fid] = Unbound
      BY <1>28, <2>2, <1>types DEF AnswerClunk, Bind
    <2>4. Means(t, <<>>)'
      BY <2>2, <2>3 DEF Means, Bound
    <2> QED BY <2>1, <2>2, <2>4, ReplyInOrder
  <1>29. CASE AnswerError
    <2>1. Means("RError", <<>>)'
      BY DEF Means
    <2> QED BY <1>29, <2>1, ReplyInOrder DEF AnswerError, Reply
  <1>30. CASE Disconnect
    <2> SUFFICES ASSUME ~shortRecv' PROVE InOrder'
      BY DEF OperationInv
    <2>1. /\ ~shortRecv /\ ~connected' /\ inbox' = <<>>
          /\ UNCHANGED <<step, awaiting, op, root, agreed>>
          /\ \A f \in Fids : ~Bound(f)'
      BY <1>30 DEF Disconnect, Lose, Bound, clientVars, sessionVars, historyVars
    <2>2. stream' # <<>> => stream # <<>> /\ Head(stream') = Head(stream)
      <3>1. stream \in Seq(Replies)
        BY DEF LockstepInv, TypeOK, NetTypeOK
      <3>2. PICK k \in 0 .. Len(stream) : stream' = SubSeq(stream, 1, k)
        BY <1>30 DEF Disconnect, Lose
      <3> QED BY <3>1, <3>2
    <2>3. InOrder
      BY <2>1 DEF OperationInv
    <2>4. Asked'
      BY <2>1 DEF Asked
    <2>5. Answered'
      BY <2>1, <2>2, <2>3, <1>types DEF InOrder, Answered, Means, Delivers
    <2>6. Mounted' /\ Serving' /\ Walked' /\ Listing' /\ Reading'
      BY <2>1, <2>3 DEF InOrder, Mounted, Serving, Walked, Listing, Reading
    <2> QED BY <2>4, <2>5, <2>6 DEF InOrder
  <1>31. CASE Finished \/ UNCHANGED vars
    <2>1. UNCHANGED vars
      BY <1>31 DEF Finished
    <2> QED
      BY <2>1
      DEF OperationInv, InOrder, Asked, Answered, Mounted, Serving, Walked, Listing, Reading,
          AsksFor, Means, Delivers, Bound, req,
          vars, clientVars, sessionVars, netVars, historyVars
  <1> QED
    BY <1>1, <1>2, <1>3, <1>4, <1>5, <1>6, <1>7, <1>8, <1>9, <1>10, <1>11,
       <1>12, <1>13, <1>14, <1>15, <1>16, <1>17, <1>18, <1>19, <1>20, <1>21,
       <1>22, <1>23, <1>24, <1>25, <1>26, <1>27, <1>28, <1>29, <1>30, <1>31
    DEF Next, ClientStep, ServerStep

\* There is no operation at the start.
LEMMA InitInOrder == Init => OperationInv
  <1> SUFFICES ASSUME Init PROVE OperationInv
    OBVIOUS
  <1>1. LockstepInv
    BY InitTypeOK
    DEF Init, LockstepInv, Lockstep, OneInFlight, RequestMatches, ReplyMatches
  <1>2. InOrder
    BY DEF Init, NoOp, InOrder, Asked, Answered, Mounted, Serving, Walked, Listing, Reading,
           HandshakeSteps, CallSteps
  <1> QED BY <1>1, <1>2 DEF OperationInv

\* The operation is in order in every reachable state.
LEMMA OperationAlways == Spec => []OperationInv
  <1>1. Init => OperationInv
    BY InitInOrder
  <1>2. OperationInv /\ [Next]_vars => OperationInv'
    BY NextInOrder
  <1> QED BY <1>1, <1>2, PTL DEF Spec

\* Though the client looks neither at the version the server answers with nor
\* at the reason of the RError to its TAuth (doVersionHandshake,
\* doAuthentication), it serves the volume only where the server has accepted
\* the version.
THEOREM MountNeedsVersionAlways == Spec => []MountNeedsVersion
  <1>1. OperationInv => MountNeedsVersion
    BY DEF OperationInv, InOrder, Mounted, MountNeedsVersion
  <1> QED BY <1>1, OperationAlways, PTL

\* Though doWalk takes a partial walk for a success, a TRead is only sent on an
\* open fid, and the TClunk of an operation on a fid the server holds.
THEOREM WalkedBeforeUseAlways == Spec => []WalkedBeforeUse
  <1>1. OperationInv => WalkedBeforeUse
    BY DEF OperationInv, InOrder, Walked, WalkedBeforeUse
  <1> QED BY <1>1, OperationAlways, PTL

\* getDirectoryContents returns the whole directory, each entry once and in
\* order, into however many replies the server splits it.
THEOREM DirListingExactAlways == Spec => []DirListingExact
  <1>1. OperationInv => DirListingExact
    <2> SUFFICES ASSUME OperationInv, step = "clunk", op.call = "dir", connected, ~shortRecv,
                        ~awaiting \/ inbox # <<>>
                 PROVE  op.data = Units(0, serverFids[op.fid].size)
      BY DEF DirListingExact
    <2>1. /\ op.data = Units(0, Len(op.data))
          /\ Len(op.data) = serverFids[op.fid].size
      BY DEF OperationInv, InOrder, Listing, CallSteps
    <2> QED BY <2>1
  <1> QED BY <1>1, OperationAlways, PTL

\* readFile returns bytes of the file, from the offset it was asked for.
THEOREM WholeFramesGiveFileDataAlways == Spec => []WholeFramesGiveFileData
  <1>1. OperationInv => WholeFramesGiveFileData
    BY DEF OperationInv, InOrder, Reading, WholeFramesGiveFileData
  <1> QED BY <1>1, OperationAlways, PTL
-----------------------------------------------------------------------------
(* The fids of the operations *)

\* The operation has a fid of its own, which the issuer issued last.
Issued ==
    \/ step \in {"attach", "walk"} /\ awaiting
    \/ step \in {"open", "stat", "read", "clunk"}

\* Until the issuer wraps, it is not the root fid.
OwnFid ==
    /\ Issued => op.fid = fidIssuer
    /\ NoWrap /\ root # NoRoot => root <= fidIssuer /\ (Issued => op.fid # root)

\* Every fid the server holds is accounted for.
Accounted ==
    \A f \in Fids : Bound(f) => \/ f \in abandoned \cup {root}
                                \/ Issued /\ f = op.fid
                                \/ step = "terminated"

\* The root fid is the root of the volume, and not open.
Pinned ==
    root # NoRoot /\ connected /\ NoWrap =>
        serverFids[root].node = "root" /\ ~serverFids[root].open

\* With these the invariants for the order of the operation and for the fids
\* not yet created are inductive.
FidsInUse == OwnFid /\ Accounted /\ Pinned

FidUseInv ==
    /\ OperationInv
    /\ FidInv
    /\ ~shortRecv => FidsInUse

\* A step that issues no fid and binds none; if the operation ends, its fid is
\* released, abandoned, or the process ends with it.
LEMMA NoFidInUse ==
  ASSUME FidsInUse, UNCHANGED <<fidIssuer, root, serverFids>>,
         connected' => connected, NoWrap' => NoWrap,
         abandoned \subseteq abandoned',
         step = "terminated" => step' = "terminated",
         Issued' => Issued /\ op'.fid = op.fid,
         Issued => \/ Issued'
                   \/ step' = "terminated"
                   \/ op.fid \in abandoned'
                   \/ ~Bound(op.fid)
  PROVE  FidsInUse'
  <1>1. OwnFid'
    BY DEF FidsInUse, OwnFid
  <1>2. Accounted'
    BY DEF FidsInUse, Accounted, Bound
  <1>3. Pinned'
    BY DEF FidsInUse, Pinned
  <1> QED BY <1>1, <1>2, <1>3 DEF FidsInUse

\* The operation ends with its fid abandoned, or the process ends.
LEMMA EndInUse ==
  ASSUME FidsInUse, UNCHANGED <<fidIssuer, root, serverFids, calls>>,
         NEW r, Fail(r, op) \/ Throw(op) \/ Die, step # "terminated"
  PROVE  FidsInUse'
  <1>1. /\ connected' => connected
        /\ abandoned \subseteq abandoned'
        /\ step' \in {"idle", "terminated"}
        /\ step' = "terminated" \/ op.fid \in abandoned'
    BY DEF Fail, Throw, Die
  <1>2. ~Issued' /\ (NoWrap' => NoWrap)
    BY <1>1 DEF Issued, NoWrap
  <1> QED BY <1>1, <1>2, NoFidInUse

\* Sending a request that creates no fid.
LEMMA SendInUse ==
  ASSUME FidUseInv, ~shortRecv', ~awaiting, step \in RpcSteps \ {"attach", "walk"},
         NEW m, Send(m, op), SendFrame, UNCHANGED fidIssuer
  PROVE  FidsInUse'
  <1>1. /\ ~shortRecv
        /\ UNCHANGED <<root, serverFids, calls>>
        /\ \/ Throw(op)
           \/ op' = op /\ UNCHANGED <<step, connected, abandoned>>
    BY Sent DEF FidUseInv, OperationInv
  <1>2. FidsInUse
    BY <1>1 DEF FidUseInv
  <1>3. CASE Throw(op)
    BY <1>1, <1>2, <1>3, EndInUse DEF RpcSteps, CallSteps
  <1>4. CASE op' = op /\ UNCHANGED <<step, connected, abandoned>>
    <2>1. (Issued' <=> Issued) /\ (NoWrap' => NoWrap)
      BY <1>1, <1>4 DEF Issued, NoWrap, RpcSteps, CallSteps
    <2> QED BY <1>1, <1>2, <1>4, <2>1, NoFidInUse
  <1> QED BY <1>1, <1>3, <1>4

\* Sending a request that is to create the fid just issued.
LEMMA IssueInUse ==
  ASSUME FidUseInv, ~shortRecv', ~awaiting, step \in {"attach", "walk"},
         NEW m, NEW o, Send(m, o), SendFrame,
         fidIssuer' = Issue(fidIssuer, FidMod), o = [op EXCEPT !.fid = fidIssuer']
  PROVE  FidsInUse'
  <1>1. /\ ~shortRecv /\ UNCHANGED <<root, serverFids, calls>>
        /\ \/ Throw(o)
           \/ op' = o /\ UNCHANGED <<step, connected, abandoned>>
    BY Sent DEF FidUseInv, OperationInv, RpcSteps, CallSteps
  <1>2. FidsInUse
    BY <1>1 DEF FidUseInv
  <1>3. /\ fidIssuer \in Fids /\ op \in Ops /\ calls \in Nat /\ FidMod \in Nat
        /\ root \in Fids \cup {NoRoot}
    BY WidthAssumption, BoundAssumption
    DEF FidUseInv, FidInv, TypeOK, ClientTypeOK, SessionTypeOK, HistoryTypeOK
  <1>4. fidIssuer \in Nat /\ (root # NoRoot => root \in Nat)
    BY <1>3 DEF Fids
  <1>5. fidIssuer <= calls
    BY DEF FidUseInv, FidInv, BeforeIssue
  <1>6. NoWrap => fidIssuer' = fidIssuer + 1
    BY <1>3, <1>4, <1>5 DEF NoWrap, Issue
  <1>7. o.fid = fidIssuer' /\ o.call = op.call
    BY <1>3 DEF Ops
  <1>8. ~Issued /\ step # "terminated" /\ (NoWrap' => NoWrap)
    BY <1>1 DEF Issued, NoWrap
  <1>9. OwnFid'
    <2>1. Issued' => op' = o
      BY <1>1 DEF Issued, Throw, Die
    <2>2. NoWrap /\ root # NoRoot => root <= fidIssuer
      BY <1>2 DEF FidsInUse, OwnFid
    <2>3. Issued' => op'.fid = fidIssuer'
      BY <1>7, <2>1
    <2>4. NoWrap /\ root # NoRoot => root <= fidIssuer' /\ root # fidIssuer'
      BY <1>4, <1>6, <2>2
    <2> QED BY <1>1, <1>8, <2>3, <2>4 DEF OwnFid
  <1>10. abandoned \subseteq abandoned' /\ (connected' => connected)
    BY <1>1 DEF Throw, Die
  <1>11. Accounted'
    BY <1>1, <1>2, <1>8, <1>10 DEF FidsInUse, Accounted, Bound
  <1>12. Pinned'
    BY <1>1, <1>2, <1>8, <1>10 DEF FidsInUse, Pinned
  <1> QED BY <1>9, <1>11, <1>12 DEF FidsInUse

\* Reading a reply: the fid stays the operation's, or the operation ends.
LEMMA RecvInUse ==
  ASSUME FidUseInv, ~shortRecv', step # "terminated", RecvFrame, UNCHANGED root,
         shortRecv => shortRecv',
         \/ \E r : Fail(r, op) \/ Throw(op) \/ Die
         \/ \E s, o : Proceed(s, o) /\ o.fid = op.fid
                       /\ (s \in {"open", "stat", "read", "clunk"} => Issued)
                       /\ s \in {"auth", "attach", "open", "stat", "read", "clunk"}
                       /\ (Issued => s \in {"open", "stat", "read", "clunk"})
  PROVE  FidsInUse'
  <1>1. UNCHANGED <<fidIssuer, serverFids, calls>>
    BY DEF RecvFrame
  <1>2. FidsInUse
    BY DEF FidUseInv
  <1>3. ASSUME NEW r, Fail(r, op) \/ Throw(op) \/ Die
        PROVE  FidsInUse'
    BY <1>1, <1>2, <1>3, EndInUse
  <1>4. ASSUME NEW s \in {"auth", "attach", "open", "stat", "read", "clunk"}, NEW o,
               Proceed(s, o), o.fid = op.fid,
               s \in {"open", "stat", "read", "clunk"} => Issued,
               Issued => s \in {"open", "stat", "read", "clunk"}
        PROVE  FidsInUse'
    <2>1. (Issued' <=> Issued) /\ op'.fid = op.fid /\ UNCHANGED <<connected, abandoned>>
      BY <1>4 DEF Proceed, Issued
    <2>2. NoWrap' => NoWrap
      BY <1>1 DEF NoWrap
    <2> QED BY <1>1, <1>2, <2>1, <2>2, NoFidInUse
  <1> QED BY <1>3, <1>4

\* An answer of the server binds no other fid than the operation's, nor
\* changes what any other stands for.
LEMMA AnswerInUse ==
  ASSUME FidUseInv, ~shortRecv', inbox # <<>>, NEW t, NEW n, NEW u, Transmit(t, n, u),
         \/ UNCHANGED serverFids
         \/ Issued /\ \A f \in Fids : f # op.fid => serverFids'[f] = serverFids[f]
  PROVE  FidsInUse'
  <1>1. /\ ~shortRecv
        /\ UNCHANGED <<step, awaiting, op, root, fidIssuer, connected, calls, abandoned>>
    BY Replied
    DEF FidUseInv, OperationInv, clientVars, sessionVars, historyVars
  <1>2. FidsInUse
    BY <1>1 DEF FidUseInv
  <1>3. (Issued' <=> Issued) /\ (NoWrap' <=> NoWrap)
    BY <1>1 DEF Issued, NoWrap
  <1>4. OwnFid'
    BY <1>1, <1>2, <1>3 DEF FidsInUse, OwnFid
  <1>5. Accounted'
    BY <1>1, <1>2, <1>3 DEF FidsInUse, Accounted, Bound
  <1>6. root \in Fids \cup {NoRoot}
    BY DEF FidUseInv, FidInv, TypeOK, SessionTypeOK
  <1>7. Pinned'
    BY <1>1, <1>2, <1>3, <1>6 DEF FidsInUse, OwnFid, Pinned
  <1> QED BY <1>4, <1>5, <1>7 DEF FidsInUse

\* Every step keeps the fids in use.
LEMMA NextInUse == FidUseInv /\ [Next]_vars => FidUseInv'
  <1> SUFFICES ASSUME FidUseInv, [Next]_vars, ~shortRecv' PROVE FidsInUse'
    BY NextInOrder, NextKeepsFids DEF FidUseInv
  <1>types. /\ op \in Ops /\ op.fid \in Fids /\ serverFids \in [Fids -> Nodes]
    BY DEF FidUseInv, FidInv, TypeOK, ClientTypeOK, Ops
  <1>lock. LockstepInv
    BY DEF FidUseInv, OperationInv
  <1>rpc. RpcSteps = {"version", "auth", "attach", "walk", "open", "stat", "read", "clunk"}
    BY DEF RpcSteps, CallSteps
  <1>recv. ASSUME NEW r, Consume(r) PROVE shortRecv => shortRecv'
    BY <1>recv DEF Consume
  <1>calls. calls \in Nat /\ FidMod \in Nat
    BY WidthAssumption, BoundAssumption DEF FidUseInv, FidInv, TypeOK, HistoryTypeOK
  <1>order. ~shortRecv => InOrder /\ FidsInUse
    BY DEF FidUseInv, OperationInv
  <1>idle. ~shortRecv /\ step \in {"connect", "idle"} => ~awaiting
    BY <1>lock, <1>rpc DEF LockstepInv, Lockstep
  <1>1. CASE ConnectToServer
    <2>1. /\ step = "connect" /\ ~shortRecv
          /\ UNCHANGED <<fidIssuer, root, serverFids, calls>>
      BY <1>1 DEF ConnectToServer, sessionVars
    <2>2. CASE Throw(op)
      BY <1>order, <2>1, <2>2, EndInUse
    <2>3. CASE step' = "version" /\ UNCHANGED <<op, abandoned>>
      <3>1. ~Issued /\ ~Issued' /\ (NoWrap' => NoWrap)
        BY <2>1, <2>3 DEF Issued, NoWrap
      <3>2. InOrder /\ root = NoRoot
        BY <1>order, <2>1 DEF InOrder, Mounted, HandshakeSteps
      <3>3. OwnFid' /\ Accounted' /\ Pinned'
        BY <1>order, <2>1, <2>3, <3>1, <3>2 DEF FidsInUse, OwnFid, Accounted, Pinned, Bound
      <3> QED BY <3>3 DEF FidsInUse
    <2> QED BY <1>1, <2>2, <2>3 DEF ConnectToServer
  <1>2. CASE SendTVersion
    BY <1>2, <1>rpc, SendInUse DEF SendTVersion
  <1>3. CASE RecvRVersion
    <2> PICK r \in Readable : Consume(r) /\ (Proceed("auth", op) \/ Fail(r, op))
      BY <1>3 DEF RecvRVersion
    <2>1. ~Issued
      BY <1>3 DEF RecvRVersion, Issued
    <2> QED BY <1>3, <1>recv, <2>1, RecvInUse DEF RecvRVersion
  <1>4. CASE SendTAuth
    BY <1>4, <1>rpc, SendInUse DEF SendTAuth
  <1>5. CASE RecvRAuth
    <2> PICK r \in Readable : Consume(r) /\ (Proceed("attach", op) \/ Fail(r, op))
      BY <1>5 DEF RecvRAuth
    <2>1. ~Issued
      BY <1>5 DEF RecvRAuth, Issued
    <2> QED BY <1>5, <1>recv, <2>1, RecvInUse DEF RecvRAuth
  <1>6. CASE SendTAttach
    BY <1>6, IssueInUse DEF SendTAttach
  <1>7. CASE RecvRAttach
    <2> PICK r \in Readable :
          /\ Consume(r)
          /\ \/ r.type = "RAttach" /\ root' = op.fid /\ Proceed("idle", NoOp)
             \/ UNCHANGED root /\ Fail(r, op)
      BY <1>7 DEF RecvRAttach
    <2>1. /\ step = "attach" /\ awaiting /\ RecvFrame /\ ~shortRecv
          /\ UNCHANGED <<fidIssuer, serverFids, calls, inbox>>
      BY <1>7, <1>recv DEF RecvRAttach, RecvFrame
    <2>2. InOrder /\ FidsInUse /\ Issued
      BY <1>order, <2>1 DEF Issued
    <2>3. CASE UNCHANGED root /\ Fail(r, op)
      BY <2>1, <2>2, <2>3, EndInUse
    <2>4. CASE r.type = "RAttach" /\ root' = op.fid /\ Proceed("idle", NoOp)
      <3>1. ~Issued' /\ UNCHANGED <<connected, abandoned>> /\ (NoWrap' => NoWrap)
        BY <2>1, <2>4 DEF Proceed, Issued, NoWrap
      <3>2. root = NoRoot /\ op.fid = fidIssuer
        BY <2>1, <2>2 DEF InOrder, Mounted, HandshakeSteps, FidsInUse, OwnFid
      <3>3. stream # <<>> /\ r = Head(stream)
        BY <1>lock, <2>1, <2>4, Received
      <3>4. connected => serverFids[op.fid].node = "root" /\ ~serverFids[op.fid].open
        BY <2>2, <2>4, <3>3 DEF InOrder, Answered, Means
      <3>5. fidIssuer <= fidIssuer
        BY <1>types, <3>2 DEF Fids
      <3>6. OwnFid'
        BY <2>1, <2>4, <3>1, <3>2, <3>5 DEF OwnFid
      <3>7. Accounted'
        <4>1. ASSUME NEW f \in Fids, Bound(f)
              PROVE  f \in abandoned \cup {op.fid}
          <5>1. f # NoRoot
            BY WidthAssumption DEF Fids, NoRoot
          <5> QED BY <2>1, <2>2, <3>2, <4>1, <5>1 DEF FidsInUse, Accounted
        <4> QED BY <2>1, <2>4, <3>1, <4>1 DEF Accounted, Bound
      <3>8. Pinned'
        BY <2>1, <2>4, <3>1, <3>4 DEF Pinned
      <3> QED BY <3>6, <3>7, <3>8 DEF FidsInUse
    <2> QED BY <2>3, <2>4
  <1>8. CASE \E c \in Calls, n \in 0 .. MaxNames, off \in 0 .. MaxSize, len \in 1 .. MaxWant :
                 Invoke(c, n, off, len)
    <2>1. /\ step = "idle" /\ step' = "walk" /\ ~shortRecv /\ calls' = calls + 1
          /\ UNCHANGED <<awaiting, fidIssuer, root, serverFids, connected, abandoned>>
      BY <1>8 DEF Invoke, sessionVars, netVars
    <2>2. ~Issued /\ ~Issued' /\ (NoWrap' => NoWrap)
      BY <1>idle, <1>calls, <2>1 DEF Issued, NoWrap
    <2> QED BY <1>order, <2>1, <2>2, NoFidInUse
  <1>9. CASE SendTWalk
    BY <1>9, IssueInUse DEF SendTWalk
  <1>10. CASE RecvRWalk
    <2> DEFINE next == IF op.call = "stat" THEN "stat" ELSE "open"
    <2> PICK r \in Readable : Consume(r) /\ (Proceed(next, op) \/ Fail(r, op))
      BY <1>10 DEF RecvRWalk
    <2>1. Issued
      BY <1>10 DEF RecvRWalk, Issued
    <2> QED BY <1>10, <1>recv, <2>1, RecvInUse DEF RecvRWalk
  <1>11. CASE SendTOpen
    BY <1>11, <1>rpc, SendInUse DEF SendTOpen, SendOnFid
  <1>12. CASE RecvROpen
    <2> PICK r \in Readable : Consume(r) /\ (Proceed("read", op) \/ Fail(r, op))
      BY <1>12 DEF RecvROpen
    <2>1. Issued
      BY <1>12 DEF RecvROpen, Issued
    <2> QED BY <1>12, <1>recv, <2>1, RecvInUse DEF RecvROpen
  <1>13. CASE SendTStat
    BY <1>13, <1>rpc, SendInUse DEF SendTStat, SendOnFid
  <1>14. CASE RecvRStat
    <2> PICK r \in Readable :
          Consume(r) /\ (Proceed("clunk", [op EXCEPT !.data = r.data]) \/ Fail(r, op))
      BY <1>14 DEF RecvRStat
    <2>1. Issued /\ [op EXCEPT !.data = r.data].fid = op.fid
      BY <1>14, <1>types DEF RecvRStat, Issued, Ops
    <2> QED BY <1>14, <1>recv, <2>1, RecvInUse DEF RecvRStat
  <1>15. CASE SendTRead
    BY <1>15, <1>rpc, SendInUse DEF SendTRead, SendOnFid
  <1>16. CASE RecvRRead
    <2> PICK r \in Readable :
          /\ Consume(r)
          /\ \/ Proceed("clunk", [op EXCEPT !.data = r.data])
             \/ Proceed("clunk", op)
             \/ Proceed("read", [op EXCEPT !.data = @ \o r.data, !.offset = @ + Len(r.data)])
             \/ Fail(r, op) \/ Throw(op) \/ Die
      BY <1>16 DEF RecvRRead, ReadRStats
    <2>1. /\ Issued
          /\ [op EXCEPT !.data = r.data].fid = op.fid
          /\ [op EXCEPT !.data = @ \o r.data, !.offset = @ + Len(r.data)].fid = op.fid
      BY <1>16, <1>types DEF RecvRRead, Issued, Ops
    <2> QED BY <1>16, <1>recv, <2>1, RecvInUse DEF RecvRRead
  <1>17. CASE SendTClunk
    BY <1>17, <1>rpc, SendInUse DEF SendTClunk, SendOnFid
  <1>18. CASE RecvRClunk
    <2> PICK r \in Readable : Consume(r) /\ ((r.type = "RClunk" /\ Return) \/ Fail(r, op))
      BY <1>18 DEF RecvRClunk
    <2>1. /\ step = "clunk" /\ RecvFrame /\ UNCHANGED root /\ ~shortRecv
          /\ UNCHANGED <<fidIssuer, serverFids, calls, inbox>>
      BY <1>18, <1>recv DEF RecvRClunk, RecvFrame
    <2>2. CASE Fail(r, op)
      BY <1>18, <1>recv, <2>1, <2>2, RecvInUse
    <2>3. CASE r.type = "RClunk" /\ Return
      <3>1. InOrder /\ FidsInUse /\ stream # <<>> /\ r = Head(stream)
        BY <1>lock, <1>order, <2>1, <2>3, Received
      <3>2. ~Bound(op.fid)
        BY <2>3, <3>1 DEF InOrder, Answered, Means
      <3>3. ~Issued' /\ (NoWrap' => NoWrap) /\ UNCHANGED <<abandoned, connected>>
        BY <2>1, <2>3 DEF Return, Issued, NoWrap
      <3> QED BY <2>1, <3>1, <3>2, <3>3, NoFidInUse
    <2> QED BY <2>2, <2>3
  <1>19. CASE Unmount
    <2>1. /\ step = "idle" /\ step' = "unmounted" /\ ~shortRecv /\ ~connected'
          /\ UNCHANGED <<awaiting, fidIssuer, root, serverFids, abandoned, calls>>
      BY <1>19 DEF Unmount, sessionVars, historyVars
    <2>2. ~Issued /\ ~Issued' /\ (NoWrap' => NoWrap)
      BY <2>1 DEF Issued, NoWrap
    <2> QED BY <1>order, <2>1, <2>2, NoFidInUse
  <1>answer. ASSUME inbox # <<>>, NEW t, NEW n, NEW u, Transmit(t, n, u)
             PROVE  /\ AsksFor(req, op) /\ req \in Requests
                    /\ step \in RpcSteps /\ req.type = RequestOf(step) /\ awaiting
    BY <1>answer, <1>lock, <1>order, Replied DEF InOrder, Asked, historyVars
  <1>20. CASE AnswerVersion
    BY <1>20, AnswerInUse DEF AnswerVersion, Handles
  <1>21. CASE AnswerAuth
    BY <1>21, AnswerInUse DEF AnswerAuth, Handles, Reply
  <1>22. CASE AnswerAttach
    <2>1. inbox # <<>> /\ req.type = "TAttach" /\ Transmit("RAttach", 0, <<>>)
      BY <1>22 DEF AnswerAttach, Handles, Reply
    <2>2. Issued /\ req.fid = op.fid
      BY <2>1, <1>answer, <1>rpc DEF RequestOf, AsksFor, Issued
    <2>3. \A f \in Fids : f # op.fid => serverFids'[f] = serverFids[f]
      BY <1>22, <1>types, <2>2 DEF AnswerAttach, Bind
    <2> QED BY <2>1, <2>2, <2>3, AnswerInUse
  <1>23. CASE AnswerWalk
    <2>1. inbox # <<>> /\ req.type = "TWalk" /\ Transmit("RWalk", req.nwname, <<>>)
      BY <1>23 DEF AnswerWalk, Handles, Reply
    <2>2. Issued /\ req.newfid = op.fid
      BY <2>1, <1>answer, <1>rpc DEF RequestOf, AsksFor, Issued
    <2>3. \A f \in Fids : f # op.fid => serverFids'[f] = serverFids[f]
      BY <1>23, <1>types, <2>2 DEF AnswerWalk, Bind
    <2> QED BY <2>1, <2>2, <2>3, AnswerInUse
  <1>24. CASE AnswerPartialWalk
    BY <1>24, AnswerInUse DEF AnswerPartialWalk, Handles, Reply
  <1>25. CASE AnswerOpen
    <2>1. inbox # <<>> /\ req.type = "TOpen" /\ Transmit("ROpen", 0, <<>>)
      BY <1>25 DEF AnswerOpen, Handles, Reply
    <2>2. Issued /\ req.fid = op.fid
      BY <2>1, <1>answer, <1>rpc DEF RequestOf, AsksFor, Issued
    <2>3. \A f \in Fids : f # op.fid => serverFids'[f] = serverFids[f]
      BY <1>25, <1>types, <2>2 DEF AnswerOpen
    <2> QED BY <2>1, <2>2, <2>3, AnswerInUse
  <1>26. CASE AnswerStat
    BY <1>26, AnswerInUse DEF AnswerStat, Handles, Reply
  <1>27. CASE AnswerRead
    BY <1>27, AnswerInUse DEF AnswerRead, Handles, Reply
  <1>28. CASE AnswerClunk
    <2> PICK t \in {"RClunk", "RError"} : Transmit(t, 0, <<>>)
      BY <1>28 DEF AnswerClunk, Reply
    <2>1. inbox # <<>> /\ req.type = "TClunk"
      BY <1>28 DEF AnswerClunk, Handles
    <2>2. Issued /\ req.fid = op.fid
      BY <2>1, <1>answer, <1>rpc DEF RequestOf, AsksFor, Issued
    <2>3. \A f \in Fids : f # op.fid => serverFids'[f] = serverFids[f]
      BY <1>28, <1>types, <2>2 DEF AnswerClunk, Bind
    <2> QED BY <2>1, <2>2, <2>3, AnswerInUse
  <1>29. CASE AnswerError
    BY <1>29, AnswerInUse DEF AnswerError, Reply
  <1>30. CASE Disconnect
    <2>1. /\ ~shortRecv /\ ~connected' /\ \A f \in Fids : ~Bound(f)'
          /\ UNCHANGED <<step, awaiting, op, root, fidIssuer, calls>>
      BY <1>30 DEF Disconnect, Lose, Bound, clientVars, sessionVars, historyVars
    <2>2. OwnFid'
      BY <1>order, <2>1 DEF FidsInUse, OwnFid, Issued, NoWrap
    <2>3. Accounted' /\ Pinned'
      BY <2>1 DEF Accounted, Pinned
    <2> QED BY <2>2, <2>3 DEF FidsInUse
  <1>31. CASE Finished \/ UNCHANGED vars
    <2>1. UNCHANGED vars
      BY <1>31 DEF Finished
    <2>2. /\ ~shortRecv
          /\ UNCHANGED <<fidIssuer, root, serverFids, connected, abandoned, step, op, calls>>
      BY <2>1 DEF vars, clientVars, sessionVars, netVars, historyVars
    <2>3. (Issued' <=> Issued) /\ (NoWrap' => NoWrap)
      BY <2>1 DEF vars, clientVars, historyVars, Issued, NoWrap
    <2> QED BY <1>order, <2>2, <2>3, NoFidInUse
  <1> QED
    BY <1>1, <1>2, <1>3, <1>4, <1>5, <1>6, <1>7, <1>8, <1>9, <1>10, <1>11,
       <1>12, <1>13, <1>14, <1>15, <1>16, <1>17, <1>18, <1>19, <1>20, <1>21,
       <1>22, <1>23, <1>24, <1>25, <1>26, <1>27, <1>28, <1>29, <1>30, <1>31
    DEF Next, ClientStep, ServerStep

\* The fids are in order in every reachable state.
LEMMA FidUseAlways == Spec => []FidUseInv
  <1>1. Init => FidUseInv
    <2> SUFFICES ASSUME Init PROVE FidUseInv
      OBVIOUS
    <2>1. OperationInv
      BY InitInOrder
    <2>2. FidInv
      BY InitFids
    <2>3. FidsInUse
      BY DEF Init, FidsInUse, OwnFid, Accounted, Pinned, Issued, Bound
    <2> QED BY <2>1, <2>2, <2>3 DEF FidUseInv
  <1>2. FidUseInv /\ [Next]_vars => FidUseInv'
    BY NextInUse
  <1> QED BY <1>1, <1>2, PTL DEF Spec

\* The root fid, which every walk starts from, is never walked, opened or
\* clunked by an operation, until the fid issuer wraps around.
THEOREM RootPinnedAlways == Spec => []RootPinned
  <1>1. FidUseInv => RootPinned
    BY DEF FidUseInv, FidsInUse, Pinned, RootPinned
  <1> QED BY <1>1, FidUseAlways, PTL

\* A call that returns has released its fid: the server holds the root fid, the
\* fid of the operation in progress and those of the reads that ended by an
\* exception, no others - also after the fid issuer has wrapped around.
THEOREM FidAccountingAlways == Spec => []FidAccounting
  <1>1. FidUseInv => FidAccounting
    BY DEF FidUseInv, FidsInUse, Accounted, Issued, FidAccounting, CallSteps
  <1> QED BY <1>1, FidUseAlways, PTL
=============================================================================
