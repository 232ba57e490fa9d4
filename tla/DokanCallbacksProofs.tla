----------------------- MODULE DokanCallbacksProofs -----------------------
(***************************************************************************)
(* Theorems about the callbacks, for every value of the constants.  They   *)
(* use the client as its specification says, so that what is proved of the *)
(* client holds under them too; and what they give to Dokan and its        *)
(* applications is complete: a file is copied without a gap.  The latter   *)
(* rests on the order of the client's operations.                          *)
(***************************************************************************)
EXTENDS DokanCallbacks, NinePClientProofs

-----------------------------------------------------------------------------
(* The callbacks use the client *)

\* A callback enters the client by one of its three operations.
LEMMA EnterInvokes ==
  ASSUME DokanTypeOK,
         \/ \E len \in 1 .. MaxWant : ReadFile(len)
         \/ GetFileInformation
         \/ FindFiles
  PROVE  Next
  <1> USE RequestAssumption, BoundAssumption
  <1>1. ASSUME NEW len \in 1 .. MaxWant, ReadFile(len)  PROVE Next
    <2>1. Len(copied) \in 0 .. MaxSize
      BY <1>1 DEF ReadFile, DokanTypeOK
    <2>2. 1 \in 0 .. MaxNames /\ "read" \in Calls
      BY DEF Calls
    <2> QED
      BY <1>1, <2>1, <2>2 DEF ReadFile, Next
  <1>2. 0 \in 0 .. MaxSize /\ 1 \in 0 .. MaxNames /\ 1 \in 1 .. MaxWant
    OBVIOUS
  <1>3. CASE GetFileInformation
    <2>1. Invoke("stat", 1, 0, 1) /\ "stat" \in Calls
      BY <1>3 DEF GetFileInformation, Calls
    <2> QED
      BY <1>2, <2>1 DEF Next
  <1>4. CASE FindFiles
    <2>1. Invoke("dir", 1, 0, 1) /\ "dir" \in Calls
      BY <1>4 DEF FindFiles, Calls
    <2> QED
      BY <1>2, <2>1 DEF Next
  <1> QED
    BY <1>1, <1>3, <1>4

\* Any step under the callbacks is a step of the client and its server, or
\* leaves them alone.
LEMMA CallbackStepsAreSteps ==
  ASSUME DokanTypeOK, DokanNext
  PROVE  Next \/ UNCHANGED vars
  <1>1. CASE \/ \E len \in 1 .. MaxWant : ReadFile(len)
             \/ GetFileInformation \/ FindFiles
    BY <1>1, EnterInvokes
  <1>2. CASE InClient
    BY <1>2 DEF InClient, Next
  <1>3. CASE ReadFileReturns \/ GetFileInformationReturns \/ FindFilesReturns
    BY <1>3 DEF ReadFileReturns, GetFileInformationReturns, FindFilesReturns, Answer
  <1>4. CASE AtServer
    BY <1>4 DEF AtServer, Next
  <1>5. CASE AtEnd
    BY <1>5 DEF AtEnd, Next
  <1> QED
    BY <1>1, <1>2, <1>3, <1>4, <1>5 DEF DokanNext

\* The types, the client's and the callbacks'.
DokanTypes == TypeOK /\ DokanTypeOK

\* What the client hands over is a sequence of units.
LEMMA HandOverType ==
  ASSUME DokanTypes, TypeOK', HandOver
  PROVE  handed' \in Seq(Int)
  <1>1. /\ op.data \in Seq(Int) /\ op'.data \in Seq(Int) /\ op.want \in Nat
        /\ handed \in Seq(Int)
    BY DEF DokanTypes, TypeOK, ClientTypeOK, Ops, DokanTypeOK
  <1>2. FirstOf(op'.data, op.want) \in Seq(Int)
    BY <1>1 DEF FirstOf, Smaller
  <1> QED
    BY <1>1, <1>2 DEF HandOver

\* What a callback gives to Dokan has its type.
LEMMA AnswerType ==
  ASSUME DokanTypes, NEW status \in Statuses, NEW length \in 0 .. DwordMod - 1,
         Answer(status, length)
  PROVE  /\ callback' \in Callbacks \cup {"none"}
         /\ handed' \in Seq(Int)
         /\ answer' \in [callback : Callbacks \cup {"none"}, status : Statuses,
                         length : 0 .. DwordMod - 1, data : Seq(Int)]
         /\ size' \in Nat
  BY DEF DokanTypes, DokanTypeOK, Answer

\* The part of the buffer the application uses is a sequence of units.
LEMMA UsableType ==
  ASSUME DokanTypes
  PROVE  /\ ReadLength \in 0 .. DwordMod - 1
         /\ Usable \in Seq(Int)
  <1>1. result.ret \in Int /\ result.want \in Nat /\ handed \in Seq(Int)
    BY DEF DokanTypes, TypeOK, ClientTypeOK, DokanTypeOK
  <1>2. ReadLength \in 0 .. DwordMod - 1
    BY <1>1, DwordAssumption DEF ReadLength
  <1>3. Smaller(ReadLength, result.want) \in Nat
    BY <1>1, <1>2, DwordAssumption DEF Smaller
  <1>4. \A i \in DOMAIN handed : handed[i] \in Int
    BY <1>1
  <1> QED
    BY <1>2, <1>3, <1>4 DEF Usable, Bad

\* A step under the callbacks keeps their types.
LEMMA DokanNextKeepsTypes ==
  ASSUME DokanTypes, [DokanNext]_<<vars, dokanVars>>
  PROVE  DokanTypes'
  <1>1. TypeOK'
    <2>1. Next \/ UNCHANGED vars
      BY CallbackStepsAreSteps DEF DokanTypes
    <2> QED
      BY <2>1, NextKeepsTypes DEF DokanTypes
  <1> SUFFICES DokanTypeOK'
    BY <1>1 DEF DokanTypes
  <1>2. ASSUME NEW name \in Callbacks, Enter(name)  PROVE DokanTypeOK'
    <2>1. <<>> \in Seq(Int) /\ 0 \in 0 .. DwordMod - 1 /\ "SUCCESS" \in Statuses
      BY DwordAssumption DEF Statuses
    <2> QED
      BY <1>2, <2>1 DEF Enter, DokanTypes, DokanTypeOK, NoAnswer
  <1>3. CASE \/ \E len \in 1 .. MaxWant : ReadFile(len)
             \/ GetFileInformation \/ FindFiles
    BY <1>2, <1>3 DEF ReadFile, GetFileInformation, FindFiles, Callbacks
  <1>4. CASE InClient
    BY <1>1, <1>4, HandOverType DEF InClient, DokanTypes, DokanTypeOK
  <1>5. CASE ReadFileReturns
    <2>1. ReadStatus(ReadLength) \in Statuses
      BY DEF ReadStatus, Statuses
    <2>2. copied' \in Seq(Int)
      BY <1>5, UsableType DEF ReadFileReturns, DokanTypes, DokanTypeOK
    <2> QED
      BY <1>5, <2>1, <2>2, UsableType, AnswerType DEF ReadFileReturns, DokanTypeOK
  <1>6. CASE GetFileInformationReturns \/ FindFilesReturns
    <2>1. 0 \in 0 .. DwordMod - 1 /\ "SUCCESS" \in Statuses
      BY DwordAssumption DEF Statuses
    <2>2. copied' \in Seq(Int) /\ Answer("SUCCESS", 0)
      BY <1>6 DEF GetFileInformationReturns, FindFilesReturns, DokanTypes, DokanTypeOK
    <2> QED
      BY <2>1, <2>2, AnswerType DEF DokanTypeOK
  <1>7. CASE UNCHANGED dokanVars
    BY <1>7 DEF dokanVars, callbackVars, DokanTypes, DokanTypeOK
  <1> QED
    BY <1>3, <1>4, <1>5, <1>6, <1>7 DEF DokanNext, AtServer, AtEnd

\* The callbacks' initial state has its types.
LEMMA DokanInitTypes ==
  ASSUME DokanInit
  PROVE  DokanTypes
  <1>1. TypeOK
    BY InitTypeOK DEF DokanInit
  <1>2. <<>> \in Seq(Int) /\ 0 \in 0 .. DwordMod - 1 /\ size \in Nat
    BY DwordAssumption, BoundAssumption DEF DokanInit
  <1> QED
    BY <1>1, <1>2 DEF DokanInit, DokanTypes, DokanTypeOK, NoAnswer, Callbacks, Statuses

\* What the callbacks keep and give to Dokan has its type: the length that a
\* read reports fits a DWORD, whatever the client returned.
THEOREM DokanTypeCorrect == DokanSpec => []DokanTypeOK
<1>1. DokanInit => DokanTypes
  BY DokanInitTypes
<1>2. DokanTypes /\ [DokanNext]_<<vars, dokanVars>> => DokanTypes'
  BY DokanNextKeepsTypes
<1>3. DokanTypes => DokanTypeOK
  BY DEF DokanTypes
<1> QED
  BY <1>1, <1>2, <1>3, PTL DEF DokanSpec

\* Under the callbacks and the application above them, the client, its
\* connection and its server behave as NinePClient says.
THEOREM CallbacksUseClient == DokanSpec => Spec
<1>1. DokanInit => Init
  BY DEF DokanInit
<1>2. DokanTypeOK /\ [DokanNext]_<<vars, dokanVars>> => [Next]_vars
  BY CallbackStepsAreSteps
<1> QED
  BY <1>1, <1>2, DokanTypeCorrect, PTL DEF DokanSpec, Spec

\* So the replies that the callbacks' calls are answered with are the right
\* ones, and the fids they ask for are new.
COROLLARY CallbacksInLockstep == DokanSpec => [](Lockstep /\ FreshFid)
  BY CallbacksUseClient, LockstepAlways, FreshFidAlways, PTL

-----------------------------------------------------------------------------
(* From the server to the application *)

CallOf(name) ==
    CASE name = "ReadFile" -> "read"
      [] name = "GetFileInformation" -> "stat"
      [] name = "FindFiles" -> "dir"
      [] OTHER -> "none"

\* n units of the file from an offset on, in answer to a TRead for so many:
\* none only at the end of the file, and never beyond it.
Chunk(offset, n, want) ==
    /\ n = 0 => size <= offset
    /\ n > 0 => offset + n <= size
    /\ n <= want + Slack

\* What the application's path stands for has always the same size.
SizesKept == \A f \in Fids : serverFids[f].node = "other" => serverFids[f].size = size

\* An operation runs only for the callback in progress.
InCallback ==
    /\ step \in CallSteps => /\ callback # "none"
                             /\ op.call = CallOf(callback) /\ op.names = 1
    /\ step \in HandshakeSteps => callback = "none"

\* Its fid stands for the application's file once the server has walked there.
AtFile ==
    connected =>
        /\ step \in {"open", "stat", "read"} => serverFids[op.fid].node = "other"
        /\ stream # <<>> /\ Head(stream).type = "RWalk" => serverFids[op.fid].node = "other"

\* A reply under way tells of that file; also when the connection, and with it
\* the server's fids, is gone.
Carried ==
    stream # <<>> =>
        /\ Head(stream).type = "RStat" => Head(stream).data = <<size>>
        /\ Head(stream).type = "RRead" => Chunk(op.offset, Len(Head(stream).data), op.want)

\* So does what the operation has collected.
Collected ==
    step \in CallSteps =>
        /\ op.call = "dir" => /\ Len(op.data) <= size
                              /\ step = "clunk" => Len(op.data) = size
        /\ op.call = "stat" /\ step = "clunk" => op.data = <<size>>
        /\ op.call = "read" =>
             /\ op.offset = Len(copied) /\ op.want \in 1 .. MaxWant
             /\ step = "clunk" => /\ Chunk(op.offset, Len(op.data), op.want)
                                  /\ handed = FirstOf(op.data, op.want)

\* And what it has returned to a callback that has not answered yet.
Returned ==
    step = "idle" =>
        /\ callback = "FindFiles" => handed = Units(0, size)
        /\ callback = "GetFileInformation" => handed = <<size>>
        /\ callback = "ReadFile" /\ abandoned = {} =>
             /\ result.ret \in Nat /\ result.want \in 1 .. MaxWant
             /\ Chunk(Len(copied), result.ret, result.want)
             /\ handed = Units(Len(copied), Smaller(result.ret, result.want))

\* With these the two properties are inductive.
InCopy ==
    /\ SizesKept /\ InCallback /\ AtFile /\ Carried /\ Collected /\ Returned
    /\ CopyExact /\ AnswersComplete

CopyInv ==
    /\ DokanTypes
    /\ OperationInv
    /\ ~shortRecv => InCopy

-----------------------------------------------------------------------------
(* Lemmas *)

\* The first units of a row are a row.
LEMMA FirstOfUnits ==
  ASSUME NEW first \in Int, NEW n \in Nat, NEW want \in Nat, NEW s, s = Units(first, n)
  PROVE  FirstOf(s, want) = Units(first, Smaller(n, want))
  <1>1. Len(s) = n /\ s \in Seq(Int) /\ \A i \in 1 .. n : s[i] = first + i
    BY DEF Units
  <1>2. PICK k : k = Smaller(n, want)
    OBVIOUS
  <1>3. k \in 0 .. n
    BY <1>2 DEF Smaller
  <1>4. /\ SubSeq(s, 1, k) \in Seq(Int) /\ Len(SubSeq(s, 1, k)) = k
        /\ \A i \in 1 .. k : SubSeq(s, 1, k)[i] = s[i]
    BY <1>1, <1>3
  <1>5. /\ Units(first, k) \in Seq(Int) /\ Len(Units(first, k)) = k
        /\ \A i \in 1 .. k : Units(first, k)[i] = first + i
    BY <1>3 DEF Units
  <1>6. SubSeq(s, 1, k) = Units(first, k)
    <2>1. \A i \in 1 .. k : SubSeq(s, 1, k)[i] = Units(first, k)[i]
      BY <1>1, <1>3, <1>4, <1>5
    <2> QED BY <1>4, <1>5, <2>1, SeqEqual
  <1> QED BY <1>1, <1>2, <1>6 DEF FirstOf

\* A step that concerns neither the file nor the application keeps what there
\* is to say of both.
LEMMA KeptInCopy ==
  ASSUME InCopy, ~shortRecv, UNCHANGED <<serverFids, size, answer, copied>>,
         abandoned \subseteq abandoned'
  PROVE  SizesKept' /\ CopyExact' /\ AnswersComplete'
  <1>1. SizesKept'
    BY DEF InCopy, SizesKept
  <1>2. CopyExact'
    BY DEF InCopy, CopyExact, CopyEnded
  <1>3. AnswersComplete'
    BY DEF InCopy, AnswersComplete
  <1> QED BY <1>1, <1>2, <1>3

\* The operation ends by an exception: a read whose fid is abandoned, or the
\* process with it.
LEMMA ThrowInCopy ==
  ASSUME DokanTypes, InCopy, InOrder, ~shortRecv, step \in HandshakeSteps \cup CallSteps, stream' = <<>>,
         UNCHANGED <<callback, answer, size, copied, serverFids>>,
         NEW o, o.call = op.call, Throw(o) \/ Die
  PROVE  InCopy'
  <1>1. /\ step' \in {"idle", "terminated"}
        /\ abandoned \subseteq abandoned'
        /\ step' = "idle" => op.call = "read" /\ abandoned' # {}
    BY DEF Throw, Die
  <1>2. SizesKept' /\ CopyExact' /\ AnswersComplete'
    BY <1>1, KeptInCopy
  <1>3. InCallback' /\ AtFile' /\ Carried' /\ Collected'
    BY <1>1 DEF InCallback, AtFile, Carried, Collected, CallSteps, HandshakeSteps
  <1>4. Returned'
    <2>1. step' = "idle" => callback = "ReadFile"
      BY <1>1 DEF InCopy, InOrder, Mounted, InCallback, CallOf, DokanTypes, DokanTypeOK, Callbacks
    <2> QED BY <1>1, <2>1 DEF Returned
  <1> QED BY <1>2, <1>3, <1>4 DEF InCopy

\* Sending changes at most the fid of the operation.
LEMMA SendInCopy ==
  ASSUME CopyInv, ~shortRecv', ~awaiting, step \in RpcSteps,
         NEW m, NEW o, Send(m, o), SendFrame,
         \/ o = op
         \/ step \in {"attach", "walk"} /\ \E f : o = [op EXCEPT !.fid = f],
         HandOver, UNCHANGED <<callback, answer, size, copied>>
  PROVE  InCopy'
  <1>1. /\ ~shortRecv /\ stream' = <<>> /\ UNCHANGED serverFids
        /\ \/ Throw(o)
           \/ op' = o /\ UNCHANGED <<step, connected, abandoned>>
    BY Sent DEF CopyInv, OperationInv
  <1>2. InCopy /\ InOrder /\ DokanTypes
    BY <1>1 DEF CopyInv, OperationInv
  <1>3. op \in Ops
    BY DEF CopyInv, DokanTypes, TypeOK, ClientTypeOK
  <1>4. /\ o.call = op.call /\ o.names = op.names /\ o.offset = op.offset
        /\ o.want = op.want /\ o.data = op.data
        /\ step \notin {"attach", "walk"} => o.fid = op.fid
    BY <1>3 DEF Ops
  <1>5. CASE Throw(o)
    BY <1>1, <1>2, <1>4, <1>5, ThrowInCopy DEF RpcSteps, HandshakeSteps
  <1>6. CASE op' = o /\ UNCHANGED <<step, connected, abandoned>>
    <2>1. SizesKept' /\ CopyExact' /\ AnswersComplete'
      BY <1>1, <1>2, <1>6, KeptInCopy
    <2>2. UNCHANGED handed
      BY <1>6 DEF HandOver
    <2>3. InCallback' /\ AtFile'
      BY <1>1, <1>2, <1>4, <1>6 DEF InCopy, InCallback, AtFile
    <2>4. Carried'
      BY <1>1 DEF Carried
    <2>5. Collected'
      BY <1>2, <1>4, <1>6, <2>2 DEF InCopy, Collected, Chunk
    <2>6. Returned'
      BY <1>6 DEF Returned, RpcSteps, CallSteps
    <2> QED BY <2>1, <2>3, <2>4, <2>5, <2>6 DEF InCopy
  <1> QED BY <1>1, <1>5, <1>6

\* A reply the operation goes on with, or that ends the handshake, if what it
\* has collected then is what it should be.
LEMMA ProceedInCopy ==
  ASSUME CopyInv, ~shortRecv', step \in RpcSteps,
         NEW r \in Readable, Consume(r), RecvFrame, r.type # "none",
         NEW s, NEW o, Proceed(s, o),
         step \in CallSteps => s \in CallSteps,
         step \notin CallSteps => s \in HandshakeSteps \cup {"idle"},
         step \in CallSteps => o.call = op.call /\ o.names = op.names,
         UNCHANGED <<callback, answer, size, copied>>,
         InCopy /\ InOrder /\ stream # <<>> /\ r = Head(stream) /\ stream' = <<>>
           => AtFile' /\ Collected'
  PROVE  InCopy'
  <1>1. LockstepInv /\ UNCHANGED <<inbox, serverFids>>
    BY DEF CopyInv, OperationInv, RecvFrame
  <1>2. ~shortRecv /\ stream # <<>> /\ r = Head(stream) /\ stream' = <<>>
    BY <1>1, Received
  <1>3. InCopy /\ InOrder
    BY <1>2 DEF CopyInv, OperationInv
  <1>4. step' = s /\ op' = o /\ UNCHANGED <<connected, abandoned>>
    BY DEF Proceed
  <1>5. SizesKept' /\ CopyExact' /\ AnswersComplete'
    BY <1>1, <1>2, <1>3, <1>4, KeptInCopy
  <1>6. step \in HandshakeSteps \cup CallSteps
    BY DEF RpcSteps, HandshakeSteps
  <1>7. InCallback'
    BY <1>3, <1>4, <1>6 DEF InCopy, InCallback, HandshakeSteps, CallSteps
  <1>8. Carried'
    BY <1>2 DEF Carried
  <1>9. Returned'
    <2>1. step' = "idle" => callback = "none"
      BY <1>3, <1>4, <1>6 DEF InCopy, InCallback, CallSteps
    <2> QED BY <2>1 DEF Returned
  <1> QED BY <1>2, <1>3, <1>5, <1>7, <1>8, <1>9 DEF InCopy

\* A reply that cannot be gone on with.
LEMMA FailInCopy ==
  ASSUME CopyInv, ~shortRecv', step \in HandshakeSteps \cup CallSteps,
         NEW r \in Readable, Consume(r), RecvFrame,
         Fail(r, op) \/ Throw(op) \/ Die,
         UNCHANGED <<callback, answer, size, copied>>
  PROVE  InCopy'
  <1>1. LockstepInv /\ UNCHANGED <<inbox, serverFids>>
    BY DEF CopyInv, OperationInv, RecvFrame
  <1>2. ~shortRecv /\ stream' = <<>>
    BY <1>1, Received
  <1>3. InCopy /\ InOrder /\ DokanTypes
    BY <1>2 DEF CopyInv, OperationInv
  <1> QED BY <1>1, <1>2, <1>3, ThrowInCopy DEF Fail

\* An answer of the server, if it tells of the application's file.
LEMMA ReplyInCopy ==
  ASSUME CopyInv, ~shortRecv', inbox # <<>>,
         NEW t, NEW n, NEW u, Transmit(t, n, u),
         SameFile, UNCHANGED dokanVars,
         InCopy => AtFile' /\ Carried'
  PROVE  InCopy'
  <1>1. /\ ~shortRecv
        /\ UNCHANGED <<step, awaiting, op, result, abandoned>>
        /\ UNCHANGED <<callback, handed, answer, copied, size>>
    BY Replied
    DEF CopyInv, OperationInv, clientVars, historyVars, dokanVars, callbackVars
  <1>2. InCopy
    BY <1>1 DEF CopyInv
  <1>3. SizesKept'
    BY <1>1 DEF SizesKept, SameFile
  <1>4. CopyExact' /\ AnswersComplete'
    BY <1>1, <1>2 DEF InCopy, CopyExact, CopyEnded, AnswersComplete
  <1>5. InCallback'
    BY <1>1, <1>2 DEF InCopy, InCallback
  <1>6. Collected' /\ Returned'
    BY <1>1, <1>2 DEF InCopy, Collected, Returned, Chunk
  <1> QED BY <1>2, <1>3, <1>4, <1>5, <1>6 DEF InCopy

\* A callback asks for something.
LEMMA EnterInCopy ==
  ASSUME CopyInv, ~shortRecv', NEW name \in Callbacks, Enter(name),
         NEW off, NEW len \in 1 .. MaxWant, Invoke(CallOf(name), 1, off, len),
         name = "ReadFile" => off = Len(copied)
  PROVE  InCopy'
  <1>1. /\ ~shortRecv /\ step = "idle" /\ callback = "none" /\ step' = "walk"
        /\ callback' = name /\ answer' = NoAnswer
        /\ op'.call = CallOf(name) /\ op'.names = 1 /\ op'.data = <<>>
        /\ UNCHANGED <<serverFids, stream, awaiting, copied, size, abandoned>>
        /\ CallOf(name) = "read" => op'.offset = off /\ op'.want = len
    BY DEF Enter, Invoke, netVars
  <1>2. InCopy /\ stream = <<>>
    BY <1>1
    DEF CopyInv, OperationInv, LockstepInv, Lockstep, OneInFlight, RpcSteps, CallSteps
  <1>3. SizesKept'
    BY <1>1, <1>2 DEF InCopy, SizesKept
  <1>4. CopyExact' /\ AnswersComplete'
    BY <1>1, <1>2 DEF InCopy, CopyExact, CopyEnded, AnswersComplete, NoAnswer
  <1>5. InCallback'
    BY <1>1 DEF InCallback, HandshakeSteps, Callbacks
  <1>6. AtFile' /\ Carried'
    BY <1>1, <1>2 DEF AtFile, Carried
  <1>7. Collected'
    <2>1. Len(op'.data) = 0 /\ size \in Nat
      BY <1>1 DEF CopyInv, DokanTypes, DokanTypeOK
    <2>2. CallOf(name) = "read" => name = "ReadFile"
      BY DEF CallOf, Callbacks
    <2> QED BY <1>1, <2>1, <2>2 DEF Collected
  <1>8. Returned'
    BY <1>1 DEF Returned
  <1> QED BY <1>3, <1>4, <1>5, <1>6, <1>7, <1>8 DEF InCopy

\* A callback answers; what is left to show is what it gives.
LEMMA AnswerInCopy ==
  ASSUME CopyInv, ~shortRecv', NEW status, NEW length, Answer(status, length),
         InCopy => CopyExact' /\ AnswersComplete'
  PROVE  InCopy'
  <1>1. /\ ~shortRecv /\ step = "idle" /\ callback' = "none"
        /\ UNCHANGED <<step, awaiting, op, serverFids, connected, stream, size>>
    BY DEF Answer, vars, clientVars, netVars, historyVars
  <1>2. InCopy /\ stream = <<>>
    BY <1>1
    DEF CopyInv, OperationInv, LockstepInv, Lockstep, OneInFlight, RpcSteps, CallSteps
  <1>3. SizesKept'
    BY <1>1, <1>2 DEF InCopy, SizesKept
  <1>4. InCallback' /\ AtFile' /\ Carried' /\ Collected' /\ Returned'
    BY <1>1, <1>2
    DEF InCallback, AtFile, Carried, Collected, Returned, CallSteps, HandshakeSteps
  <1> QED BY <1>2, <1>3, <1>4 DEF InCopy

\* What a read has returned joins the copy without a gap.
LEMMA ReadInCopy ==
  ASSUME CopyInv, ~shortRecv', ReadFileReturns
  PROVE  InCopy'
  <1>1. /\ ~shortRecv /\ callback = "ReadFile" /\ step = "idle"
        /\ UNCHANGED <<abandoned, size>>
        /\ answer'.callback = "ReadFile" /\ answer'.status = ReadStatus(ReadLength)
    BY DEF ReadFileReturns, Answer, vars, historyVars
  <1>2. Answer(ReadStatus(ReadLength), ReadLength)
    BY DEF ReadFileReturns
  <1> SUFFICES ASSUME InCopy PROVE CopyExact' /\ AnswersComplete'
    BY <1>2, AnswerInCopy
  <1>3. AnswersComplete'
    BY <1>1 DEF AnswersComplete
  <1>4. ASSUME abandoned = {}
        PROVE  /\ Len(copied') <= size
               /\ copied' = Units(0, Len(copied'))
               /\ CopyEnded' => Len(copied') = size
    <2>1. /\ result.ret \in Nat /\ result.want \in 1 .. MaxWant
          /\ Chunk(Len(copied), result.ret, result.want)
          /\ handed = Units(Len(copied), Smaller(result.ret, result.want))
      BY <1>1, <1>4 DEF InCopy, Returned
    <2>2. /\ copied = Units(0, Len(copied)) /\ Len(copied) <= size
          /\ copied \in Seq(Int) /\ Len(copied) \in Nat /\ size \in Nat
      BY <1>1, <1>4 DEF InCopy, CopyExact, CopyInv, DokanTypes, DokanTypeOK
    <2>3. ReadLength = result.ret
      <3>1. result.ret \in 0 .. DwordMod - 1
        BY <2>1, ReplyAssumption, DwordAssumption, SizeAssumption, BoundAssumption DEF Chunk
      <3> QED BY <3>1, DwordAssumption DEF ReadLength
    <2>4. CASE result.ret = 0
      <3>1. ReadStatus(ReadLength) = "OBJECT_NAME_NOT_FOUND"
        BY <2>3, <2>4 DEF ReadStatus, ReadLengthIsNull
      <3>2. copied' = copied
        BY <3>1 DEF ReadFileReturns
      <3>3. size <= Len(copied)
        BY <2>1, <2>4 DEF Chunk
      <3> QED BY <2>2, <3>2, <3>3
    <2>5. CASE result.ret > 0
      <3>1. ReadStatus(ReadLength) = "SUCCESS"
        BY <2>3, <2>5 DEF ReadStatus
      <3> DEFINE k == Smaller(result.ret, result.want)
      <3>2. k \in Nat /\ k <= result.ret
        BY <2>1 DEF Smaller
      <3>3. Usable = handed
        <4>1. handed = [i \in 1 .. k |-> Len(copied) + i]
          BY <2>1 DEF Units
        <4>2. Usable = [i \in 1 .. k |-> IF i \in DOMAIN handed THEN handed[i] ELSE Bad]
          BY <2>3 DEF Usable
        <4>3. DOMAIN handed = 1 .. k
          BY <4>1
        <4> HIDE DEF k
        <4> QED BY <4>1, <4>2, <4>3
      <3>4. copied' = copied \o handed
        BY <3>1, <3>3 DEF ReadFileReturns
      <3>5. copied \o handed = Units(0, Len(copied) + k)
        <4> HIDE DEF k
        <4>1. handed = Units(Len(copied), k)
          BY <2>1 DEF k
        <4>a. PICK a : a = Len(copied)
          OBVIOUS
        <4>2. a \in Nat /\ k \in Nat /\ copied = Units(0, a) /\ handed = Units(a, k)
          BY Zenon, <2>2, <3>2, <4>1, <4>a
        <4>3. UnitsJoined(copied, handed, a + k)
          BY Zenon, <4>2, UnitsGrow
        <4> QED BY Zenon, <4>3, <4>a DEF UnitsJoined
      <3>6. Len(copied') = Len(copied) + k
        <4> HIDE DEF k
        <4>1. Len(copied) + k \in Nat /\ 0 \in Int
          BY <2>2, <3>2
        <4> QED BY <3>4, <3>5, <4>1, UnitsLength
      <3>7. Len(copied) + k <= size
        <4>1. Len(copied) + result.ret <= size
          BY <2>1, <2>5 DEF Chunk
        <4> HIDE DEF k
        <4> QED BY <2>1, <2>2, <3>2, <4>1
      <3>8. ~CopyEnded'
        BY <1>1, <3>1 DEF CopyEnded
      <3> HIDE DEF k
      <3> QED BY <3>4, <3>5, <3>6, <3>7, <3>8
    <2> QED BY <2>1, <2>4, <2>5
  <1>5. CopyExact'
    BY <1>1, <1>4 DEF CopyExact
  <1> QED BY <1>3, <1>5

\* What the other two callbacks give to Dokan is what the client returned.
LEMMA OtherAnswersInCopy ==
  ASSUME CopyInv, ~shortRecv', GetFileInformationReturns \/ FindFilesReturns
  PROVE  InCopy'
  <1>1. /\ ~shortRecv /\ step = "idle" /\ callback \in {"GetFileInformation", "FindFiles"}
        /\ UNCHANGED <<abandoned, size, copied>>
        /\ answer'.callback = callback /\ answer'.data = handed
        /\ Answer("SUCCESS", 0)
    BY DEF GetFileInformationReturns, FindFilesReturns, Answer, vars, historyVars
  <1> SUFFICES ASSUME InCopy PROVE CopyExact' /\ AnswersComplete'
    BY <1>1, AnswerInCopy
  <1>2. AnswersComplete'
    BY <1>1 DEF InCopy, Returned, AnswersComplete
  <1>3. CopyExact'
    BY <1>1 DEF InCopy, CopyExact, CopyEnded
  <1> QED BY <1>2, <1>3

\* The operation returns what it has collected.
LEMMA ReturnInCopy ==
  ASSUME CopyInv, ~shortRecv, step = "clunk", Return, HandOver, stream' = <<>>,
         UNCHANGED <<callback, answer, size, copied, serverFids>>
  PROVE  InCopy'
  <1>1. InCopy /\ InOrder
    BY DEF CopyInv, OperationInv
  <1>2. /\ step' = "idle" /\ result'.ret = Len(op.data) /\ result'.want = op.want
        /\ UNCHANGED abandoned
    BY DEF Return
  <1>3. SizesKept' /\ CopyExact' /\ AnswersComplete'
    BY <1>1, <1>2, KeptInCopy
  <1>4. InCallback' /\ AtFile' /\ Carried' /\ Collected'
    BY <1>2 DEF InCallback, AtFile, Carried, Collected, CallSteps, HandshakeSteps
  <1>5. /\ step \in CallSteps /\ op.call = CallOf(callback)
        /\ op.data \in Seq(Int) /\ op.want \in Nat /\ op.offset \in Nat
    BY <1>1
    DEF InCopy, InCallback, CallSteps, CopyInv, DokanTypes, TypeOK, ClientTypeOK, Ops
  <1>6. callback = "FindFiles" => handed' = Units(0, size)
    BY <1>1, <1>2, <1>5 DEF HandOver, CallOf, InCopy, Collected, InOrder, Listing
  <1>7. callback = "GetFileInformation" => handed' = <<size>>
    BY <1>1, <1>2, <1>5 DEF HandOver, CallOf, InCopy, Collected
  <1>8. callback = "ReadFile" =>
          /\ result'.ret \in Nat /\ result'.want \in 1 .. MaxWant
          /\ Chunk(Len(copied), result'.ret, result'.want)
          /\ handed' = Units(Len(copied), Smaller(result'.ret, result'.want))
    <2> SUFFICES ASSUME callback = "ReadFile"
                 PROVE  /\ result'.ret \in Nat /\ result'.want \in 1 .. MaxWant
                        /\ Chunk(Len(copied), result'.ret, result'.want)
                        /\ handed' = Units(Len(copied), Smaller(result'.ret, result'.want))
      OBVIOUS
    <2>1. op.call = "read"
      BY <1>5 DEF CallOf
    <2>2. handed' = handed
      BY <1>2, <2>1 DEF HandOver
    <2>3. /\ op.offset = Len(copied) /\ op.want \in 1 .. MaxWant
          /\ Chunk(op.offset, Len(op.data), op.want)
          /\ handed = FirstOf(op.data, op.want)
      BY <1>1, <1>5, <2>1 DEF InCopy, Collected
    <2>4. op.data = Units(op.offset, Len(op.data))
      BY <1>1, <2>1 DEF InOrder, Reading
    <2>5. FirstOf(op.data, op.want) = Units(op.offset, Smaller(Len(op.data), op.want))
      <3> PICK n : n = Len(op.data)
        OBVIOUS
      <3>1. n \in Nat /\ op.offset \in Int
        BY <1>5
      <3>2. op.data = Units(op.offset, n)
        BY <2>4
      <3>3. FirstOf(op.data, op.want) = Units(op.offset, Smaller(n, op.want))
        BY <1>5, <3>1, <3>2, FirstOfUnits
      <3> QED BY <3>3
    <2> QED BY <1>2, <1>5, <2>2, <2>3, <2>5
  <1>9. Returned'
    BY <1>2, <1>6, <1>7, <1>8 DEF Returned, Chunk
  <1> QED BY <1>3, <1>4, <1>9 DEF InCopy

-----------------------------------------------------------------------------
(* Every step *)

\* The client's steps in a callback, or before the first.
LEMMA ClientInCopy ==
  ASSUME CopyInv, ~shortRecv', InClient
  PROVE  InCopy'
  <1>frame. HandOver /\ UNCHANGED <<callback, answer, size, copied>>
    BY DEF InClient
  <1>types. /\ op \in Ops /\ op.fid \in Fids /\ op.data \in Seq(Int) /\ op.offset \in Nat
            /\ size \in Nat
    BY DEF CopyInv, DokanTypes, TypeOK, ClientTypeOK, Ops, DokanTypeOK
  <1>rpc. /\ RpcSteps = {"version", "auth", "attach", "walk", "open", "stat", "read", "clunk"}
          /\ HandshakeSteps = {"connect", "version", "auth", "attach"}
          /\ CallSteps = {"walk", "open", "stat", "read", "clunk"}
    BY DEF RpcSteps, HandshakeSteps, CallSteps
  <1>lock. LockstepInv
    BY DEF CopyInv, OperationInv
  <1>1. CASE ConnectToServer
    <2>1. ~shortRecv /\ step = "connect" /\ UNCHANGED <<stream, serverFids>>
      BY <1>1 DEF ConnectToServer
    <2>2. InCopy /\ InOrder /\ stream = <<>> /\ DokanTypes
      BY <1>rpc, <1>lock, <2>1
      DEF CopyInv, OperationInv, LockstepInv, Lockstep, OneInFlight
    <2>3. CASE Throw(op)
      BY <1>frame, <1>rpc, <2>1, <2>2, <2>3, ThrowInCopy
    <2>4. CASE step' = "version" /\ UNCHANGED <<op, abandoned>>
      <3>1. SizesKept' /\ CopyExact' /\ AnswersComplete'
        BY <1>frame, <2>1, <2>2, <2>4, KeptInCopy
      <3>2. InCallback' /\ AtFile' /\ Carried' /\ Collected' /\ Returned'
        BY <1>frame, <1>rpc, <2>1, <2>2, <2>4
        DEF InCopy, InCallback, AtFile, Carried, Collected, Returned
      <3> QED BY <3>1, <3>2 DEF InCopy
    <2> QED BY <1>1, <2>3, <2>4 DEF ConnectToServer
  <1>2. CASE SendTVersion
    <2> DEFINE m == [type |-> "TVersion", tag |-> NOTAG, msize |-> msize]
    <2>1. Send(m, op) /\ SendFrame /\ ~awaiting /\ step \in RpcSteps
      BY <1>2, <1>rpc DEF SendTVersion
    <2> QED BY <1>2, <2>1, <1>frame, SendInCopy DEF SendTVersion
  <1>3. CASE RecvRVersion
    <2> PICK r \in Readable :
          Consume(r) /\ ((r.type = "RVersion" /\ Proceed("auth", op)) \/ Fail(r, op))
      BY <1>3 DEF RecvRVersion
    <2>1. step = "version" /\ RecvFrame
      BY <1>3 DEF RecvRVersion
    <2>2. CASE Fail(r, op)
      BY <1>frame, <1>rpc, <2>1, <2>2, FailInCopy
    <2>3. CASE r.type = "RVersion" /\ Proceed("auth", op)
      <3>1. stream' = <<>> => AtFile' /\ Collected'
        BY <1>rpc, <2>3 DEF Proceed, AtFile, Collected
      <3> QED BY <1>frame, <1>rpc, <2>1, <2>3, <3>1, ProceedInCopy
    <2> QED BY <2>2, <2>3
  <1>4. CASE SendTAuth
    <2> DEFINE m == [type |-> "TAuth", tag |-> tagIssuer']
    <2>1. Send(m, op) /\ SendFrame /\ ~awaiting /\ step \in RpcSteps
      BY <1>4, <1>rpc DEF SendTAuth
    <2> QED BY <1>4, <2>1, <1>frame, SendInCopy DEF SendTAuth
  <1>5. CASE RecvRAuth
    <2> PICK r \in Readable :
          Consume(r) /\ ((r.type = "RError" /\ Proceed("attach", op)) \/ Fail(r, op))
      BY <1>5 DEF RecvRAuth
    <2>1. step = "auth" /\ RecvFrame
      BY <1>5 DEF RecvRAuth
    <2>2. CASE Fail(r, op)
      BY <1>frame, <1>rpc, <2>1, <2>2, FailInCopy
    <2>3. CASE r.type = "RError" /\ Proceed("attach", op)
      <3>1. stream' = <<>> => AtFile' /\ Collected'
        BY <1>rpc, <2>3 DEF Proceed, AtFile, Collected
      <3> QED BY <1>frame, <1>rpc, <2>1, <2>3, <3>1, ProceedInCopy
    <2> QED BY <2>2, <2>3
  <1>6. CASE SendTAttach
    <2> DEFINE m == [type |-> "TAttach", tag |-> tagIssuer', fid |-> fidIssuer']
               o == [op EXCEPT !.fid = fidIssuer']
    <2>1. Send(m, o) /\ SendFrame /\ ~awaiting /\ step \in RpcSteps
      BY <1>6, <1>rpc DEF SendTAttach
    <2> QED BY <1>6, <2>1, <1>frame, SendInCopy DEF SendTAttach
  <1>7. CASE RecvRAttach
    <2> PICK r \in Readable :
          Consume(r) /\ ((r.type = "RAttach" /\ Proceed("idle", NoOp)) \/ Fail(r, op))
      BY <1>7 DEF RecvRAttach
    <2>1. step = "attach" /\ RecvFrame
      BY <1>7 DEF RecvRAttach
    <2>2. CASE Fail(r, op)
      BY <1>frame, <1>rpc, <2>1, <2>2, FailInCopy
    <2>3. CASE r.type = "RAttach" /\ Proceed("idle", NoOp)
      <3>1. stream' = <<>> => AtFile' /\ Collected'
        BY <1>rpc, <2>3 DEF Proceed, AtFile, Collected
      <3> QED BY <1>frame, <1>rpc, <2>1, <2>3, <3>1, ProceedInCopy
    <2> QED BY <2>2, <2>3
  <1>8. CASE SendTWalk
    <2> DEFINE m == [type |-> "TWalk", tag |-> tagIssuer', fid |-> root,
                     newfid |-> fidIssuer', nwname |-> op.names]
               o == [op EXCEPT !.fid = fidIssuer']
    <2>1. Send(m, o) /\ SendFrame /\ ~awaiting /\ step \in RpcSteps
      BY <1>8, <1>rpc DEF SendTWalk
    <2> QED BY <1>8, <2>1, <1>frame, SendInCopy DEF SendTWalk
  <1>9. CASE RecvRWalk
    <2> DEFINE next == IF op.call = "stat" THEN "stat" ELSE "open"
    <2> PICK r \in Readable :
          Consume(r) /\ ((r.type = "RWalk" /\ Proceed(next, op)) \/ Fail(r, op))
      BY <1>9 DEF RecvRWalk
    <2>1. step = "walk" /\ RecvFrame
      BY <1>9 DEF RecvRWalk
    <2>2. CASE Fail(r, op)
      BY <1>frame, <1>rpc, <2>1, <2>2, FailInCopy
    <2>3. CASE r.type = "RWalk" /\ Proceed(next, op)
      <3>1. /\ step' = next /\ UNCHANGED <<op, connected, serverFids>>
            /\ next \in {"stat", "open"}
        BY <2>1, <2>3 DEF Proceed, RecvFrame
      <3>2. InCopy /\ stream # <<>> /\ r = Head(stream) /\ stream' = <<>> => AtFile'
        BY <2>3, <3>1 DEF InCopy, AtFile
      <3>3. InCopy => Collected'
        BY <1>frame, <1>rpc, <2>1, <3>1 DEF InCopy, Collected
      <3> QED BY <1>frame, <1>rpc, <2>1, <2>3, <3>1, <3>2, <3>3, ProceedInCopy
    <2> QED BY <2>2, <2>3
  <1>10. CASE SendTOpen
    <2> DEFINE m == [type |-> "TOpen", tag |-> tagIssuer', fid |-> op.fid]
    <2>1. Send(m, op) /\ SendFrame /\ ~awaiting /\ step \in RpcSteps
      BY <1>10, <1>rpc DEF SendTOpen, SendOnFid
    <2> QED BY <1>10, <2>1, <1>frame, SendInCopy DEF SendTOpen, SendOnFid
  <1>11. CASE RecvROpen
    <2> PICK r \in Readable :
          Consume(r) /\ ((r.type = "ROpen" /\ Proceed("read", op)) \/ Fail(r, op))
      BY <1>11 DEF RecvROpen
    <2>1. step = "open" /\ RecvFrame
      BY <1>11 DEF RecvROpen
    <2>2. CASE Fail(r, op)
      BY <1>frame, <1>rpc, <2>1, <2>2, FailInCopy
    <2>3. CASE r.type = "ROpen" /\ Proceed("read", op)
      <3>1. step' = "read" /\ UNCHANGED <<op, connected, serverFids>>
        BY <2>1, <2>3 DEF Proceed, RecvFrame
      <3>2. InCopy /\ stream' = <<>> => AtFile'
        BY <2>1, <3>1 DEF InCopy, AtFile
      <3>3. InCopy => Collected'
        BY <1>frame, <1>rpc, <2>1, <3>1 DEF InCopy, Collected
      <3> QED BY <1>frame, <1>rpc, <2>1, <2>3, <3>2, <3>3, ProceedInCopy
    <2> QED BY <2>2, <2>3
  <1>12. CASE SendTStat
    <2> DEFINE m == [type |-> "TStat", tag |-> tagIssuer', fid |-> op.fid]
    <2>1. Send(m, op) /\ SendFrame /\ ~awaiting /\ step \in RpcSteps
      BY <1>12, <1>rpc DEF SendTStat, SendOnFid
    <2> QED BY <1>12, <2>1, <1>frame, SendInCopy DEF SendTStat, SendOnFid
  <1>13. CASE RecvRStat
    <2> DEFINE o(data) == [op EXCEPT !.data = data]
    <2> PICK r \in Readable :
          Consume(r) /\ ((r.type = "RStat" /\ Proceed("clunk", o(r.data))) \/ Fail(r, op))
      BY <1>13 DEF RecvRStat
    <2>1. step = "stat" /\ RecvFrame
      BY <1>13 DEF RecvRStat
    <2>2. CASE Fail(r, op)
      BY <1>frame, <1>rpc, <2>1, <2>2, FailInCopy
    <2>3. CASE r.type = "RStat" /\ Proceed("clunk", o(r.data))
      <3>1. /\ step' = "clunk" /\ op'.data = r.data
            /\ op'.call = op.call /\ op'.names = op.names
            /\ o(r.data).call = op.call /\ o(r.data).names = op.names
        BY <1>types, <2>3 DEF Proceed, Ops
      <3>2. stream' = <<>> => AtFile'
        BY <3>1 DEF AtFile
      <3>3. InCopy /\ InOrder /\ stream # <<>> /\ r = Head(stream) => Collected'
        BY <1>frame, <1>rpc, <2>1, <2>3, <3>1
        DEF InCopy, Carried, Collected, InOrder, Serving
      <3> QED BY <1>frame, <1>rpc, <2>1, <2>3, <3>1, <3>2, <3>3, ProceedInCopy
    <2> QED BY <2>2, <2>3
  <1>14. CASE SendTRead
    <2> DEFINE m == [type |-> "TRead", tag |-> tagIssuer', fid |-> op.fid,
                     offset |-> op.offset, count |-> op.want]
    <2>1. Send(m, op) /\ SendFrame /\ ~awaiting /\ step \in RpcSteps
      BY <1>14, <1>rpc DEF SendTRead, SendOnFid
    <2> QED BY <1>14, <2>1, <1>frame, SendInCopy DEF SendTRead, SendOnFid
  <1>15. CASE RecvRRead
    <2> DEFINE o(data) == [op EXCEPT !.data = data]
               q(data) == [op EXCEPT !.data = @ \o data, !.offset = @ + Len(data)]
    <2> PICK r \in Readable :
          /\ Consume(r)
          /\ \/ r.type = "RRead" /\ op.call = "read" /\ Proceed("clunk", o(r.data))
             \/ /\ r.type = "RRead" /\ op.call = "dir" /\ r.data = <<>>
                /\ Proceed("clunk", op)
             \/ /\ r.type = "RRead" /\ op.call = "dir" /\ r.data # <<>>
                /\ Proceed("read", q(r.data))
             \/ Fail(r, op) \/ Throw(op) \/ Die
      BY <1>15 DEF RecvRRead, EndOfDirectory, ReadRStats
    <2>1. step = "read" /\ RecvFrame /\ UNCHANGED serverFids
      BY <1>15 DEF RecvRRead, RecvFrame
    <2>data. r.data \in Seq(Int) /\ Len(r.data) \in Nat
      BY <1>lock, ReadableType DEF LockstepInv, TypeOK, Replies
    <2>2. CASE Fail(r, op) \/ Throw(op) \/ Die
      BY <1>frame, <1>rpc, <2>1, <2>2, FailInCopy
    <2>3. CASE r.type = "RRead" /\ op.call = "read" /\ Proceed("clunk", o(r.data))
      <3>1. /\ step' = "clunk" /\ op'.data = r.data
            /\ op'.call = op.call /\ op'.names = op.names /\ op'.want = op.want
            /\ op'.offset = op.offset
            /\ o(r.data).call = op.call /\ o(r.data).names = op.names
        BY <1>types, <2>3 DEF Proceed, Ops
      <3>2. stream' = <<>> => AtFile'
        BY <3>1 DEF AtFile
      <3>3. handed' = FirstOf(op'.data, op.want)
        BY <1>frame, <2>1, <2>3, <3>1 DEF HandOver
      <3>4. InCopy /\ stream # <<>> /\ r = Head(stream) => Collected'
        BY <1>frame, <1>rpc, <2>1, <2>3, <3>1, <3>3 DEF InCopy, Carried, Collected, Chunk
      <3> QED BY <1>frame, <1>rpc, <2>1, <2>3, <3>1, <3>2, <3>4, ProceedInCopy
    <2>4. CASE /\ r.type = "RRead" /\ op.call = "dir" /\ r.data = <<>>
               /\ Proceed("clunk", op)
      <3>1. step' = "clunk" /\ op' = op
        BY <2>4 DEF Proceed
      <3>2. stream' = <<>> => AtFile'
        BY <3>1 DEF AtFile
      <3>3. InCopy /\ InOrder /\ stream # <<>> /\ r = Head(stream) => Len(op.data) = size
        <4>1. Len(r.data) = 0 /\ Len(op.data) \in Nat
          BY <1>types, <2>4
        <4>2. InOrder => op.offset = Len(op.data)
          BY <1>rpc, <2>1, <2>4 DEF InOrder, Listing
        <4>3. InCopy => Len(op.data) <= size
          BY <1>rpc, <2>1, <2>4 DEF InCopy, Collected
        <4>4. InCopy /\ stream # <<>> /\ r = Head(stream) => size <= op.offset
          BY <2>4, <4>1 DEF InCopy, Carried, Chunk
        <4> QED BY <1>types, <4>1, <4>2, <4>3, <4>4
      <3>4. InCopy /\ InOrder /\ stream # <<>> /\ r = Head(stream) => Collected'
        BY <1>frame, <1>rpc, <2>1, <2>4, <3>1, <3>3 DEF InCopy, Collected
      <3> QED BY <1>frame, <1>rpc, <2>1, <2>4, <3>2, <3>4, ProceedInCopy
    <2>5. CASE /\ r.type = "RRead" /\ op.call = "dir" /\ r.data # <<>>
               /\ Proceed("read", q(r.data))
      <3>1. /\ step' = "read" /\ op'.data = op.data \o r.data
            /\ op'.call = op.call /\ op'.names = op.names /\ op'.fid = op.fid
            /\ q(r.data).call = op.call /\ q(r.data).names = op.names
            /\ UNCHANGED connected
        BY <1>types, <2>5 DEF Proceed, Ops
      <3>2. InCopy /\ stream' = <<>> => AtFile'
        BY <2>1, <3>1 DEF InCopy, AtFile
      <3>3. InCopy /\ InOrder /\ stream # <<>> /\ r = Head(stream) => Len(op'.data) <= size
        <4>1. Len(op'.data) = Len(op.data) + Len(r.data) /\ Len(r.data) > 0
          BY <1>types, <2>data, <2>5, <3>1
        <4>2. InOrder => op.offset = Len(op.data)
          BY <1>rpc, <2>1, <2>5 DEF InOrder, Listing
        <4>3. InCopy /\ stream # <<>> /\ r = Head(stream) => op.offset + Len(r.data) <= size
          BY <2>5, <4>1 DEF InCopy, Carried, Chunk
        <4> QED BY <4>1, <4>2, <4>3
      <3>4. InCopy /\ InOrder /\ stream # <<>> /\ r = Head(stream) => Collected'
        BY <1>frame, <1>rpc, <2>1, <2>5, <3>1, <3>3 DEF Collected
      <3> QED BY <1>frame, <1>rpc, <2>1, <2>5, <3>1, <3>2, <3>4, ProceedInCopy
    <2> QED BY <2>2, <2>3, <2>4, <2>5
  <1>16. CASE SendTClunk
    <2> DEFINE m == [type |-> "TClunk", tag |-> tagIssuer', fid |-> op.fid]
    <2>1. Send(m, op) /\ SendFrame /\ ~awaiting /\ step \in RpcSteps
      BY <1>16, <1>rpc DEF SendTClunk, SendOnFid
    <2> QED BY <1>16, <2>1, <1>frame, SendInCopy DEF SendTClunk, SendOnFid
  <1>17. CASE RecvRClunk
    <2> PICK r \in Readable :
          Consume(r) /\ ((r.type = "RClunk" /\ Return) \/ Fail(r, op))
      BY <1>17 DEF RecvRClunk
    <2>1. step = "clunk" /\ RecvFrame /\ UNCHANGED <<inbox, serverFids>>
      BY <1>17 DEF RecvRClunk, RecvFrame
    <2>2. CASE Fail(r, op)
      BY <1>frame, <1>rpc, <2>1, <2>2, FailInCopy
    <2>3. CASE r.type = "RClunk" /\ Return
      <3>1. ~shortRecv /\ stream' = <<>>
        BY <1>lock, <2>1, Received
      <3> QED BY <1>frame, <2>1, <2>3, <3>1, ReturnInCopy
    <2> QED BY <2>2, <2>3
  <1> QED
    BY <1>1, <1>2, <1>3, <1>4, <1>5, <1>6, <1>7, <1>8, <1>9, <1>10, <1>11,
       <1>12, <1>13, <1>14, <1>15, <1>16, <1>17
    DEF InClient, ClientStep

\* The server's steps: its answers tell of the application's file, whose size
\* stays the same, and the loss of the connection takes back nothing said.
LEMMA ServerInCopy ==
  ASSUME CopyInv, ~shortRecv', AtServer
  PROVE  InCopy'
  <1>frame. SameFile /\ UNCHANGED dokanVars
    BY DEF AtServer
  <1>types. /\ op \in Ops /\ op.fid \in Fids /\ op.offset \in Nat /\ op.want \in Nat
            /\ serverFids \in [Fids -> Nodes] /\ size \in Nat
    BY DEF CopyInv, DokanTypes, TypeOK, ClientTypeOK, Ops, DokanTypeOK
  <1>rpc. RpcSteps = {"version", "auth", "attach", "walk", "open", "stat", "read", "clunk"}
    BY DEF RpcSteps, CallSteps
  <1>answer. ASSUME inbox # <<>>, NEW t, NEW n, NEW u, Transmit(t, n, u)
             PROVE  /\ ~shortRecv /\ InCopy /\ InOrder /\ AsksFor(req, op)
                    /\ req \in Requests /\ step \in RpcSteps /\ req.type = RequestOf(step)
                    /\ Head(stream').type = t /\ Head(stream').data = u
                    /\ UNCHANGED <<step, op, connected>>
    <2>1. LockstepInv
      BY DEF CopyInv, OperationInv
    <2> QED
      BY <1>answer, <2>1, Replied DEF CopyInv, OperationInv, InOrder, Asked, clientVars
  \* An answer that is neither an RStat nor an RRead, and what it does to the
  \* fid of the operation.
  <1>other. ASSUME inbox # <<>>, NEW t, NEW n, NEW u, Transmit(t, n, u),
                   t \notin {"RStat", "RRead"},
                   t = "RWalk" => serverFids'[op.fid].node = "other",
                   step \in {"open", "stat", "read"} =>
                     serverFids'[op.fid].node = serverFids[op.fid].node
            PROVE  InCopy'
    <2>1. /\ ~shortRecv /\ Head(stream').type = t
          /\ UNCHANGED <<step, op, connected>>
      BY <1>other, <1>answer
    <2>2. InCopy => AtFile' /\ Carried'
      BY <1>other, <2>1 DEF InCopy, AtFile, Carried
    <2> QED BY <1>frame, <1>other, <2>2, ReplyInCopy
  <1>1. CASE AnswerVersion
    <2> PICK n \in ServerMsizes : Transmit("RVersion", n, <<>>)
      BY <1>1 DEF AnswerVersion
    <2> QED BY <1>1, <1>other DEF AnswerVersion, Handles
  <1>2. CASE AnswerAuth
    BY <1>2, <1>other DEF AnswerAuth, Handles, Reply
  <1>3. CASE AnswerAttach
    <2>1. inbox # <<>> /\ req.type = "TAttach" /\ Transmit("RAttach", 0, <<>>)
      BY <1>3 DEF AnswerAttach, Handles, Reply
    <2>2. step = "attach"
      BY <2>1, <1>answer, <1>rpc DEF RequestOf
    <2> QED BY <2>1, <2>2, <1>other
  <1>4. CASE AnswerWalk
    <2>1. inbox # <<>> /\ req.type = "TWalk" /\ Transmit("RWalk", req.nwname, <<>>)
      BY <1>4 DEF AnswerWalk, Handles, Reply
    <2>2. /\ step = "walk" /\ req.newfid = op.fid /\ req.nwname = 1
          /\ UNCHANGED op
      BY <2>1, <1>answer, <1>rpc DEF RequestOf, AsksFor, InCopy, InCallback, CallSteps
    <2>3. PICK units \in 0 .. MaxSize :
            Bind(op.fid, [node |-> "other", size |-> units, open |-> FALSE])
      BY <1>4, <2>2 DEF AnswerWalk
    <2>4. serverFids'[op.fid].node = "other"
      BY <1>types, <2>3 DEF Bind
    <2> QED BY <2>1, <2>2, <2>4, <1>other
  <1>5. CASE AnswerPartialWalk
    <2>1. inbox # <<>> /\ req.type = "TWalk"
      BY <1>5 DEF AnswerPartialWalk, Handles
    <2>2. PICK n \in 1 .. req.nwname - 1 : Transmit("RWalk", n, <<>>)
      BY <1>5 DEF AnswerPartialWalk, Reply
    <2>3. req.nwname = 1
      BY <2>1, <2>2, <1>answer, <1>rpc DEF RequestOf, AsksFor, InCopy, InCallback, CallSteps
    <2> QED BY <2>2, <2>3
  <1>6. CASE AnswerOpen
    <2>1. inbox # <<>> /\ Transmit("ROpen", 0, <<>>)
      BY <1>6 DEF AnswerOpen, Handles, Reply
    <2>2. serverFids'[op.fid].node = serverFids[op.fid].node
      BY <1>6, <1>types DEF AnswerOpen, Nodes
    <2> QED BY <2>1, <2>2, <1>other
  <1>7. CASE AnswerStat
    <2> PICK stat : stat = <<serverFids[req.fid].size>>
      OBVIOUS
    <2>1. /\ inbox # <<>> /\ req.type = "TStat" /\ connected /\ UNCHANGED serverFids
          /\ Transmit("RStat", 0, stat)
      BY <1>7 DEF AnswerStat, Handles, Reply
    <2>2. /\ step = "stat" /\ req.fid = op.fid /\ UNCHANGED <<step, op, connected, size>>
          /\ Head(stream').type = "RStat" /\ Head(stream').data = stat
      BY <2>1, <1>answer, <1>frame, <1>rpc DEF RequestOf, AsksFor, dokanVars
    <2>3. InCopy => stat = <<size>>
      BY <1>types, <2>1, <2>2 DEF InCopy, AtFile, SizesKept
    <2>4. InCopy => AtFile' /\ Carried'
      BY <2>1, <2>2, <2>3 DEF InCopy, AtFile, Carried
    <2> QED BY <1>frame, <2>1, <2>4, ReplyInCopy
  <1>8. CASE AnswerRead
    <2> DEFINE left == serverFids[req.fid].size - req.offset
               most == Smaller(left, req.count + Slack)
    <2>1. inbox # <<>> /\ req.type = "TRead" /\ connected /\ UNCHANGED serverFids
      BY <1>8 DEF AnswerRead, Handles
    <2>2. PICK n \in IF most > 0 THEN 1 .. most ELSE {0} :
            Transmit("RRead", 0, Units(req.offset, n))
      BY <1>8 DEF AnswerRead, Reply
    <2>3. /\ InCopy /\ InOrder /\ step = "read" /\ UNCHANGED <<step, op, connected, size>>
          /\ req.fid = op.fid /\ req.offset = op.offset /\ req.count = op.want
      BY <2>1, <2>2, <1>answer, <1>frame, <1>rpc DEF RequestOf, AsksFor, dokanVars
    <2>4. serverFids[op.fid].size = size /\ op.want > 0 /\ Slack \in Nat
      BY <1>types, <2>1, <2>3, SizeAssumption
      DEF InCopy, AtFile, SizesKept, InOrder, Serving, CallSteps
    <2>5. n \in Nat /\ Chunk(op.offset, n, op.want)
      BY <1>types, <2>2, <2>3, <2>4 DEF Smaller, Chunk
    <2> PICK units : units = Units(op.offset, n)
      OBVIOUS
    <2>6. Len(units) = n
      BY <1>types, <2>5, UnitsLength
    <2>7. Transmit("RRead", 0, units)
      BY <2>2, <2>3
    <2>8. Head(stream').type = "RRead" /\ Head(stream').data = units
      BY <2>1, <2>7, <1>answer
    <2>9. AtFile'
      BY <2>1, <2>3, <2>8 DEF InCopy, AtFile
    <2>10. Carried'
      BY <2>3, <2>5, <2>6, <2>8 DEF Carried, Chunk
    <2> QED BY <1>frame, <2>1, <2>7, <2>9, <2>10, ReplyInCopy
  <1>9. CASE AnswerClunk
    <2> PICK t \in {"RClunk", "RError"} : Transmit(t, 0, <<>>)
      BY <1>9 DEF AnswerClunk, Reply
    <2>1. inbox # <<>> /\ req.type = "TClunk"
      BY <1>9 DEF AnswerClunk, Handles
    <2>2. step = "clunk"
      BY <2>1, <1>answer, <1>rpc DEF RequestOf
    <2> QED BY <2>1, <2>2, <1>other
  <1>10. CASE AnswerError
    BY <1>10, <1>other DEF AnswerError, Reply
  <1>11. CASE Disconnect
    <2>1. /\ ~shortRecv /\ ~connected'
          /\ UNCHANGED <<step, op, result, abandoned>>
          /\ UNCHANGED <<callback, handed, answer, copied, size>>
      BY <1>11, <1>frame
      DEF Disconnect, Lose, clientVars, historyVars, dokanVars, callbackVars
    <2>2. InCopy
      BY <2>1 DEF CopyInv
    <2>3. stream' # <<>> => stream # <<>> /\ Head(stream') = Head(stream)
      <3>1. stream \in Seq(Replies)
        BY DEF CopyInv, DokanTypes, TypeOK, NetTypeOK
      <3>2. PICK k \in 0 .. Len(stream) : stream' = SubSeq(stream, 1, k)
        BY <1>11 DEF Disconnect, Lose
      <3> QED BY <3>1, <3>2
    <2>4. SizesKept'
      BY <1>frame, <2>1 DEF SizesKept, SameFile
    <2>5. CopyExact' /\ AnswersComplete'
      BY <2>1, <2>2 DEF InCopy, CopyExact, CopyEnded, AnswersComplete
    <2>6. InCallback' /\ AtFile'
      BY <2>1, <2>2 DEF InCopy, InCallback, AtFile
    <2>7. Carried'
      BY <2>1, <2>2, <2>3 DEF InCopy, Carried, Chunk
    <2>8. Collected' /\ Returned'
      BY <2>1, <2>2 DEF InCopy, Collected, Returned, Chunk
    <2> QED BY <2>4, <2>5, <2>6, <2>7, <2>8 DEF InCopy
  <1> QED
    BY <1>1, <1>2, <1>3, <1>4, <1>5, <1>6, <1>7, <1>8, <1>9, <1>10, <1>11
    DEF AtServer, ServerStep

\* Every step under the callbacks.
LEMMA DokanNextInCopy == CopyInv /\ [DokanNext]_<<vars, dokanVars>> => CopyInv'
  <1> SUFFICES ASSUME CopyInv, [DokanNext]_<<vars, dokanVars>> PROVE CopyInv'
    OBVIOUS
  <1>types. DokanTypes'
    BY DokanNextKeepsTypes DEF CopyInv
  <1>order. OperationInv'
    <2>1. [Next]_vars
      BY CallbackStepsAreSteps DEF CopyInv, DokanTypes
    <2> QED BY <2>1, NextInOrder DEF CopyInv
  <1> SUFFICES ASSUME ~shortRecv' PROVE InCopy'
    BY <1>types, <1>order DEF CopyInv
  <1>1. ASSUME NEW len \in 1 .. MaxWant, ReadFile(len)
        PROVE  InCopy'
    <2>1. "ReadFile" \in Callbacks /\ CallOf("ReadFile") = "read"
      BY DEF Callbacks, CallOf
    <2> QED BY <1>1, <2>1, EnterInCopy DEF ReadFile
  <1>2. CASE GetFileInformation
    <2>1. /\ "GetFileInformation" \in Callbacks /\ CallOf("GetFileInformation") = "stat"
          /\ 1 \in 1 .. MaxWant
      BY RequestAssumption, BoundAssumption DEF Callbacks, CallOf
    <2> QED BY <1>2, <2>1, EnterInCopy DEF GetFileInformation
  <1>3. CASE FindFiles
    <2>1. /\ "FindFiles" \in Callbacks /\ CallOf("FindFiles") = "dir"
          /\ 1 \in 1 .. MaxWant
      BY RequestAssumption, BoundAssumption DEF Callbacks, CallOf
    <2> QED BY <1>3, <2>1, EnterInCopy DEF FindFiles
  <1>4. CASE InClient
    BY <1>4, ClientInCopy
  <1>5. CASE ReadFileReturns
    BY <1>5, ReadInCopy
  <1>6. CASE GetFileInformationReturns \/ FindFilesReturns
    BY <1>6, OtherAnswersInCopy
  <1>7. CASE AtServer
    BY <1>7, ServerInCopy
  <1>8. CASE callback = "none" /\ Unmount /\ UNCHANGED dokanVars
    <2>1. /\ ~shortRecv /\ step = "idle" /\ step' = "unmounted" /\ ~connected'
          /\ UNCHANGED <<awaiting, stream, serverFids, abandoned>>
          /\ UNCHANGED <<callback, answer, copied, size>>
      BY <1>8 DEF Unmount, historyVars, dokanVars, callbackVars
    <2>2. InCopy /\ stream = <<>>
      BY <2>1
      DEF CopyInv, OperationInv, LockstepInv, Lockstep, OneInFlight, RpcSteps, CallSteps
    <2>3. SizesKept' /\ CopyExact' /\ AnswersComplete'
      BY <2>1, <2>2, KeptInCopy
    <2>4. InCallback' /\ AtFile' /\ Carried' /\ Collected' /\ Returned'
      BY <2>1, <2>2
      DEF InCallback, AtFile, Carried, Collected, Returned, HandshakeSteps, CallSteps
    <2> QED BY <2>3, <2>4 DEF InCopy
  <1>9. CASE UNCHANGED <<vars, dokanVars>>
    <2>1. /\ UNCHANGED <<step, op, result, connected, stream, serverFids, abandoned, shortRecv>>
          /\ UNCHANGED <<callback, handed, answer, copied, size>>
      BY <1>9 DEF vars, clientVars, netVars, historyVars, dokanVars, callbackVars
    <2>2. InCopy
      BY <2>1 DEF CopyInv
    <2> QED
      BY <2>1, <2>2
      DEF InCopy, SizesKept, InCallback, AtFile, Carried, Collected, Returned, Chunk,
          CopyExact, CopyEnded, AnswersComplete
  <1> QED
    BY <1>1, <1>2, <1>3, <1>4, <1>5, <1>6, <1>7, <1>8, <1>9
    DEF DokanNext, AtEnd, Finished

\* Nothing is copied at the start.
LEMMA DokanInitInCopy == DokanInit => CopyInv
  <1> SUFFICES ASSUME DokanInit PROVE CopyInv
    OBVIOUS
  <1>1. Init
    BY DEF DokanInit
  <1>2. DokanTypes
    BY DokanInitTypes
  <1>3. OperationInv
    BY <1>1, InitInOrder
  <1>4. CopyExact
    <2>1. size \in Nat /\ Len(copied) = 0 /\ copied = <<>>
      BY BoundAssumption DEF DokanInit
    <2>2. Units(0, 0) = <<>>
      BY DEF Units
    <2> QED BY <2>1, <2>2 DEF DokanInit, CopyExact, CopyEnded, NoAnswer
  <1>5. SizesKept /\ InCallback /\ AtFile /\ Carried /\ Collected /\ Returned /\ AnswersComplete
    BY DEF DokanInit, Init, NoAnswer, Unbound, SizesKept, InCallback, AtFile, Carried,
           Collected, Returned, AnswersComplete, CallSteps
  <1> QED BY <1>2, <1>3, <1>4, <1>5 DEF CopyInv, InCopy

\* The order of the callbacks and their client in every reachable state.
LEMMA CopyAlways == DokanSpec => []CopyInv
  <1> QED BY DokanInitInCopy, DokanNextInCopy, PTL DEF DokanSpec

\* An application that reads on until a read does not succeed (ninepfs_readfile,
\* Client::readFile) has the whole file then and the beginning of it before,
\* whatever its size, the application's buffers, the replies the server splits
\* it over and what they hold beyond the count asked for, as long as no read has
\* failed and recvs are whole.
THEOREM CopyExactAlways == DokanSpec => []CopyExact
  <1>1. CopyInv => CopyExact
    BY DEF CopyInv, InCopy, CopyExact
  <1> QED BY <1>1, CopyAlways, PTL

\* FindFiles and GetFileInformation (ninepfs_findfiles,
\* ninepfs_getfileInformation) never give Dokan a part of the directory or
\* anything but the file's own information, even if the connection is lost.
THEOREM AnswersCompleteAlways == DokanSpec => []AnswersComplete
  <1>1. CopyInv => AnswersComplete
    BY DEF CopyInv, InCopy, AnswersComplete
  <1> QED BY <1>1, CopyAlways, PTL

\* What the client promises of its fids and of its operations holds under the
\* callbacks too.
COROLLARY CallbacksKeepFids ==
  DokanSpec => [](RootPinned /\ FidAccounting /\ WalkedBeforeUse)
  BY CallbacksUseClient, RootPinnedAlways, FidAccountingAlways, WalkedBeforeUseAlways, PTL
=============================================================================
