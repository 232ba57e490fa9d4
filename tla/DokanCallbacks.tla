--------------------------- MODULE DokanCallbacks ---------------------------
(***************************************************************************)
(* The callbacks of 9pfs_operations.cpp that call the client, on top of    *)
(* NinePClient, for one application: it copies a file by reading on from   *)
(* where it got to until a read does not succeed, and now and then asks    *)
(* for the information of the file or lists a directory.                   *)
(*                                                                         *)
(* Dokan (external) calls one callback at a time, for thread_count is 1.   *)
(* CreateFile and the callbacks that only log return a constant and touch  *)
(* nothing, so they are no steps here.                                     *)
(***************************************************************************)
EXTENDS NinePClient

CONSTANT DwordMod       \* number of values of a DWORD (2^32)

ASSUME DwordAssumption == DwordMod \in Nat /\ DwordMod > 1

\* The bounds of NinePClient let the application ask for its file.
ASSUME RequestAssumption == MaxNames >= 1 /\ MaxWant >= 1

\* The length of a buffer is a DWORD, and the count of an RRead and the size of
\* its frame are as wide: no read returns more than a DWORD can hold.
ASSUME ReplyAssumption == MaxWant + Slack < DwordMod

VARIABLES
    callback,   \* the callback in progress
    handed,     \* what the client has handed to it: ReadFile's buffer as far
                \* as it is written, or the value returned
    answer,     \* what the last callback gave to Dokan
    size,       \* of the file, and of the directory: they do not change
    copied      \* the application's copy of the file

callbackVars == <<callback, handed, answer, copied>>
dokanVars == <<callbackVars, size>>

Callbacks == {"ReadFile", "GetFileInformation", "FindFiles"}
Statuses == {"SUCCESS", "END_OF_FILE", "OBJECT_NAME_NOT_FOUND"}

NoAnswer == [callback |-> "none", status |-> "SUCCESS", length |-> 0, data |-> <<>>]

FirstOf(s, n) == SubSeq(s, 1, Smaller(Len(s), n))

DokanInit ==
    /\ Init
    /\ callback = "none" /\ handed = <<>> /\ answer = NoAnswer
    /\ size \in 0 .. MaxSize
    /\ copied = <<>>

-----------------------------------------------------------------------------
(* The application's requests, as Dokan passes them on.                    *)

Enter(name) ==
    /\ callback = "none"
    /\ callback' = name
    /\ handed' = <<>>
    /\ answer' = NoAnswer
    /\ UNCHANGED <<size, copied>>

\* The copy has come to its end, or to what the application takes for it.
CopyEnded == answer.callback = "ReadFile" /\ answer.status # "SUCCESS"

\* A copy longer than MaxSize, which failed reads make, is not followed.
ReadFile(len) ==
    /\ ~CopyEnded
    /\ Len(copied) <= MaxSize
    /\ Enter("ReadFile")
    /\ Invoke("read", 1, Len(copied), len)

\* The offset and the length mean nothing to the next two.
GetFileInformation ==
    /\ Enter("GetFileInformation")
    /\ Invoke("stat", 1, 0, 1)

FindFiles ==
    /\ Enter("FindFiles")
    /\ Invoke("dir", 1, 0, 1)

-----------------------------------------------------------------------------
(* What the callbacks make of what the client returns.                     *)

\* readFile writes the buffer when doRead returns, before its clunk; the other
\* two hand over their result when they return.
HandOver ==
    handed' = IF step = "read" /\ step' = "clunk" /\ op.call = "read"
              THEN FirstOf(op'.data, op.want)
              ELSE IF step = "clunk" /\ step' = "idle" /\ op.call # "read"
              THEN op.data
              ELSE handed

InClient ==
    /\ ClientStep
    /\ HandOver
    /\ UNCHANGED <<callback, answer, size, copied>>

\* read_length is the pointer that Dokan passes, read through just before.
ReadLengthIsNull == FALSE

\* Mutant of ReadStatus: a read that did not fill its buffer is no success.
ReadStatusFull(length) ==
    IF length >= result.want THEN "SUCCESS" ELSE "OBJECT_NAME_NOT_FOUND"

\* ninepfs_readfile: the second test compares the pointer, not the number.
ReadStatus(length) ==
    IF length > 0 THEN "SUCCESS"
    ELSE IF ReadLengthIsNull THEN "END_OF_FILE" ELSE "OBJECT_NAME_NOT_FOUND"

\* Mutant of ReadLength: no conversion takes place.
ReadLengthSigned == result.ret

\* The int64_t that readFile returns is stored in a DWORD.
ReadLength == result.ret % DwordMod

Answer(status, length) ==
    /\ callback # "none" /\ step = "idle"
    /\ callback' = "none"
    /\ answer' = [callback |-> callback, status |-> status, length |-> length,
                  data |-> handed]
    /\ UNCHANGED <<vars, handed, size>>

\* The part of its buffer a successful read lets the application use; where
\* nothing was written is whatever was there.
Usable == [i \in 1 .. Smaller(ReadLength, result.want) |->
             IF i \in DOMAIN handed THEN handed[i] ELSE Bad]

ReadFileReturns ==
    /\ callback = "ReadFile"
    /\ Answer(ReadStatus(ReadLength), ReadLength)
    /\ copied' = IF ReadStatus(ReadLength) = "SUCCESS" THEN copied \o Usable
                 ELSE copied

\* getFileInformation never returns an empty optional, so that the callback
\* never gets to STATUS_FILE_NOT_AVAILABLE.
GetFileInformationReturns ==
    /\ callback = "GetFileInformation"
    /\ Answer("SUCCESS", 0)
    /\ UNCHANGED copied

\* FillFindData is called for each entry, once the whole list is there.
FindFilesReturns ==
    /\ callback = "FindFiles"
    /\ Answer("SUCCESS", 0)
    /\ UNCHANGED copied

-----------------------------------------------------------------------------
(* Specification *)

\* What the server has under the path is always the same.
SameFile == \A f \in Fids : serverFids'[f].node = "other" => serverFids'[f].size = size

AtServer ==
    /\ ServerStep \/ Disconnect
    /\ SameFile
    /\ UNCHANGED dokanVars

AtEnd ==
    /\ \/ callback = "none" /\ Unmount
       \/ Finished
    /\ UNCHANGED dokanVars

DokanNext ==
    \/ \E len \in 1 .. MaxWant : ReadFile(len)
    \/ GetFileInformation \/ FindFiles
    \/ InClient
    \/ ReadFileReturns \/ GetFileInformationReturns \/ FindFilesReturns
    \/ AtServer
    \/ AtEnd

DokanSpec == DokanInit /\ [][DokanNext]_<<vars, dokanVars>>

-----------------------------------------------------------------------------
(* Properties *)

DokanTypeOK ==
    /\ callback \in Callbacks \cup {"none"}
    /\ handed \in Seq(Int)
    /\ answer \in [callback : Callbacks \cup {"none"}, status : Statuses,
                   length : 0 .. DwordMod - 1, data : Seq(Int)]
    /\ size \in Nat
    /\ copied \in Seq(Int)

\* An application that reads on until a read does not succeed has the whole
\* file then, and the beginning of it before, however the server splits the
\* file over replies and even if it sends more than was asked for - provided
\* that no read has failed.
CopyExact ==
    abandoned = {} /\ ~shortRecv =>
        /\ Len(copied) <= size
        /\ copied = Units(0, Len(copied))
        /\ CopyEnded => Len(copied) = size

\* FindFiles and GetFileInformation give Dokan the directory and the file as
\* they are at the server, or the process ends: there is no answer that is
\* partial, even when the connection is lost between two replies.
AnswersComplete ==
    ~shortRecv =>
        /\ answer.callback = "FindFiles" => answer.data = Units(0, size)
        /\ answer.callback = "GetFileInformation" => answer.data = <<size>>
=============================================================================
