--------------------------- MODULE FileInformation ---------------------------
(***************************************************************************)
(* What the callbacks of 9pfs_operations.cpp make of an RStat for Windows  *)
(* (storeTimestampIntoFiletime, splitInt64, fillByHandleFileInformation,   *)
(* fillFindDataWithRStat), and what Windows makes of that.                 *)
(***************************************************************************)
EXTENDS TextUtilities

CONSTANTS
    Half,           \* number of values of a DWORD (2^32); a uint64_t has Half^2
    EpochDiff,      \* seconds from 1601 to 1970 (11'644'473'600)
    TicksPerSecond, \* of a FILETIME (10'000'000)
    NameSize,       \* characters of cFileName, the terminator included (MAX_PATH)
    RStats,         \* what a server may put into a stat
    StackWords      \* what may be on the stack where find_data comes to lie

ASSUME HalfAssumption == Half \in Nat \ {0}

\* A second of any 9P time (a uint32_t) can be told in the ticks of a FILETIME.
ASSUME ClockAssumption ==
    /\ EpochDiff \in Nat /\ TicksPerSecond \in Nat \ {0}
    /\ (Half - 1 + EpochDiff) * TicksPerSecond < Half * Half

DWORD == 0 .. Half - 1

\* The fields of an RStat the callbacks use; muid and the like are dropped.
RStat == [atime : DWORD, mtime : DWORD, length : 0 .. Half * Half - 1, type : 0 .. 255,
          path : 0 .. Half * Half - 1, name : Octets]

ASSUME StatAssumption == RStats \subseteq RStat

ASSUME NameAssumption == NameSize \in Nat \ {0}

VARIABLES
    rstat,      \* the RStat the client returns
    told        \* BY_HANDLE_FILE_INFORMATION or WIN32_FIND_DATAW, with that RStat

-----------------------------------------------------------------------------

splitInt64(input) == [high |-> (input \div Half) % Half, low |-> input % Half]

\* Mutant of storeTimestampIntoFiletime: the arithmetic is done in 32 bits.
storeTimestampNarrow(input) ==
    splitInt64((((input + EpochDiff) % Half) * TicksPerSecond) % (Half * Half))

\* input is a uint64_t, though it comes from the uint32_t of a stat.
storeTimestampIntoFiletime(input) ==
    splitInt64((((input + EpochDiff) % (Half * Half)) * TicksPerSecond) % (Half * Half))

\* The bit of a qid's type that stands for a directory.
Attributes(type) == IF (type \div 128) % 2 = 1 THEN "DIRECTORY" ELSE "NORMAL"

Common(s) ==
    [dwFileAttributes |-> Attributes(s.type),
     ftCreationTime |-> storeTimestampIntoFiletime(s.mtime),
     ftLastWriteTime |-> storeTimestampIntoFiletime(s.mtime),
     ftLastAccessTime |-> storeTimestampIntoFiletime(s.atime),
     nFileSize |-> splitInt64(s.length)]

NotTold == [kind |-> "nothing"]

fillByHandleFileInformation ==
    /\ told' = [kind |-> "handle", common |-> Common(rstat),
                nFileIndex |-> splitInt64(rstat.path)]
    /\ UNCHANGED rstat

\* find_data is not initialised: its reserved fields are what was there.
fillFindDataWithRStat ==
    /\ \E word \in StackWords :
         told' = [kind |-> "find", common |-> Common(rstat),
                  cFileName |-> copyUtf8StringToWcharArr(rstat.name, NameSize),
                  dwReserved |-> word]
    /\ UNCHANGED rstat

-----------------------------------------------------------------------------
(* What Windows reads (external).                                          *)

Joined(pair) == pair.high * Half + pair.low

\* Seconds since 1970.
Seconds(filetime) == Joined(filetime) \div TicksPerSecond - EpochDiff

-----------------------------------------------------------------------------
(* Properties *)

Pairs == [high : DWORD, low : DWORD]
Commons == [dwFileAttributes : {"DIRECTORY", "NORMAL"},
            ftCreationTime : Pairs, ftLastWriteTime : Pairs, ftLastAccessTime : Pairs,
            nFileSize : Pairs]

\* Every half of a 64-bit value fits its DWORD and every name its array.
ToldTypeOK ==
    /\ rstat \in RStats
    /\ told.kind \in {"nothing", "handle", "find"}
    /\ told.kind # "nothing" => told.common \in Commons
    /\ told.kind = "handle" => told.nFileIndex \in Pairs
    /\ told.kind = "find" => Len(told.cFileName) < NameSize

\* Windows reads the times, the length and the index the server gave, up to the
\* largest a stat can hold: nothing overflows on the way and the halves fit
\* together again (storeTimestampIntoFiletime, splitInt64).
ToldExactly ==
    /\ told.kind # "nothing" =>
         /\ Seconds(told.common.ftLastWriteTime) = rstat.mtime
         /\ Seconds(told.common.ftCreationTime) = rstat.mtime
         /\ Seconds(told.common.ftLastAccessTime) = rstat.atime
         /\ Joined(told.common.nFileSize) = rstat.length
    /\ told.kind = "handle" => Joined(told.nFileIndex) = rstat.path
=============================================================================
