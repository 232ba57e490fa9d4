----------------------------- MODULE ListAndOpen -----------------------------
(***************************************************************************)
(* A user lists a directory and asks for a file the listing has shown: the *)
(* path goes through splitToPathComponents to the server, the server's     *)
(* stat through fillFindDataWithRStat or fillByHandleFileInformation to    *)
(* Windows, and the name in it through the user back into a path.          *)
(***************************************************************************)
EXTENDS FileInformation

CONSTANTS
    Walks,      \* the names along the path of a directory, as at the server
    Gaps        \* numbers of backslashes a user may write between two names

ASSUME GapsAssumption == Gaps \subseteq Nat \ {0}

VARIABLES
    walk,       \* the directory's names; rstat is of a file in it
    asked       \* what the path a callback was last given stands for

vars == <<rstat, told, splitVars, walk, asked>>

\* The names in front of the server when the path is walked.
Meant == CASE asked = "nothing" -> <<>>
           [] asked = "directory" -> walk
           [] asked = "file" -> Append(walk, rstat.name)

\* The path of names, gap backslashes before each and trail at the end.
JoinedPath(names, gap, trail) ==
    FlattenSeq([i \in DOMAIN names |-> [j \in 1 .. gap |-> Delim] \o names[i]])
        \o [j \in 1 .. trail |-> Delim]

\* The names as listings show them.
Shown(names) == [i \in DOMAIN names |-> copyUtf8StringToWcharArr(names[i], NameSize)]

\* The strings doWalk splits when the user joins the names shown; the root's
\* path is one backslash at least.
Paths(shown) ==
    {convertWstringToUtf8(JoinedPath(shown, gap, trail)) :
        gap \in Gaps, trail \in IF shown = <<>> THEN Gaps ELSE Gaps \cup {0}}

\* The octets are the UTF-8 of some characters.
IsUtf8(octets) ==
    LET chars == Utf8Characters(octets)
    IN  chars \in Seq(Scalars) /\ octets = FlattenSeq([i \in DOMAIN chars |-> Utf8(chars[i])])

\* Names at a server are UTF-8, as 9P2000 has all strings.
ASSUME Utf8Assumption ==
    /\ \A names \in Walks :
         names \in Seq(Octets) /\ \A i \in DOMAIN names : IsUtf8(names[i])
    /\ \A s \in RStats : IsUtf8(s.name)

-----------------------------------------------------------------------------

Init ==
    /\ rstat \in RStats /\ walk \in Walks
    /\ told = NotTold /\ asked = "nothing"
    /\ path = <<>> /\ start = 1 /\ path_components = <<>> /\ returned = TRUE

\* ninepfs_findfiles is called for the directory.
FindFiles ==
    /\ asked = "nothing"
    /\ \E str \in Paths(Shown(walk)) : splitToPathComponents(str)
    /\ asked' = "directory"
    /\ UNCHANGED <<rstat, told, walk>>

\* doWalk has split the path.
Split == SplitStep /\ UNCHANGED <<rstat, told, walk, asked>>

\* The walk is to the directory: its entries are told, the file among them.
FindFilesReturns ==
    /\ asked = "directory" /\ returned /\ path_components = Meant
    /\ told = NotTold
    /\ fillFindDataWithRStat
    /\ UNCHANGED <<splitVars, walk, asked>>

\* ninepfs_getfileInformation is called for the file, by the name it was shown.
GetFileInformation ==
    /\ asked = "directory" /\ told.kind = "find"
    /\ \E str \in Paths(Append(Shown(walk), told.cFileName)) : splitToPathComponents(str)
    /\ asked' = "file"
    /\ UNCHANGED <<rstat, told, walk>>

GetFileInformationReturns ==
    /\ asked = "file" /\ returned /\ path_components = Meant
    /\ told.kind = "find"
    /\ fillByHandleFileInformation
    /\ UNCHANGED <<splitVars, walk, asked>>

\* The file's information has been told, or the server knows no such name.
Ended ==
    /\ returned /\ asked # "nothing"
    /\ told.kind = "handle" \/ path_components # Meant
    /\ UNCHANGED vars

Next ==
    \/ FindFiles \/ Split \/ FindFilesReturns
    \/ GetFileInformation \/ GetFileInformationReturns
    \/ Ended

Spec == Init /\ [][Next]_vars

-----------------------------------------------------------------------------
(* Properties *)

\* Every half of a 64-bit value fits its DWORD, every name its array, and the
\* split stays within its path.
TypeOK ==
    /\ ToldTypeOK /\ SplitTypeOK
    /\ walk \in Walks
    /\ asked \in {"nothing", "directory", "file"}

\* A name that a listing shows in full, and that is one name to Windows.
Nameable(name) ==
    /\ Len(convertUtf8ToWstring(name)) < NameSize
    /\ name # <<>> /\ \A i \in DOMAIN name : name[i] # Delim

\* What a listing shows can be opened: the names of a walk are, octet for
\* octet, those of the server, through two conversions, a copy, the user's
\* joining and a search for single octets among the several octets of a
\* character (copyUtf8StringToWcharArr, convertWstringToUtf8,
\* splitToPathComponents).  A name of MAX_PATH characters or more is cut, and
\* one with a backslash is two names.
ListedNamesOpen ==
    returned /\ (\A i \in DOMAIN Meant : Nameable(Meant[i])) => path_components = Meant
=============================================================================
