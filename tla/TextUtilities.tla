---------------------------- MODULE TextUtilities ----------------------------
(***************************************************************************)
(* utils/TextUtilities.cpp: the conversions between the UTF-16 of Windows  *)
(* and the UTF-8 of 9P, and the split of a path into the names of a TWalk. *)
(* The split is a state machine of its own, one step per name.             *)
(***************************************************************************)
EXTENDS Integers, SequencesExt

Delim == 92     \* the backslash

-----------------------------------------------------------------------------
(* MultiByteToWideChar and WideCharToMultiByte for CP_UTF8 (external).     *)

\* The values of a wchar_t.
WCHAR_MAX == 65535
Units == 0 .. WCHAR_MAX

High(u) == u \in 55296 .. 56319
Low(u) == u \in 56320 .. 57343

\* The characters a name can have: no half of a pair is one, and 9P2000 leaves
\* out U+0000, at which wcsncpy_s would stop.
Scalars == {c \in Nat \ {0} : c < 1114112 /\ ~High(c) /\ ~Low(c)}

\* The character of two halves.
Pair(hi, lo) == 65536 + (hi - 55296) * 1024 + (lo - 56320)

\* A UTF-16 unit behind some characters: a pair of surrogates is one.
AddUnit(chars, u) ==
    IF Low(u) /\ chars # <<>> /\ High(Last(chars))
    THEN [chars EXCEPT ![Len(chars)] = Pair(@, u)]
    ELSE Append(chars, u)

Utf16Characters(units) == FoldLeft(AddUnit, <<>>, units)

Utf16(char) ==
    IF char < 65536 THEN <<char>>
    ELSE <<55296 + (char - 65536) \div 1024, 56320 + (char % 1024)>>

\* The six bits of a character that its octet number n from the last one holds.
Tail6(char, n) == 128 + ((char \div 64 ^ n) % 64)

Utf8(char) ==
    CASE char < 128 -> <<char>>
      [] char > 127 /\ char < 2048 -> <<192 + char \div 64, Tail6(char, 0)>>
      [] High(char) \/ Low(char) -> <<239, 191, 189>>   \* half a pair: U+FFFD
      [] char \in 2048 .. WCHAR_MAX /\ ~High(char) /\ ~Low(char) ->
           <<224 + char \div 4096, Tail6(char, 1), Tail6(char, 0)>>
      [] char > WCHAR_MAX ->
           <<240 + char \div 262144, Tail6(char, 2), Tail6(char, 1), Tail6(char, 0)>>

\* The characters of well-formed octets: six bits more with each that continues.
Utf8Characters(octets) ==
    LET add(chars, o) ==
            CASE o < 128 -> Append(chars, o)
              [] o \in 128 .. 191 -> [chars EXCEPT ![Len(chars)] = 64 * @ + o - 128]
              [] o \in 192 .. 223 -> Append(chars, o - 192)
              [] o \in 224 .. 239 -> Append(chars, o - 224)
              [] o > 239 -> Append(chars, o - 240)
    IN  FoldLeft(add, <<>>, octets)

convertUtf8ToWstring(str) == FlattenSeq([i \in DOMAIN Utf8Characters(str) |->
                                            Utf16(Utf8Characters(str)[i])])

convertWstringToUtf8(wstr) == FlattenSeq([i \in DOMAIN Utf16Characters(wstr) |->
                                            Utf8(Utf16Characters(wstr)[i])])

\* Mutant of copyUtf8StringToWcharArr: no room is kept for the terminator.
copyUtf8StringToWcharArrFull(str, warr_size) ==
    LET wname == convertUtf8ToWstring(str)
    IN  IF Len(wname) <= warr_size THEN wname ELSE SubSeq(wname, 1, warr_size)

\* Room is kept for the terminator; a longer name is cut.
copyUtf8StringToWcharArr(str, warr_size) ==
    LET wname == convertUtf8ToWstring(str)
    IN  IF Len(wname) <= warr_size - 1 THEN wname ELSE SubSeq(wname, 1, warr_size - 1)

-----------------------------------------------------------------------------
(* splitToPathComponents                                                   *)

VARIABLES
    path,           \* str, the path that is split
    start,          \* where in the path the next component begins
    path_components,
    returned

splitVars == <<path, start, path_components, returned>>

\* str.find(delim, start) is end.
Finds(end) ==
    /\ end \in start .. Len(path)
    /\ path[end] = Delim
    /\ \A i \in start .. end - 1 : path[i] # Delim

FindsNone == \A i \in start .. Len(path) : path[i] # Delim

\* Mutant of Pushed: an empty component is kept.
PushedAlways(component) == Append(path_components, component)

\* The components, with one more unless it is empty.
Pushed(component) ==
    IF component = <<>> THEN path_components ELSE Append(path_components, component)

splitToPathComponents(str) ==
    /\ returned
    /\ path' = str /\ start' = 1 /\ path_components' = <<>> /\ returned' = FALSE

NextComponent ==
    \E end \in start .. Len(path) :
        /\ ~returned /\ Finds(end)
        /\ path_components' = Pushed(SubSeq(path, start, end - 1))
        /\ start' = end + 1
        /\ UNCHANGED <<path, returned>>

\* Mutant of LastComponent: what follows the last delimiter is dropped.
LastComponentDropped ==
    /\ ~returned /\ FindsNone
    /\ returned' = TRUE
    /\ UNCHANGED <<path, start, path_components>>

LastComponent ==
    /\ ~returned /\ FindsNone
    /\ path_components' = Pushed(SubSeq(path, start, Len(path)))
    /\ returned' = TRUE
    /\ UNCHANGED <<path, start>>

SplitStep == NextComponent \/ LastComponent

-----------------------------------------------------------------------------
(* Properties *)

Octets == Seq(0 .. 255)

\* str.substr(start) never throws: start is at most one past the end.
SplitTypeOK ==
    /\ path \in Octets
    /\ start \in 1 .. Len(path) + 1
    /\ path_components \in Seq(Octets)
    /\ returned \in BOOLEAN

\* However the backslashes of a path lie, a TWalk has no empty name, which a
\* server would refuse, and no name with a backslash left in it
\* (splitToPathComponents).
NamesAreWhole ==
    \A i \in DOMAIN path_components :
        /\ path_components[i] # <<>>
        /\ \A j \in DOMAIN path_components[i] : path_components[i][j] # Delim
=============================================================================
