---------------------------- MODULE MCListAndOpen ----------------------------
(* ListAndOpen with halves of five bits, and names with characters of one to *)
(* four octets, two of which have the code of the backslash in a half of     *)
(* their UTF-16.                                                             *)
EXTENDS ListAndOpen

\* a, é, U+305C, U+5C0F and the pair D83D DC5C
ShortNames == {<<97>>, <<233>>, <<97, 12380>>, <<23567, 97>>, <<55357, 56412>>}

\* As long as fits, too long, cut in the middle of a pair, with a backslash.
OddNames == {<<97, 98, 99>>, <<97, 98, 99, 100>>, <<97, 98, 55357, 56412>>, <<97, 92>>}

MCWalks == UNION {[1 .. n -> {convertWstringToUtf8(name) : name \in ShortNames}] : n \in 0 .. 2}

MCRStat(t, length, name) ==
    [atime |-> t, mtime |-> Half - 1 - t, length |-> length, type |-> 128 * (t % 2),
     path |-> Half * Half - 1 - length, name |-> convertWstringToUtf8(name)]

\* Every time, lengths and paths around the boundaries of their halves, and
\* every name.
MCRStats ==
    {MCRStat(t, Half, <<97>>) : t \in 0 .. Half - 1}
        \cup {MCRStat(17, length, <<97>>) :
                length \in {0, 1, Half - 1, Half + 1, 17 * Half, Half * Half - 1}}
        \cup {MCRStat(17, Half, name) : name \in ShortNames \cup OddNames}
=============================================================================
