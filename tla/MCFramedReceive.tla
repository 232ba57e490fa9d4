--------------------------- MODULE MCFramedReceive ---------------------------
(* Instances of FramedReceive for TLC. *)
EXTENDS FramedReceive

\* An octet has five bits, and half of its values are negative as chars; the
\* length of a message is two octets.
MCWidth == [u8 |-> 1, u16 |-> 1, u32 |-> 2, u64 |-> 1]

\* A file of the given length, with a name that has octets of the upper half.
FileStat(len) ==
    <<1, 2, 0, 3, 4, 5, 40, 41, len, <<20, 31>>, <<>>, <<>>, <<7>> >>

Version == [Parsed("RVersion") EXCEPT !.n = 20, !.text = <<9, 16>>]
Error == [Parsed("RError") EXCEPT !.text = <<31>>]
Walk == [Parsed("RWalk") EXCEPT !.n = 1]
Read == [Parsed("RRead") EXCEPT !.data = <<30, 1, 17>>]
StatReply == [Parsed("RStat") EXCEPT !.stats = <<FileStat(21)>>]
Clunk == Parsed("RClunk")
Open == Parsed("ROpen")

\* A directory with a field of the server's own at the end of an entry, of so
\* many octets that the frame's length needs two.
Entries == <<[stat |-> FileStat(30), extra |-> <<6, 28, 6, 0, 17>>]>>
Directory == [Parsed("RRead") EXCEPT !.data = DirectoryData(Entries)]
MCDirectories == {Entries}

TextMessages == {Version, Error}
AllMessages == TextMessages \cup {Walk, Read, StatReply, Clunk, Open, Directory}
=============================================================================
