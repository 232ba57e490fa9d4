----------------------------- MODULE MCTxMessage -----------------------------
(* An instance of TxMessage for TLC: an octet has seven bits, as a file
   mode needs, and the widths are those of MCFramedReceive. *)
EXTENDS TxMessage

MCWidth == [u8 |-> 1, u16 |-> 1, u32 |-> 2, u64 |-> 1]

Text(n, octet) == [i \in 1 .. n |-> octet]

Root == <<0, 1, 2, 3, 4, 5, 600, 700, 8, <<20, 127>>, <<1>>, <<>>, <<7>> >>

\* Messages of each build function, a path that does not fit the buffer
\* and a name that does not.
MCRequests == {
    [type |-> "TVersion", args |-> <<31, 16383, Text(6, 9)>>],
    [type |-> "TAuth", args |-> <<1, 16383, Text(3, 17), <<>> >>],
    [type |-> "TAttach", args |-> <<2, 1, 16383, Text(3, 17), Text(2, 30)>>],
    [type |-> "TFlush", args |-> <<3, 2>>],
    [type |-> "TWalk", args |-> <<3, 1, 33, <<>> >>],
    [type |-> "TWalk", args |-> <<4, 1, 34, <<Text(2, 5), Text(12, 127)>> >>],
    [type |-> "TWalk", args |-> <<5, 1, 35, <<Text(20, 5), Text(20, 6)>> >>],
    [type |-> "TWalk", args |-> <<6, 1, 36, <<Text(31, 8)>> >>],
    [type |-> "TCreate", args |-> <<8, 33, Text(1, 3), 1000, 1>>],
    [type |-> "TRead", args |-> <<9, 33, 31, 16383>>],
    [type |-> "TWrite", args |-> <<10, 33, 0, Text(4, 31)>>],
    [type |-> "TClunk", args |-> <<11, 34>>],
    [type |-> "TRemove", args |-> <<12, 35>>],
    [type |-> "TStat", args |-> <<13, 1000>>],
    [type |-> "TWStat", args |-> <<14, 33, Root>>]}
    \cup {[type |-> "TOpen", args |-> <<7, 33, mode>>] : mode \in FileModes}
=============================================================================
