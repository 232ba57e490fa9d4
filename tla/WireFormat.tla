----------------------------- MODULE WireFormat -----------------------------
(***************************************************************************)
(* Integers and strings as octets, the least significant octet first.      *)
(* TxMessage writes them and MessageReader reads them.                     *)
(***************************************************************************)
EXTENDS Integers, Sequences

CONSTANTS
    Radix,      \* number of values of an octet (256)
    Width       \* octets of each kind of integer (u8, u16, u32, u64)

Kinds == {"u8", "u16", "u32", "u64"}

ASSUME RadixAssumption == Radix \in Nat /\ Radix > 1
ASSUME WidthsAssumption == Width \in [Kinds -> Nat \ {0}]

Octets == 0 .. Radix - 1

\* Shift[i] is one, shifted left by i octets.
Shift[i \in Nat] == IF i = 0 THEN 1 ELSE Radix * Shift[i - 1]

\* Mutant of LittleEndian: the bits shifted in are not masked.
LittleEndianUnmasked(v, w) == [i \in 1 .. w |-> v \div Shift[i - 1]]

\* writeLowEndianInteger: an integer whose type has w octets.
LittleEndian(v, w) == [i \in 1 .. w |-> (v \div Shift[i - 1]) % Radix]

\* An octet as a char, which is signed: the upper half is negative.
Char(o) == IF 2 * o < Radix THEN o ELSE o - Radix

\* buffer[i] & 0xff
Byte(o) == Char(o) % Radix

\* Mutant of LowEndianValue: no char is masked, and its sign is extended to
\* the width of the integer.
LowEndianValueUnmasked(s) ==
    LET value[i \in 0 .. Len(s)] ==
            IF i = 0 THEN 0 ELSE value[i - 1] + Char(s[i]) * Shift[i - 1]
    IN  value[Len(s)] % Shift[Len(s)]

\* parseInteger: the integer whose octets are s.
LowEndianValue(s) ==
    LET value[i \in 0 .. Len(s)] ==
            IF i = 0 THEN 0 ELSE value[i - 1] + Byte(s[i]) * Shift[i - 1]
    IN  value[Len(s)]

\* What an integer of a kind can hold.
Limit(kind) == Shift[Width[kind]]
=============================================================================
