------------------------------ MODULE FileMode ------------------------------
(* protocol/FileMode.cpp: how a file is opened, as one octet of a TOpen. *)
EXTENDS Integers

Access == <<"Read", "Write", "ReadWrite", "Execute">>

OTRUNC == 16
ORCLOSE == 64

encodeFileModeAccess(access) == (CHOOSE i \in DOMAIN Access : Access[i] = access) - 1

decodeFileModeAccess(value) == Access[(value % 4) + 1]

Flag(set, bit) == IF set THEN bit ELSE 0

\* The bits of the three parts are apart, so that adding them is or-ing them.
encode(mode) ==
    encodeFileModeAccess(mode.access)
        + Flag(mode.truncate, OTRUNC) + Flag(mode.remove_on_close, ORCLOSE)

decode(value) ==
    [access |-> decodeFileModeAccess(value),
     truncate |-> (value \div OTRUNC) % 2 = 1,
     remove_on_close |-> (value \div ORCLOSE) % 2 = 1]
=============================================================================
