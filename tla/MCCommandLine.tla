---------------------------- MODULE MCCommandLine ----------------------------
(* Command lines for TLC. *)
EXTENDS VolumeRequests

MCWords == {"host", "/BAD", ""}
AllWords == MCWords \cup Options

Rows(words, n) == UNION {[1 .. k -> words] : k \in 0 .. n}

\* Every command line of up to three words, every one of four words that can
\* be a mount, and up to two words more after the mandatory options.
Complete == <<"/S", "host", "/P", "564">>
Scanned ==
    Rows(AllWords, 3)
        \cup Rows({"/S", "/P", "host", "/X", ""}, 5)
        \cup {Complete \o row : row \in Rows(AllWords, 3)}

\* Command lines that mount, with every set of flags of the drive.
Mounting == {Complete \o row : row \in Rows(Flags \cup {"/U", "/MOUNT", "host"}, 2)}

MCCommandLines == Scanned \cup Mounting
=============================================================================
