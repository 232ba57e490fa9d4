----------------------------- MODULE CommandLine -----------------------------
(***************************************************************************)
(* Config.cpp and wmain of main.cpp: the command line becomes a            *)
(* Configuration, or an error, and the Configuration the options Dokan is  *)
(* given.                                                                  *)
(***************************************************************************)
EXTENDS Integers, Sequences

CONSTANTS
    CommandLines,   \* what may follow argv[0]: rows of words
    Words           \* the words that are no options

VARIABLES
    argv,           \* the words of the command line, argv[0] left out
    index,          \* i of scanCommandLine; current_index
    phase,          \* what wmain is doing
    configuration,  \* the Configuration being filled in
    options         \* DOKAN_OPTIONS

vars == <<argv, index, phase, configuration, options>>

-----------------------------------------------------------------------------

Flags == {"/REMDRV", "/NETDRV", "/C", "/DEBUG", "/X"}
doesOptionTakeArgument == {"/MOUNT", "/UNC", "/S", "/P", "/U"}
Options == Flags \cup doesOptionTakeArgument

ASSUME CommandLinesAssumption == CommandLines \subseteq Seq(Words \cup Options)

\* argv[argc] is a null pointer.
Null == "NULL"
Word(i) == IF i <= Len(argv) THEN argv[i] ELSE Null

\* The strings of a Configuration, by option, and its flags that are true;
\* thread_count and timeout_ms never change.
Configurations == [strings : [doesOptionTakeArgument -> Words \cup Options \cup {""}],
                   flags : SUBSET Flags]
Defaults == [strings |-> [o \in doesOptionTakeArgument |-> ""], flags |-> {}]

\* What wmain passes to DokanMain; NONE is a null string (dupWString).
NoOptions == [flags |-> {}, mountPoint |-> "NONE", uncName |-> "NONE"]

Init ==
    /\ argv \in CommandLines
    /\ index = 1 /\ phase = "scan"
    /\ configuration = Defaults
    /\ options = NoOptions

EvalFlag ==
    /\ Word(index) \in Flags
    /\ configuration' = [configuration EXCEPT !.flags = @ \cup {Word(index)}]
    /\ index' = index + 1
    /\ UNCHANGED phase

\* Mutant of EvalArgument: the argument is not skipped.
EvalArgumentStays ==
    /\ Word(index) \in doesOptionTakeArgument
    /\ IF index + 1 > Len(argv)
       THEN phase' = "error" /\ UNCHANGED <<configuration, index>>
       ELSE /\ configuration' =
                 [configuration EXCEPT !.strings[Word(index)] = Word(index + 1)]
            /\ index' = index + 1
            /\ UNCHANGED phase

\* Mutant of EvalArgument: > for >= in the comparison with argc.
EvalArgumentLate ==
    /\ Word(index) \in doesOptionTakeArgument
    /\ configuration' =
         [configuration EXCEPT !.strings[Word(index)] = Word(index + 1)]
    /\ index' = index + 2
    /\ UNCHANGED phase

EvalArgument ==
    /\ Word(index) \in doesOptionTakeArgument
    /\ IF index + 1 > Len(argv)
       THEN phase' = "error" /\ UNCHANGED <<configuration, index>>
       ELSE /\ configuration' =
                 [configuration EXCEPT !.strings[Word(index)] = Word(index + 1)]
            /\ index' = index + 2
            /\ UNCHANGED phase

EvalUnknown ==
    /\ Word(index) \notin Options
    /\ phase' = "error"
    /\ UNCHANGED <<index, configuration>>

\* One turn of the loop of scanCommandLine.
evalCommandLineOption ==
    /\ phase = "scan" /\ index <= Len(argv)
    /\ EvalFlag \/ EvalArgument \/ EvalUnknown
    /\ UNCHANGED <<argv, options>>

validateConfiguration ==
    /\ phase = "scan" /\ index > Len(argv)
    /\ phase' = IF configuration.strings["/S"] = "" \/ configuration.strings["/P"] = ""
                THEN "error" ELSE "configured"
    /\ UNCHANGED <<argv, index, configuration, options>>

DriveFlag(flags) ==
    CASE "/NETDRV" \in flags -> {"NETWORK"}
      [] "/NETDRV" \notin flags /\ "/REMDRV" \in flags -> {"REMOVABLE"}
      [] OTHER -> {"MOUNT_MANAGER"}

\* Mutant of buildDokanOptionsFlags: the volume is not write protected.
buildDokanOptionsFlagsWritable(flags) ==
    (IF "/DEBUG" \in flags THEN {"DEBUG", "STDERR"} ELSE {})
        \cup DriveFlag(flags)
        \cup (IF "/C" \in flags THEN {"CURRENT_SESSION"} ELSE {})

buildDokanOptionsFlags(flags) ==
    {"WRITE_PROTECT"}
        \cup (IF "/DEBUG" \in flags THEN {"DEBUG", "STDERR"} ELSE {})
        \cup DriveFlag(flags)
        \cup (IF "/C" \in flags THEN {"CURRENT_SESSION"} ELSE {})

dupWString(s) == IF s = "" THEN "NONE" ELSE s

\* The client is constructed with the host and the port, and DokanMain called,
\* or the constructor throws, which nothing catches.
buildDokanOptions ==
    /\ phase = "configured"
    /\ \/ /\ options' = [flags |-> buildDokanOptionsFlags(configuration.flags),
                         mountPoint |-> dupWString(configuration.strings["/MOUNT"]),
                         uncName |-> dupWString(configuration.strings["/UNC"])]
          /\ phase' = "mounted"
       \/ phase' = "terminated" /\ UNCHANGED options
    /\ UNCHANGED <<argv, index, configuration>>

Configure == evalCommandLineOption \/ validateConfiguration \/ buildDokanOptions

-----------------------------------------------------------------------------
(* Properties *)

\* Every string of the Configuration is one of the command line, none is the
\* null pointer after its end, and the loop ends at its end.
ConfigurationTypeOK ==
    /\ index \in 1 .. Len(argv) + 1
    /\ phase \in {"scan", "configured", "mounted", "error", "terminated"}
    /\ configuration \in Configurations

\* P is how the command line divides into options: P is the places of the
\* options, each of which is followed by the next, or by its argument.
Divides(P) ==
    \A i \in 1 .. Len(argv) :
        i \in P <=> i = 1 \/ (i - 1 \in P /\ argv[i - 1] \notin doesOptionTakeArgument)
                          \/ (i - 2 \in P /\ argv[i - 2] \in doesOptionTakeArgument)

\* The argument of the last o among the options at P.
Given(P, o) ==
    LET places == {i \in P : argv[i] = o} IN
    IF places = {} THEN "" ELSE argv[1 + CHOOSE i \in places : \A j \in places : j <= i]

WellFormed(P) ==
    /\ \A i \in P : argv[i] \in Options
    /\ \A i \in P : argv[i] \in doesOptionTakeArgument => i < Len(argv)
    /\ Given(P, "/S") # "" /\ Given(P, "/P") # ""

\* wmain goes on if and only if the whole command line is well formed, and
\* then with the last argument of each option and with every flag: no argument
\* is taken for an option or an option for an argument (evalCommandLineOption
\* moves the index of the loop it is called from).
ConfiguredAsGiven ==
    \A P \in SUBSET (1 .. Len(argv)) :
        Divides(P) =>
            /\ phase \in {"configured", "mounted"} =>
                 /\ WellFormed(P)
                 /\ \A o \in doesOptionTakeArgument : configuration.strings[o] = Given(P, o)
                 /\ configuration.flags = {argv[i] : i \in P} \cap Flags
            /\ phase = "error" => ~WellFormed(P)
=============================================================================
