------------------------- MODULE CommandLineProofs -------------------------
(***************************************************************************)
(* Theorems about every command line, of any length and any words: how it  *)
(* is scanned (Config.cpp), what Dokan is then given (main.cpp), and what  *)
(* an application is told of a change it asks for (9pfs_operations.cpp).   *)
(***************************************************************************)
EXTENDS VolumeRequests, DataInduction

-----------------------------------------------------------------------------
(* Types *)

Types ==
    /\ argv \in Seq(Words \cup Options)
    /\ ConfigurationTypeOK

\* The words of a command line.
LEMMA WordType ==
  ASSUME argv \in Seq(Words \cup Options), NEW i \in 1 .. Len(argv)
  PROVE  argv[i] \in Words \cup Options /\ Word(i) = argv[i]
  BY DEF Word

\* A step keeps the types.
LEMMA ConfigureKeepsTypes ==
  ASSUME Types, Configure \/ UNCHANGED vars
  PROVE  Types'
  <1>types. /\ argv \in Seq(Words \cup Options) /\ Len(argv) \in Nat
            /\ index \in 1 .. Len(argv) + 1
            /\ configuration \in Configurations
    BY DEF Types, ConfigurationTypeOK
  <1>1. ASSUME evalCommandLineOption PROVE Types'
    <2>1. /\ index \in 1 .. Len(argv) /\ phase = "scan"
          /\ UNCHANGED argv
      BY <1>1, <1>types DEF evalCommandLineOption
    <2>2. Word(index) = argv[index]
      BY <1>types, <2>1, WordType
    <2>3. CASE EvalFlag
      <3>1. /\ configuration' = [configuration EXCEPT !.flags = @ \cup {Word(index)}]
            /\ Word(index) \in Flags /\ index' = index + 1 /\ UNCHANGED phase
        BY <2>3 DEF EvalFlag
      <3>2. configuration' \in Configurations
        BY <1>types, <3>1 DEF Configurations
      <3> QED BY <1>types, <2>1, <3>1, <3>2 DEF Types, ConfigurationTypeOK
    <2>4. CASE EvalArgument
      <3>1. CASE index + 1 > Len(argv)
        BY <1>types, <2>1, <2>4, <3>1 DEF EvalArgument, Types, ConfigurationTypeOK
      <3>2. CASE index + 1 <= Len(argv)
        <4>1. Word(index + 1) \in Words \cup Options
          BY <1>types, <2>1, <3>2, WordType
        <4>2. /\ configuration' =
                   [configuration EXCEPT !.strings[Word(index)] = Word(index + 1)]
              /\ index' = index + 2 /\ UNCHANGED phase
          BY <1>types, <2>1, <2>4, <3>2 DEF EvalArgument
        <4>3. configuration' \in Configurations
          BY <1>types, <4>1, <4>2 DEF Configurations
        <4> QED
          BY <1>types, <2>1, <3>2, <4>2, <4>3 DEF Types, ConfigurationTypeOK
      <3> QED BY <1>types, <2>1, <3>1, <3>2
    <2>5. CASE EvalUnknown
      BY <1>types, <2>1, <2>5 DEF EvalUnknown, Types, ConfigurationTypeOK
    <2> QED BY <1>1, <2>3, <2>4, <2>5 DEF evalCommandLineOption
  <1>2. CASE validateConfiguration
    BY <1>types, <1>2 DEF validateConfiguration, Types, ConfigurationTypeOK
  <1>3. CASE buildDokanOptions
    BY <1>types, <1>3 DEF buildDokanOptions, Types, ConfigurationTypeOK
  <1>4. CASE UNCHANGED vars
    BY <1>4 DEF vars, Types, ConfigurationTypeOK
  <1> QED BY <1>1, <1>2, <1>3, <1>4 DEF Configure

\* The initial types.
LEMMA InitTypes == Init => Types
  <1> SUFFICES ASSUME Init PROVE Types
    OBVIOUS
  <1>1. argv \in Seq(Words \cup Options) /\ Len(argv) \in Nat
    BY CommandLinesAssumption DEF Init
  <1>2. Defaults \in Configurations
    BY DEF Defaults, Configurations
  <1> QED BY <1>1, <1>2 DEF Init, Types, ConfigurationTypeOK

\* The requests of an application leave all this alone.
LEMMA VolumeStepsConfigure ==
  ASSUME [VolumeNext]_<<vars, told>>
  PROVE  Configure \/ UNCHANGED vars
  BY DEF VolumeNext, Ask, Change, Ended

\* Words, index and Configuration are well typed throughout.
LEMMA TypesAlways == VolumeSpec => []Types
  <1>1. VolumeInit => Types
    BY InitTypes DEF VolumeInit
  <1>2. Types /\ [VolumeNext]_<<vars, told>> => Types'
    BY ConfigureKeepsTypes, VolumeStepsConfigure
  <1> QED BY <1>1, <1>2, PTL DEF VolumeSpec

\* Every string of the Configuration is a word of the command line, never the
\* null pointer after it, and the loop of scanCommandLine ends at its end.
THEOREM ConfigurationTypeCorrect == VolumeSpec => []ConfigurationTypeOK
  <1>1. Types => ConfigurationTypeOK
    BY DEF Types
  <1> QED BY <1>1, TypesAlways, PTL

-----------------------------------------------------------------------------
(* The scan *)

\* The string s is the argument of the last o among the options at P before
\* place n, or empty if there is none.
LastGiven(P, o, n, s) ==
    \/ s = "" /\ \A j \in P : j < n => argv[j] # o
    \/ \E i \in P : /\ i < n /\ argv[i] = o /\ s = argv[i + 1]
                    /\ \A j \in P : j < n /\ argv[j] = o => j <= i

\* The Configuration has what is given before place n.
TakenIn(P, n) ==
    /\ \A o \in doesOptionTakeArgument : LastGiven(P, o, n, configuration.strings[o])
    /\ \A f : f \in configuration.flags <=> f \in Flags /\ \E i \in P : i < n /\ argv[i] = f

\* The options at P before place n are known, and so is the place of the
\* argument of each that takes one.
KnownBefore(P, n) ==
    \A i \in P : i < n => /\ argv[i] \in Options
                          /\ argv[i] \in doesOptionTakeArgument => i + 1 < n

\* The index of the loop is always that of an option: what it has passed is
\* known and taken in.
InScan(P) ==
    /\ phase = "scan" =>
         /\ KnownBefore(P, index)
         /\ index <= Len(argv) => index \in P
    /\ phase \in {"configured", "mounted"} => KnownBefore(P, Len(argv) + 1)
    /\ phase \in {"scan", "configured", "mounted"} => TakenIn(P, index)
    /\ phase \in {"configured", "mounted"} =>
         /\ index = Len(argv) + 1
         /\ configuration.strings["/S"] # "" /\ configuration.strings["/P"] # ""
    /\ phase = "error" => ~WellFormed(P)

ScanInv ==
    /\ Types
    /\ \A P \in SUBSET (1 .. Len(argv)) : Divides(P) => InScan(P)

\* The last place is the one that Given chooses.
LEMMA GivenIsLast ==
  ASSUME argv \in Seq(Words \cup Options), NEW P \in SUBSET (1 .. Len(argv)),
         NEW o, NEW s, LastGiven(P, o, Len(argv) + 1, s)
  PROVE  s = Given(P, o)
  <1> DEFINE places == {i \in P : argv[i] = o}
  <1>1. \A j \in P : j < Len(argv) + 1 /\ j \in Nat
    OBVIOUS
  <1>2. CASE s = "" /\ \A j \in P : j < Len(argv) + 1 => argv[j] # o
    <2>1. places = {}
      BY <1>1, <1>2
    <2> QED BY <1>2, <2>1 DEF Given
  <1>3. ASSUME NEW i \in P, argv[i] = o, s = argv[i + 1],
               \A j \in P : j < Len(argv) + 1 /\ argv[j] = o => j <= i
        PROVE  s = Given(P, o)
    <2>1. i \in places /\ \A j \in places : j <= i
      BY <1>1, <1>3
    <2> DEFINE last == CHOOSE k \in places : \A j \in places : j <= k
    <2>2. last \in places /\ \A j \in places : j <= last
      BY <2>1
    <2>3. last = i
      <3> HIDE DEF last
      <3>1. last \in P /\ last <= i /\ i <= last
        BY <2>1, <2>2
      <3>2. last \in Nat /\ i \in Nat
        BY <1>1, <3>1
      <3> QED BY <3>1, <3>2
    <2>4. Given(P, o) = argv[1 + last]
      BY <2>1 DEF Given
    <2>5. 1 + i = i + 1
      BY <1>1
    <2> HIDE DEF last
    <2> QED BY <1>3, <2>3, <2>4, <2>5, Zenon
  <1> QED BY <1>2, <1>3 DEF LastGiven

\* What is taken in at the end of the scan is what the command line gives.
LEMMA AllTakenIn ==
  ASSUME Types, NEW P \in SUBSET (1 .. Len(argv)), TakenIn(P, Len(argv) + 1)
  PROVE  /\ \A o \in doesOptionTakeArgument : configuration.strings[o] = Given(P, o)
         /\ configuration.flags = {argv[i] : i \in P} \cap Flags
  <1>1. argv \in Seq(Words \cup Options)
    BY DEF Types
  <1>2. \A o \in doesOptionTakeArgument : configuration.strings[o] = Given(P, o)
    BY <1>1, GivenIsLast DEF TakenIn
  <1>3. \A i \in P : i < Len(argv) + 1
    BY <1>1
  <1>4. configuration.flags = {argv[i] : i \in P} \cap Flags
    BY <1>3 DEF TakenIn
  <1> QED BY <1>2, <1>4

\* The scan passes one more place, that of an option.
LEMMA PassOption ==
  ASSUME Types, NEW P \in SUBSET (1 .. Len(argv)), Divides(P),
         index \in P, KnownBefore(P, index), argv[index] \in Options,
         NEW n \in {index + 1, index + 2},
         n = index + 2 <=> argv[index] \in doesOptionTakeArgument
  PROVE  /\ \A j \in P : j < n <=> j < index \/ j = index
         /\ KnownBefore(P, n)
         /\ n <= Len(argv) => n \in P
  <1>1. /\ Len(argv) \in Nat /\ index \in 1 .. Len(argv)
        /\ \A j \in P : j \in 1 .. Len(argv)
    BY DEF Types
  <1>2. index + 1 \in P => argv[index] \notin doesOptionTakeArgument
    <2> SUFFICES ASSUME index + 1 \in P, argv[index] \in doesOptionTakeArgument PROVE FALSE
      OBVIOUS
    <2>1. \/ index + 1 = 1
          \/ index + 1 - 1 \in P /\ argv[index + 1 - 1] \notin doesOptionTakeArgument
          \/ index + 1 - 2 \in P /\ argv[index + 1 - 2] \in doesOptionTakeArgument
      BY <1>1 DEF Divides
    <2>2. index + 1 # 1 /\ index + 1 - 1 = index /\ index + 1 - 2 = index - 1
      BY <1>1
    <2>3. index - 1 \in P /\ argv[index - 1] \in doesOptionTakeArgument
      BY <2>1, <2>2
    <2> QED BY <1>1, <2>3 DEF KnownBefore
  <1>3. \A j \in P : j < n <=> j < index \/ j = index
    BY <1>1, <1>2
  <1>4. KnownBefore(P, n)
    BY <1>1, <1>3 DEF KnownBefore
  <1>5. ASSUME n <= Len(argv) PROVE n \in P
    <2>1. n \in 1 .. Len(argv) /\ index + 1 - 1 = index /\ index + 2 - 2 = index
      BY <1>1, <1>5
    <2>2. CASE n = index + 1
      <3>1. index + 1 # index + 2
        BY <1>1
      <3> QED BY <2>1, <2>2, <3>1 DEF Divides
    <2>3. CASE n = index + 2
      BY <2>1, <2>3 DEF Divides
    <2> QED BY <2>2, <2>3
  <1> QED BY <1>3, <1>4, <1>5

\* Passing a flag takes it in.
LEMMA FlagTakenIn ==
  ASSUME Types, NEW P \in SUBSET (1 .. Len(argv)), index \in P, TakenIn(P, index),
         argv[index] \in Flags, UNCHANGED argv,
         configuration' = [configuration EXCEPT !.flags = @ \cup {argv[index]}],
         NEW n, n = index + 1, \A j \in P : j < n <=> j < index \/ j = index
  PROVE  TakenIn(P, n)'
  <1>1. configuration \in Configurations
    BY DEF Types, ConfigurationTypeOK
  <1>2. /\ configuration'.strings = configuration.strings
        /\ configuration'.flags = configuration.flags \cup {argv[index]}
    BY <1>1 DEF Configurations
  <1>3. argv[index] \notin doesOptionTakeArgument
    BY DEF Flags, doesOptionTakeArgument
  <1>4. ASSUME NEW o \in doesOptionTakeArgument
        PROVE  LastGiven(P, o, n, configuration.strings[o])'
    <2>s. PICK s : s = configuration.strings[o]
      OBVIOUS
    <2>1. LastGiven(P, o, index, s)
      BY <2>s DEF TakenIn
    <2>2. argv[index] # o
      BY <1>3
    <2>3. LastGiven(P, o, n, s)
      <3>1. CASE s = "" /\ \A j \in P : j < index => argv[j] # o
        <4>1. \A j \in P : j < n => argv[j] # o
          BY <2>2, <3>1, Zenon
        <4> QED BY <3>1, <4>1, Zenon DEF LastGiven
      <3>2. ASSUME NEW i \in P, i < index, argv[i] = o, s = argv[i + 1],
                   \A j \in P : j < index /\ argv[j] = o => j <= i
            PROVE  LastGiven(P, o, n, s)
        <4>1. i < n
          BY <3>2, Zenon
        <4>2. \A j \in P : j < n /\ argv[j] = o => j <= i
          BY <2>2, <3>2, Zenon
        <4> QED BY <3>2, <4>1, <4>2, Zenon DEF LastGiven
      <3> QED BY <2>1, <3>1, <3>2, Zenon DEF LastGiven
    <2>4. s = configuration'.strings[o] /\ argv' = argv
      BY <1>2, <2>s
    <2> QED BY <2>3, <2>4 DEF LastGiven
  <1>5. ASSUME NEW f
        PROVE  f \in configuration'.flags <=> f \in Flags /\ \E i \in P : i < n /\ argv[i] = f
    BY <1>2 DEF TakenIn
  <1> QED BY <1>4, <1>5 DEF TakenIn

\* Passing an option and its argument takes the argument in, in place of an
\* earlier one.
LEMMA ArgumentTakenIn ==
  ASSUME Types, NEW P \in SUBSET (1 .. Len(argv)), index \in P, TakenIn(P, index),
         argv[index] \in doesOptionTakeArgument, UNCHANGED argv,
         configuration' = [configuration EXCEPT !.strings[argv[index]] = argv[index + 1]],
         NEW n, n = index + 2, \A j \in P : j < n <=> j < index \/ j = index
  PROVE  TakenIn(P, n)'
  <1>1. configuration \in Configurations
    BY DEF Types, ConfigurationTypeOK
  <1>2. /\ configuration'.flags = configuration.flags
        /\ \A o \in doesOptionTakeArgument :
             configuration'.strings[o] = IF o = argv[index] THEN argv[index + 1]
                                         ELSE configuration.strings[o]
    BY <1>1 DEF Configurations
  <1>3. argv[index] \notin Flags
    BY DEF Flags, doesOptionTakeArgument
  <1>4. index \in Nat /\ \A j \in P : j \in Nat
    BY DEF Types
  <1>5. ASSUME NEW o \in doesOptionTakeArgument
        PROVE  LastGiven(P, o, n, configuration.strings[o])'
    <2>1. LastGiven(P, o, index, configuration.strings[o])
      BY DEF TakenIn
    <2>2. CASE o = argv[index]
      <3>1. \A j \in P : j < n => j <= index
        BY <1>4
      <3>2. index < n /\ configuration'.strings[o] = argv[index + 1]
        BY <1>2, <1>4, <2>2
      <3> QED BY <2>2, <3>1, <3>2 DEF LastGiven
    <2>3. CASE o # argv[index]
      BY <1>2, <2>1, <2>3 DEF LastGiven
    <2> QED BY <2>2, <2>3
  <1>6. ASSUME NEW f
        PROVE  f \in configuration'.flags <=> f \in Flags /\ \E i \in P : i < n /\ argv[i] = f
    BY <1>2, <1>3 DEF TakenIn
  <1> QED BY <1>5, <1>6 DEF TakenIn

\* Every step keeps to the way the command line divides.
LEMMA ConfigureInScan ==
  ASSUME Types, Types', NEW P \in SUBSET (1 .. Len(argv)), Divides(P), InScan(P),
         Configure \/ UNCHANGED vars
  PROVE  InScan(P)'
  <1>types. /\ argv \in Seq(Words \cup Options) /\ Len(argv) \in Nat
            /\ index \in 1 .. Len(argv) + 1
    BY DEF Types, ConfigurationTypeOK
  <1>1. ASSUME evalCommandLineOption PROVE InScan(P)'
    <2>1. /\ index \in 1 .. Len(argv) /\ phase = "scan" /\ UNCHANGED argv
          /\ EvalFlag \/ EvalArgument \/ EvalUnknown
      BY <1>1, <1>types DEF evalCommandLineOption
    <2>2. Word(index) = argv[index]
      BY <1>types, <2>1, WordType
    <2>3. index \in P /\ KnownBefore(P, index) /\ TakenIn(P, index)
      BY <1>types, <2>1 DEF InScan
    <2>4. CASE EvalFlag
      <3>1. /\ argv[index] \in Flags /\ index' = index + 1 /\ phase' = "scan"
            /\ configuration' = [configuration EXCEPT !.flags = @ \cup {argv[index]}]
        BY <2>1, <2>2, <2>4 DEF EvalFlag
      <3>2. /\ argv[index] \in Options /\ argv[index] \notin doesOptionTakeArgument
            /\ index + 1 # index + 2
        BY <1>types, <3>1 DEF Options, Flags, doesOptionTakeArgument
      <3> PICK n \in {index + 1, index + 2} : n = index + 1
        OBVIOUS
      <3>3. /\ \A j \in P : j < n <=> j < index \/ j = index
            /\ KnownBefore(P, n) /\ (n <= Len(argv) => n \in P)
        BY <2>3, <3>2, PassOption
      <3>4. TakenIn(P, n)'
        BY <2>1, <2>3, <3>1, <3>3, FlagTakenIn
      <3>5. TakenIn(P, index)'
        BY <3>1, <3>4 DEF TakenIn, LastGiven
      <3> QED BY <2>1, <3>1, <3>3, <3>5 DEF InScan, KnownBefore
    <2>5. CASE EvalArgument /\ index + 1 > Len(argv)
      <3>1. phase' = "error" /\ index \in P /\ argv[index] \in doesOptionTakeArgument
        BY <2>2, <2>3, <2>5 DEF EvalArgument
      <3>2. ~(index < Len(argv))
        BY <1>types, <2>5
      <3>3. ~WellFormed(P)'
        BY <2>1, <3>1, <3>2 DEF WellFormed
      <3> QED BY <3>1, <3>3 DEF InScan
    <2>6. CASE EvalArgument /\ ~(index + 1 > Len(argv))
      <3>1. /\ argv[index] \in doesOptionTakeArgument
            /\ index' = index + 2 /\ phase' = "scan"
            /\ configuration' =
                 [configuration EXCEPT !.strings[argv[index]] = argv[index + 1]]
        <4>1. index + 1 \in 1 .. Len(argv)
          BY <1>types, <2>1, <2>6
        <4>2. Word(index + 1) = argv[index + 1]
          BY <1>types, <4>1, WordType
        <4> QED BY <2>1, <2>2, <2>6, <4>2 DEF EvalArgument
      <3>2. argv[index] \in Options
        BY <3>1 DEF Options
      <3> PICK n \in {index + 1, index + 2} : n = index + 2
        OBVIOUS
      <3>3. /\ \A j \in P : j < n <=> j < index \/ j = index
            /\ KnownBefore(P, n) /\ (n <= Len(argv) => n \in P)
        BY <2>3, <3>1, <3>2, PassOption
      <3>4. TakenIn(P, n)'
        BY <2>1, <2>3, <3>1, <3>3, ArgumentTakenIn
      <3>5. TakenIn(P, index)'
        BY <3>1, <3>4 DEF TakenIn, LastGiven
      <3> QED BY <2>1, <3>1, <3>3, <3>5 DEF InScan, KnownBefore
    <2>7. CASE EvalUnknown
      <3>1. phase' = "error" /\ index \in P /\ argv[index] \notin Options
        BY <2>2, <2>3, <2>7 DEF EvalUnknown
      <3>2. ~WellFormed(P)'
        BY <2>1, <3>1 DEF WellFormed
      <3> QED BY <3>1, <3>2 DEF InScan
    <2> QED BY <2>1, <2>4, <2>5, <2>6, <2>7
  <1>2. ASSUME validateConfiguration PROVE InScan(P)'
    <2>1. /\ phase = "scan" /\ index > Len(argv) /\ UNCHANGED <<argv, index, configuration>>
          /\ phase' = IF configuration.strings["/S"] = "" \/ configuration.strings["/P"] = ""
                      THEN "error" ELSE "configured"
      BY <1>2 DEF validateConfiguration
    <2> PICK n : n = Len(argv)
      OBVIOUS
    <2>len. n \in Nat /\ index \in 1 .. n + 1 /\ index > n
      BY <1>types, <2>1
    <2>2. index = Len(argv) + 1
      BY <2>len
    <2>3. KnownBefore(P, index) /\ TakenIn(P, index)
      BY <2>1 DEF InScan
    <2>4. TakenIn(P, index)'
      BY <2>1, <2>3 DEF TakenIn, LastGiven
    <2>5. KnownBefore(P, Len(argv) + 1)'
      BY <2>1, <2>2, <2>3 DEF KnownBefore
    <2>6. phase' = "error" => ~WellFormed(P)'
      <3>1. "/S" \in doesOptionTakeArgument /\ "/P" \in doesOptionTakeArgument
        BY DEF doesOptionTakeArgument
      <3>2. \A o \in doesOptionTakeArgument : configuration.strings[o] = Given(P, o)
        BY <2>2, <2>3, AllTakenIn
      <3>3. phase' = "error" => Given(P, "/S") = "" \/ Given(P, "/P") = ""
        BY <2>1, <3>1, <3>2
      <3>u. UNCHANGED argv
        BY <2>1
      <3>4. WellFormed(P)' <=> WellFormed(P)
        BY <3>u DEF WellFormed, Given
      <3>5. phase' = "error" => ~WellFormed(P)
        BY <3>3, Zenon DEF WellFormed
      <3> QED BY <3>4, <3>5
    <2>7. /\ phase' = "configured" =>
               configuration.strings["/S"] # "" /\ configuration.strings["/P"] # ""
          /\ phase' \in {"error", "configured"}
      BY <2>1
    <2> QED BY <2>1, <2>2, <2>4, <2>5, <2>6, <2>7 DEF InScan
  <1>3. CASE buildDokanOptions
    <2>1. /\ UNCHANGED <<argv, index, configuration>>
          /\ phase = "configured" /\ phase' \in {"mounted", "terminated"}
      BY <1>3 DEF buildDokanOptions
    <2>2. TakenIn(P, index)' <=> TakenIn(P, index)
      BY <2>1 DEF TakenIn, LastGiven
    <2>3. KnownBefore(P, Len(argv) + 1)' <=> KnownBefore(P, Len(argv) + 1)
      BY <2>1 DEF KnownBefore
    <2>4. /\ TakenIn(P, index) /\ KnownBefore(P, Len(argv) + 1)
          /\ index = Len(argv) + 1
          /\ configuration.strings["/S"] # "" /\ configuration.strings["/P"] # ""
      BY <2>1 DEF InScan
    <2> QED BY <2>1, <2>2, <2>3, <2>4 DEF InScan
  <1>4. CASE UNCHANGED vars
    <2>1. UNCHANGED <<argv, index, phase, configuration>>
      BY <1>4 DEF vars
    <2>2. WellFormed(P)' <=> WellFormed(P)
      BY <2>1 DEF WellFormed, Given
    <2>3. TakenIn(P, index)' <=> TakenIn(P, index)
      BY <2>1 DEF TakenIn, LastGiven
    <2>4. /\ KnownBefore(P, index)' <=> KnownBefore(P, index)
          /\ KnownBefore(P, Len(argv) + 1)' <=> KnownBefore(P, Len(argv) + 1)
      BY <2>1 DEF KnownBefore
    <2> QED BY <2>1, <2>2, <2>3, <2>4 DEF InScan
  <1> QED BY <1>1, <1>2, <1>3, <1>4 DEF Configure

\* The scan is in order in every reachable state.
LEMMA ScanAlways == VolumeSpec => []ScanInv
  <1>1. VolumeInit => ScanInv
    <2> SUFFICES ASSUME VolumeInit PROVE ScanInv
      OBVIOUS
    <2>1. Types
      BY InitTypes DEF VolumeInit
    <2>2. ASSUME NEW P \in SUBSET (1 .. Len(argv)), Divides(P)
          PROVE  InScan(P)
      <3>1. index = 1 /\ phase = "scan" /\ configuration = Defaults
        BY DEF VolumeInit, Init
      <3>2. \A i \in P : ~(i < 1)
        BY <2>1 DEF Types
      <3>3. 1 <= Len(argv) => 1 \in P
        <4>1. 1 <= Len(argv) => 1 \in 1 .. Len(argv)
          BY <2>1 DEF Types
        <4> QED BY <2>2, <4>1 DEF Divides
      <3>4. TakenIn(P, index)
        BY <3>1, <3>2 DEF TakenIn, LastGiven, Defaults
      <3>5. KnownBefore(P, index)
        BY <3>1, <3>2 DEF KnownBefore
      <3> QED BY <3>1, <3>3, <3>4, <3>5 DEF InScan
    <2> QED BY <2>1, <2>2 DEF ScanInv
  <1>2. ScanInv /\ [VolumeNext]_<<vars, told>> => ScanInv'
    <2> SUFFICES ASSUME ScanInv, [VolumeNext]_<<vars, told>> PROVE ScanInv'
      OBVIOUS
    <2>1. Types /\ Types' /\ (Configure \/ UNCHANGED vars)
      BY ConfigureKeepsTypes, VolumeStepsConfigure DEF ScanInv
    <2>2. UNCHANGED argv
      BY <2>1
      DEF Configure, evalCommandLineOption, validateConfiguration, buildDokanOptions, vars
    <2>3. ASSUME NEW P \in SUBSET (1 .. Len(argv)), Divides(P)'
          PROVE  InScan(P)'
      <3>1. Divides(P)
        BY <2>2, <2>3 DEF Divides
      <3>2. InScan(P)
        BY <3>1 DEF ScanInv
      <3> QED BY <2>1, <3>1, <3>2, ConfigureInScan
    <2> QED BY <2>1, <2>2, <2>3 DEF ScanInv
  <1> QED BY <1>1, <1>2, PTL DEF VolumeSpec

\* wmain goes on if and only if the whole command line is well formed, with
\* the last argument of each option and with every flag, although
\* evalCommandLineOption moves the index of the loop it is called from.
THEOREM ConfiguredAsGivenAlways == VolumeSpec => []ConfiguredAsGiven
  <1>1. ScanInv => ConfiguredAsGiven
    <2> SUFFICES ASSUME ScanInv, NEW P \in SUBSET (1 .. Len(argv)), Divides(P)
                 PROVE  /\ phase \in {"configured", "mounted"} =>
                             /\ WellFormed(P)
                             /\ \A o \in doesOptionTakeArgument :
                                  configuration.strings[o] = Given(P, o)
                             /\ configuration.flags = {argv[i] : i \in P} \cap Flags
                        /\ phase = "error" => ~WellFormed(P)
      BY DEF ConfiguredAsGiven
    <2>1. Types /\ InScan(P)
      BY DEF ScanInv
    <2>2. ASSUME phase \in {"configured", "mounted"}
          PROVE  /\ WellFormed(P)
                 /\ \A o \in doesOptionTakeArgument :
                      configuration.strings[o] = Given(P, o)
                 /\ configuration.flags = {argv[i] : i \in P} \cap Flags
      <3>1. /\ KnownBefore(P, Len(argv) + 1) /\ TakenIn(P, Len(argv) + 1)
            /\ configuration.strings["/S"] # "" /\ configuration.strings["/P"] # ""
        BY <2>1, <2>2 DEF InScan
      <3>2. /\ \A o \in doesOptionTakeArgument : configuration.strings[o] = Given(P, o)
            /\ configuration.flags = {argv[i] : i \in P} \cap Flags
        BY <2>1, <3>1, AllTakenIn
      <3>3. Given(P, "/S") # "" /\ Given(P, "/P") # ""
        <4>1. "/S" \in doesOptionTakeArgument /\ "/P" \in doesOptionTakeArgument
          BY DEF doesOptionTakeArgument
        <4> QED BY <3>1, <3>2, <4>1
      <3>4. \A i \in P : /\ argv[i] \in Options
                         /\ argv[i] \in doesOptionTakeArgument => i < Len(argv)
        <4>1. Len(argv) \in Nat /\ \A i \in P : i \in 1 .. Len(argv)
          BY <2>1 DEF Types
        <4>2. \A i \in P : /\ argv[i] \in Options
                           /\ argv[i] \in doesOptionTakeArgument => i + 1 < Len(argv) + 1
          <5>1. \A i \in P : i < Len(argv) + 1
            BY <4>1
          <5> QED BY <3>1, <5>1 DEF KnownBefore
        <4> QED BY <4>1, <4>2
      <3> QED BY <3>2, <3>3, <3>4 DEF WellFormed
    <2>3. phase = "error" => ~WellFormed(P)
      BY <2>1 DEF InScan
    <2> QED BY <2>2, <2>3
  <1> QED BY <1>1, ScanAlways, PTL

-----------------------------------------------------------------------------
(* The division of a command line *)

\* The places up to n divide into options and arguments.
DividesTo(P, n) ==
    \A i \in 1 .. n :
        i \in P <=> i = 1 \/ (i - 1 \in P /\ argv[i - 1] \notin doesOptionTakeArgument)
                          \/ (i - 2 \in P /\ argv[i - 2] \in doesOptionTakeArgument)

\* Every command line divides, so that ConfiguredAsGiven says something of it:
\* a place is an option or not according to the places before it.
THEOREM CommandLineDivides ==
  ASSUME argv \in Seq(Words \cup Options)
  PROVE  \E P \in SUBSET (1 .. Len(argv)) : Divides(P)
  <1> DEFINE Divided(n) == \E P \in SUBSET (1 .. n) : DividesTo(P, n)
  <1>1. Divided(0)
    <2>1. {} \in SUBSET (1 .. 0) /\ \A i \in 1 .. 0 : FALSE
      OBVIOUS
    <2>2. DividesTo({}, 0)
      BY <2>1 DEF DividesTo
    <2> QED BY <2>1, <2>2
  <1>2. ASSUME NEW n \in Nat, Divided(n) PROVE Divided(n + 1)
    <2>1. PICK P \in SUBSET (1 .. n) : DividesTo(P, n)
      BY <1>2
    <2> DEFINE last == n + 1
               IsOption == \/ last = 1
                           \/ last - 1 \in P /\ argv[last - 1] \notin doesOptionTakeArgument
                           \/ last - 2 \in P /\ argv[last - 2] \in doesOptionTakeArgument
               Q == IF IsOption THEN P \cup {last} ELSE P
    <2>2. Q \in SUBSET (1 .. n + 1) /\ (last \in Q <=> IsOption)
      OBVIOUS
    <2>3. \A i : i # last => (i \in Q <=> i \in P)
      OBVIOUS
    <2> HIDE DEF Q
    <2>4. ASSUME NEW i \in 1 .. n + 1
          PROVE  i \in Q <=> i = 1 \/ (i - 1 \in Q /\ argv[i - 1] \notin doesOptionTakeArgument)
                                   \/ (i - 2 \in Q /\ argv[i - 2] \in doesOptionTakeArgument)
      <3>1. i - 1 # last /\ i - 2 # last
        OBVIOUS
      <3>2. (i - 1 \in Q <=> i - 1 \in P) /\ (i - 2 \in Q <=> i - 2 \in P)
        BY <2>3, <3>1
      <3>3. CASE i = last
        BY <2>2, <3>2, <3>3
      <3>4. CASE i # last
        <4>1. i \in 1 .. n
          BY <3>4
        <4> QED BY <2>1, <2>3, <3>2, <3>4, <4>1 DEF DividesTo
      <3> QED BY <3>3, <3>4
    <2> QED BY <2>2, <2>4 DEF DividesTo
  <1>3. \A n \in Nat : Divided(n)
    <2> DEFINE S == {n \in Nat : Divided(n)}
    <2> HIDE DEF Divided
    <2>1. 0 \in S /\ \A n \in Nat : n \in S => n + 1 \in S
      BY <1>1, <1>2
    <2>2. Nat \subseteq S
      <3> HIDE DEF S
      <3> QED BY <2>1, SetInduction
    <2> QED BY <2>2
  <1>4. Divided(Len(argv))
    <2>1. Len(argv) \in Nat
      OBVIOUS
    <2> HIDE DEF Divided
    <2> QED BY <1>3, <2>1
  <1> QED BY <1>4 DEF Divides, DividesTo

-----------------------------------------------------------------------------
(* The mount *)

\* What Dokan is given is built from the Configuration, and applications only
\* ask once it has it.
MountInv ==
    /\ phase = "mounted" => options.flags = buildDokanOptionsFlags(configuration.flags)
    /\ told # Nothing => phase = "mounted"
    /\ NoChangeAcknowledged

\* A step of the start-up keeps it.
LEMMA ConfigureKeepsMount ==
  ASSUME MountInv, Configure, UNCHANGED told
  PROVE  MountInv'
  <1>1. phase # "mounted" /\ told = Nothing
    BY DEF MountInv, Configure, evalCommandLineOption, validateConfiguration, buildDokanOptions
  <1>2. NoChangeAcknowledged'
    BY <1>1 DEF NoChangeAcknowledged, Nothing, Changes, ChangingOpens
  <1>3. CASE evalCommandLineOption
    <2>1. phase' # "mounted"
      BY <1>3 DEF evalCommandLineOption, EvalFlag, EvalArgument, EvalUnknown
    <2> QED BY <1>1, <1>2, <2>1 DEF MountInv
  <1>4. CASE validateConfiguration
    BY <1>1, <1>2, <1>4 DEF validateConfiguration, MountInv
  <1>5. CASE buildDokanOptions
    BY <1>1, <1>2, <1>5 DEF buildDokanOptions, MountInv
  <1> QED BY <1>3, <1>4, <1>5 DEF Configure

\* The flags of DOKAN_OPTIONS follow the Configuration throughout.
LEMMA MountAlways == VolumeSpec => [](Types /\ MountInv)
  <1>1. VolumeInit => MountInv
    <2> SUFFICES ASSUME VolumeInit PROVE MountInv
      OBVIOUS
    <2>1. configuration.flags = {} /\ phase = "scan" /\ told = Nothing
      BY DEF VolumeInit, Init, Defaults
    <2>2. NoChangeAcknowledged
      BY <2>1 DEF NoChangeAcknowledged, Nothing, Changes, ChangingOpens
    <2> QED BY <2>1, <2>2 DEF MountInv
  <1>2. Types /\ MountInv /\ [VolumeNext]_<<vars, told>> => MountInv'
    <2> SUFFICES ASSUME Types, MountInv, [VolumeNext]_<<vars, told>> PROVE MountInv'
      OBVIOUS
    <2>1. CASE Configure /\ UNCHANGED told
      BY <2>1, ConfigureKeepsMount
    <2>2. ASSUME NEW request \in Questions \cup Opens, Ask(request) PROVE MountInv'
      BY <2>2
      DEF Ask, MountInv, NoChangeAcknowledged, Questions, Opens, Changes, ChangingOpens, vars
    <2>3. ASSUME NEW request \in Changes \cup ChangingOpens, Change(request) PROVE MountInv'
      <3>1. "WRITE_PROTECT" \in options.flags
        BY <2>3 DEF Change, MountInv, buildDokanOptionsFlags
      <3>2. told'.status # "SUCCESS"
        BY <2>3, <3>1 DEF Change
      <3> QED BY <2>3, <3>2 DEF Change, MountInv, NoChangeAcknowledged, vars
    <2>4. CASE UNCHANGED <<vars, told>>
      BY <2>4 DEF MountInv, NoChangeAcknowledged, vars
    <2> QED BY <2>1, <2>2, <2>3, <2>4 DEF VolumeNext, Ended
  <1> QED BY <1>1, <1>2, TypesAlways, PTL DEF VolumeSpec

\* However the volume is mounted, an application is never told that a change
\* it asked for has been made, although the callbacks return success for it.
THEOREM NoChangeAcknowledgedAlways == VolumeSpec => []NoChangeAcknowledged
  <1>1. MountInv => NoChangeAcknowledged
    BY DEF MountInv
  <1> QED BY <1>1, MountAlways, PTL
=============================================================================
