# A verification of 9p-dokany

9p-dokany mounts the file system of a 9P2000 server as a Windows volume: Dokany
calls a few callbacks, each callback calls the 9P client, and the client talks to
the server over one TCP connection. This directory holds TLA+ modules that model
the program, TLC configurations that check them on small instances, and proofs
that TLAPS checks for all values of the constants. All paths in this file are
relative to the repository's root, `src/`.

    tlc -workers 2 -config whole_frames.cfg MCNinePClient.tla
    tlc -workers 2 -config octets.cfg MCFramedReceive.tla
    tlapm NinePClientProofs.tla

`PROJECT.json` lists the components, the runs, which source lines each definition
stands for, and for every checked property a mutated definition of the code that
breaks it.

## 1. Inventory

| Component | Source | State it keeps | Operations |
|---|---|---|---|
| 9P client | `protocol/Client.cpp`, `.h` | socket, transmit buffer, `m_tag_issuer`, `m_fid_issuer`, `m_max_message_size`, fid tracker | constructor (`connectToServer`, `doVersionHandshake`, `doAuthentication`, `doAttachment`), `getDirectoryContents`, `getFileInformation`, `readFile`, destructor |
| Fid tracker | `protocol/FidTracker.*` | root entry, other entries | `setRoot`, `getRootEntry`; `addFid` and `findEntry` have no caller |
| T-message building | `protocol/TxMessageBuilder.*`, `MessageTypes.h` | none of its own | one `build` function per T-message |
| Transmit buffer | `protocol/TxMessage.*` | buffer, cursor | `initialize`, `writeInteger`, `writeString`, `writeRawData`, `hasRoomFor`, `getData` |
| R-message parsing | `protocol/MessageReader.*`, `DataTypes.h` | none | `parseMessageLength`, `parseMessage`, `parseRawRStat` |
| Exceptions | `protocol/Exceptions.h` | none | one class per reason |
| Dokan callbacks | `9pfs_operations.*` | `DokanOptions->GlobalContext` holds the client | `ninepfs_readfile`, `ninepfs_getfileInformation`, `ninepfs_findfiles`, and callbacks that only log and return a constant |
| Start-up and shutdown | `main.cpp` | configuration and client on the stack of `wmain` | parse, construct, `DokanMain`, exit |
| Command line | `Config.cpp`, `.h` | the configuration record | `getConfigurationFromCommandLine` (`scanCommandLine`, `evalCommandLineOption`, `validateConfiguration`), `buildDokanOptions` |
| File modes | `protocol/FileMode.*` | none | encode, decode |
| Text utilities | `utils/TextUtilities.*` | none | `splitToPathComponents`, `convertUtf8ToWstring`, `convertWstringToUtf8`, `copyUtf8StringToWcharArr` |

**How they interact.** `wmain` reads the configuration, constructs the client
(which connects, and only returns once it is attached) and calls `DokanMain`,
which calls the callbacks. Only `ReadFile`, `GetFileInformation` and `FindFiles`
reach the client. Every client operation has the same shape: issue a fid, walk it
from the root fid, use it (open and read, or stat), clunk it. Every RPC issues a
tag, builds the T-message in the one transmit buffer, sends it, peeks four bytes
for the length of the reply, receives the reply and asserts its type. Anything
that goes wrong throws. `readFile` catches everything and returns -1;
nothing else on the way out, `wmain` included, catches an exception, so
any other failure ends the process and takes the volume away.

**One thread.** `thread_count` is 1 (`Config.h:41`) and no option changes it;
`buildDokanOptions` passes it to Dokan (`Config.cpp:210`). The client has no lock
and needs none: Dokan runs one callback at a time. What interleaves with the
client's thread is the server, and the loss of the connection.

**What is hard here**

- *Pairing.* The client never compares the tag of a reply with the tag of its
  request; a reply is taken by its type alone. One reply too many, or one not
  read, would shift every later answer.
- *Exceptions between walk and clunk.* They leave a fid at the server. Nothing
  releases it; all depends on its number not being issued again.
- *Partial success.* A walk that reached only some of the path is answered by an
  `RWalk` too, and the client takes it for a success.
- *TCP.* `readData` calls `recv` once and ignores how much it returned.
- *Boundaries.* Tag and fid numbers wrap; a server may answer with another
  `msize`, with more bytes than asked for, or with a directory in pieces.
- *Loss.* The connection may go at any point, with or without the reply that was
  under way.
- *Waiting.* `recv` has no timeout; the directory loop ends only on an empty read.
- *Views.* The parser returns views of a string; who reads them must do so before it
  is destroyed. It takes sizes from the octets without comparing them with what is left.
- *One buffer.* Every T-message is written over the one before, and no write looks at
  the end of the buffer; sizes are computed apart from what is then written.
- *Octets and characters.* Paths are split octet by octet after a conversion in which a
  character may have several; names come from listings and go back as paths.
- *Acknowledging.* Most callbacks say yes to anything; what keeps that from being a lie
  is a flag set in another file.

**What makes each component correct**

| Component | Correct when |
|---|---|
| 9P client | each reply is the answer to the request it is taken for; fids are fresh, released by every operation that returns, and the root fid is left alone; a listing is exact; a read returns bytes of the file from the offset asked for, and a count of what was copied; every operation returns |
| Mounted volume | operations are served one at a time, answered once; a failed read costs nobody the mount |
| T-messages and their buffer | a message that fits is not written past the end; the length field equals the octets sent; the server reads what the build function was given |
| R-message parsing | nothing is read past the end of a conforming server's frame; a message is what the server encoded; what is logged is what it sent |
| Dokan callbacks | the NTSTATUS says whether the operation succeeded; a reported count is not above the buffer's length |
| File information | the FILETIME is the 9P time, without overflow, for every value of the 32-bit field; 64-bit halves fit together; a name keeps within its array |
| File modes | the server decodes the mode the client encoded |
| Command line | no argument is read past the end; the configuration is what was given, and one that is accepted has its mandatory options; a mounted volume acknowledges no change |
| Text utilities | no empty component, none with a backslash; a name that a listing shows can be opened |

## 2. The modules

| Module | What it is |
|---|---|
| `ReplyChannel` | what reading from the connection makes of the replies on their way, message by message |
| `NinePClient` | extends it: the client, its connection and the server: state, actions, properties |
| `MountedVolume` | what the users of the volume are promised, with the protocol left out |
| `MCNinePClient` | `NinePClient` for TLC, with the two statements of comments and docs that the code does not keep |
| `NinePClientProofs` | theorems about `NinePClient`: its types, what an operation returns, its fids, and that it implements `MountedVolume` |
| `DokanCallbacks` | the callbacks that call the client, composed with `NinePClient`, and an application that copies a file through them |
| `MCDokanCallbacks` | `DokanCallbacks` for TLC, with what the README of the repository says and the callbacks do not keep |
| `DokanCallbacksProofs` | theorems about the composition, the copy and the answers |
| `DataInduction` | lemmas: induction on the length of sequences, sums, folds, rows joined to one, rows spelled element by element |
| `WireFormat` | integers as octets, least significant first, by shifts and masks as in the code (`Shift`, `Byte`) |
| `MessageReader` | every parser of `MessageReader.cpp`, on octets |
| `FramedReceive`, `MCFramedReceive` | `readParseIncomingMessage` octet by octet; implements `ReplyChannel` |
| `FramedReceiveProofs` | theorems about it: what is read from whole frames and from pieces, its types, and that it implements `ReplyChannel` |
| `FileMode` | `encode` and `decode` |
| `TxMessage`, `MCTxMessage` | the transmit buffer, every build function, and the server that reads its messages with `MessageReader` |
| `MessageReaderProofs` | a theorem about integers on the wire; lemmas: what the parsers read where the octets of a field stand |
| `TxMessageProofs` | theorems about the buffer and about what the server reads from it |
| `CommandLine` | from `argv` to `DOKAN_OPTIONS` |
| `VolumeRequests`, `MCCommandLine` | extends it: the callbacks that do not reach the client, on the volume so mounted |
| `CommandLineProofs` | theorems about these |
| `TextUtilities` | the conversions, the bounded copy, the split of a path |
| `FileInformation` | extends it: what the callbacks tell Windows of a stat |
| `ListAndOpen`, `MCListAndOpen` | extends it: a listing, and a path made of the name it showed |
| `ListAndOpenProofs` | theorems about these three |

### NinePClient and the code

| Variable | Code |
|---|---|
| `step`, `awaiting` | where the client's thread is: the RPC, and whether its T-message has been sent |
| `op` | the operation in progress with its locals (`new_fid`, `offset`, the collected entries or data) |
| `result` | what the last operation returned |
| `tagIssuer`, `fidIssuer`, `msize` | `m_tag_issuer`, `m_fid_issuer`, `m_max_message_size` |
| `root` | `m_fid_tracker.getRootEntry()->fid` |
| `connected`, `inbox`, `stream`, `cut` | the TCP connection: T-messages not handled, R-messages not read, and whether the first of these has lost bytes |
| `serverFids`, `agreed` | the server's table of fids, and whether it has accepted the version (external) |
| `calls`, `shortRecv`, `abandoned` | history: operations begun; a `recv` has returned part of a frame; fids of operations that threw |

Each RPC of `Client::Impl` is two actions, `SendT...` (issue the tag and the fid,
build, `sendMessageInTxBuffer`) and `RecvR...` (`peekForMessageLength`,
`readData`, `parseMessage`, the type assertion and what the caller does with the
answer). `ConnectToServer` is `connectToServer`, `Invoke` is the callback's call,
`Unmount` is the end of `DokanMain` and `~Impl`. `Throw` is an exception
that leaves the operation; `Die` is the end of the process.

The server is external. `AnswerXxx` are the answers 9P2000 allows: it may refuse
any request, walk part of a path, answer a clunk by an error (the fid is gone
all the same), split a directory between any two entries and a file anywhere. It
does not break the protocol, with one exception the constant `Slack`
grants: it may send more than a `TRead` asked for, because the code says it means
to cope with that (`Client.cpp:483`). It answers `TAuth` and `TAttach` only after it
has accepted the version.

**Abstractions.**

- *Units.* The content of a file or directory is a row of numbered units (a
  directory entry, or some bytes). What is kept is which unit comes back for
  which request. `Bad` is a unit that is not one of the file.
- *Frames.* `recv` returning part of a frame is modelled by what may become of the
  message (`Damaged`, `Garbage`: an exception, the same type with a payload cut or
  padded, any type at all once the place in the stream is lost) and by where the
  stream continues (`Skip`: before, inside or after any later message). The
  constant `ShortRecvs` says whether this may happen. All of this is `ReplyChannel`;
  that its choices cover the code is what `FramedReceive` is checked for.
- *Undefined behaviour.* `parseRRead` and `parseRStat` take a view of a length they
  do not check. The build may read nearby memory (`Damaged` has payloads with
  `Bad` units) or fault: the reply `Overrun`, which no `catch (...)` of this
  build sees, so the process ends even in a read.
- *A send on a dead connection* may fail, or succeed once more and be lost.
- `getDirectoryContents` may be handed arbitrary bytes after a short `recv`; the
  list it parses from those is followed up to `MaxListing` entries.

### MountedVolume

Four phases (mounting, ready, busy, gone) and the outcomes of an operation. A
`Succeed` returns a natural number, only a read may `FailRead` with -1 and leave the
volume mounted, any other failure is `Abort`, which ends the mount.
`NinePClient` maps its `step` to the phase (`Phase`), and `ImplementsVolume` says
that the client's behaviours are the volume's.

### DokanCallbacks

The module extends `NinePClient` and puts Dokan's side on top of it. `ReadFile`,
`GetFileInformation` and `FindFiles` enter a callback, which invokes the client;
`InClient` are the client's own steps, and record what it hands over (`handed`:
`readFile` writes Dokan's buffer when `doRead` returns, before its clunk; the other
two return a value); `ReadFileReturns` and its like are the rest of the callback, which
turns the client's result into `answer`, the status, length and data Dokan gets.
`ReadLength` is the conversion of the `int64_t` to a DWORD, `ReadStatus` the three
branches of `ninepfs_readfile`, the second of which compares a pointer that is never
null. Nothing is said of an exception here: it has ended the process in the
client's module.

Dokan and the application are external. The application copies one file by reading
on from where it got to, with buffers of any length, until a read does not succeed,
and uses as much of its buffer as the reported length says. The file and the
directory do not change meanwhile (`SameFile`).

### FramedReceive and MessageReader

The stream is a row of frames, each with the octets that are left of it. `Peek` is
`peekForMessageLength`: four octets, or fewer, over what `read_buf` held before
(`StaleOctets`). `ReadData` takes one `recv`'s octets, fills up with zeros
(`Filled`) and runs `parseMessage` on them; what a parser reads beyond the end is
`Outside`, as long as the build does not fault first. `UseReply` is the caller, who
logs the text of an `RError` or `RVersion` when the string it is a view of has been
destroyed.

A parser takes a view, the values so far and the octets that are left, and returns a
message, an exception (`Thrown`) or `Crash`. The order of reads and the checks before
them, and those that are missing, are the code's.

The server (external) sends messages of `ServerMessages`, each as its `Frame`. `Content`
says what such a message carries: the fields of its type and nothing else, each within
the octets it has on the wire. `Directories` are rows of entries it may list, a stat each
with fields of the server's own behind those the client knows.

`ReceiveImplements` instantiates `ReplyChannel` with the messages the octets belong to
and says that each step does to them what `ReplyChannel` allows: so the choices
of `NinePClient` (`Damaged`, `Garbage`, `Skip`) cover what the octets can do.

### TxMessage

Memory is a row of octets that goes on after the buffer (`Beyond`); `cursor` may get
there, as in the code. A build function is the row of fields it writes, a write is a
step, `getData` puts the size in front. The server (external) reads the octets with the
parsers of `MessageReader`, and `decode` for the mode of a `TOpen`. `Call` says which
arguments the C++ types of a build function's parameters allow. `writeString`
leaves out a string for which `hasRoomFor` sees no room.

### CommandLine and VolumeRequests

`index` is the variable of the loop in `scanCommandLine` that `evalCommandLineOption`
moves; one step is one option. The null after the last word is `Null`.
`VolumeRequests` puts requests on top: the status each callback returns, and Dokan's
own answer to changes of a write-protected volume (external).

### TextUtilities, FileInformation, ListAndOpen

UTF-8 and UTF-16 are modelled by what the Windows API does with them
(`Utf8Characters`, `Utf16`, and back), surrogate pairs and halves of pairs included.
`NextComponent` and `LastComponent` are the loop and the end of
`splitToPathComponents`. A DWORD has `Half` values and a `uint64_t` has `Half^2`.
`ListAndOpen` follows one file from the server's stat to the listing, from the name
shown to the path the user joins (with any number of backslashes in `Gaps` between
names), through the split to the server and back as file information.

## 3. Properties and runs

| Run | Instance | Question |
|---|---|---|
| `whole_frames` | 4 tags, 8 fids, files up to 3 units, paths up to 2 components, 3 operations | is the client right when every `recv` returns a whole frame? |
| `volume` | 2 tags, 3 fids, 4 operations, `Slack` 1, `msize` answered 1 or 3, fairness | is it the mounted volume that was promised, does every operation return, and what survives numbers that wrap? |
| `short_recvs` | 4 fids, 2 operations, short `recv`s | which fids are asked for once the client has lost its place in the stream? |
| `copy` | file and directory of up to 2 units, 4 requests, `Slack` 1 | does an application get the file, and whole answers? |
| `octets` | octets of 5 bits, 2 messages of 8 kinds, any `recv` short | do the octets do to messages what `ReplyChannel` says? |
| `tx_buffer` | octets of 7 bits, a buffer of 30, 3 messages of any build function | does the server read what was asked? |
| `command_line` | every row of up to 3 words, of 5 from a smaller set, and what follows a complete command line | does `wmain` go on with what was given, on a volume that acknowledges no change? |
| `listing` | all times, lengths at the boundaries, 9 names, directories up to 2 deep, 1 or 2 backslashes | does Windows read what the server gave, and can what it shows be opened? |
| `read_count` | 1 operation, `Slack` 1 | *violated*: does `readFile` report no more than the buffer holds? |
| `split_frames` | 1 operation, short `recv`s | *violated*: does a read return the file's bytes however TCP delivers the `RRead`? |
| `failed_read` | as `copy`, 3 requests | *violated*: are bytes of successful reads bytes of the file? |
| `logged_text` | as `octets`, the two messages with text, whole frames | *violated*: is the text that is logged the server's? |

`whole_frames` checks

- `Lockstep`: at most one message is under way, only while the client waits, and it
  is the request of that RPC or an answer to it with the tag last issued. This is
  why comparing no tags does no harm, as long as frames arrive whole. It holds
  after calls ended by an exception and across a loss of the connection.
- `FreshFid`: the fid a `TWalk` asks for is unknown to the server, whatever earlier
  operations have left behind.
- `RootPinned`: the root fid still stands for the root and is not open.
- `FidAccounting`: the server holds the root fid, the fid of the operation in
  progress, and the fids of reads that threw. Nothing else leaks, also when fids are
  issued again.
- `WalkedBeforeUse`: though a partial walk passes for a success, no read or clunk is
  ever sent on a fid the server did not create; the open or stat in between is
  refused.
- `DirListingExact`: each entry once, in order, none left out, for every way to
  split the directory over replies.
- `WholeFramesGiveFileData`: a read yields the file's units from the offset asked
  for.
- `MountNeedsVersion`: the client looks at no version string, but a volume whose version
  the server refused never serves an operation.
- `TypeOK`: in particular `msize` never exceeds what the client announced.

`volume` keeps of these what does not depend on fresh numbers: with three fids the
third `TWalk` names the root fid as its new fid (which 9P allows: the root fid
then moves), the fourth that of the first operation, and with two tags every other tag is NOTAG. `FidAccounting` is among them: a
fid that two operations share is still accounted for. On the same behaviours it
checks `ImplementsVolume` and the liveness property `CallReturns`. `short_recvs` checks
`FreshFid` where the client reads garbage and sends ahead of the server's answers.
The other properties of the first list are conditional on `~shortRecv` and say
nothing there.

`copy` looks at many calls at once:

- `CopyExact`: as long as no read has failed, the copy is the beginning of the
  file, and the whole of it when a read does not succeed any more. It needs the
  length told to Dokan to be what the server sent, the offset of the next read to be
  passed on, and a short read not to be taken for the end. That the end of the file is
  reported with the wrong status (`STATUS_OBJECT_NAME_NOT_FOUND`) does not disturb an
  application that stops at any.
- `AnswersComplete`: what `FindFiles` and `GetFileInformation` give to Dokan is the whole
  directory and the file's stat; a loss of the connection between two replies of a
  listing ends the process, it never yields a part.

`octets` checks that the parser's missing comparisons do no harm as long as frames
are whole (`OverrunNeedsShortRecv`); that what is returned then is a message the server
sent, with all that is in it (`WholeFramesAreServers`, which takes every parser to undo the
server's encoding, the sign of a char to be masked where it is read as a number (`Byte`),
and every `recv` to end where a frame does); that a directory's data is
read as the stats the server listed, also when a stat has fields the client does not know
(`EntriesAreServers`); and `ReceiveImplements`. The instance lists one directory, the
theorem is about all in `Directories`.

`tx_buffer`: `ServerReadsRequest` relates the octets to the arguments through a
parser that shares nothing with the build functions, with an earlier message in the
buffer that was longer, or too long; `SizeIsExact` also covers the messages that
do not fit, whose strings are left out; `WithinBuffer` is about each write.

`command_line`: `ConfiguredAsGiven` compares the scan with the one way a command line
divides into options and arguments, `NoChangeAcknowledged` what an application is told
with the flags `buildDokanOptions` sets.

`listing`: `ToldExactly` reads the structures as Windows does; `ListedNamesOpen` goes
the whole way round, for names that Windows can show (shorter than `MAX_PATH`, no
backslash in them); `NamesAreWhole` holds for any name.

**Bounds.** One operation needs at most two components to have a partial walk, and
two replies plus the empty one to have a split directory with a middle; files
of three units have that, and an offset inside. Interference between
operations is between one that threw and a later one; three operations leave
room for a thrown read, a read that returns and another. In `volume` the
numbers of the root fid and of the first operation have been issued again by the fourth. `short_recvs` is the widest
branching, so there are two operations on an empty file: the second
meets everything the first left in the stream; its `MaxListing` is 0, so a
garbled directory always throws or faults there (following the garbled list
only adds further `TRead`s, which carry no new fid). Message sizes are small
numbers on both sides of the client's own. In `copy` a file of two units takes
two reads or one, and one more that finds the end; the fourth request can be any
other. `DwordMod` is 8, above every count that can occur. `MaxCalls` bounds the only counter.

A finished process stutters (`Finished` and its like), so deadlock is checked in every run.

In `octets` one message leaves the client at any place of the next: two suffice. An
octet has five bits, in which the codes of messages, counted from 100, fit; a u32 has
two octets, and the frame of the directory needs both for its length; its entry carries a
field of the server's own. In `tx_buffer` seven bits hold a file mode; the buffer is
longer than most messages and shorter than the paths and the name made to exceed it;
the third message meets what two have left. In `command_line` five words hold two options with
arguments and a fifth word out of place, and what follows a complete command line can be
any three words. In `listing` names have characters of one to four octets, two of them
with the code of the backslash in half of their UTF-16, names as long as fits, longer,
and cut inside a pair.

**Fairness.** `CallReturns` (in `volume`) assumes weak fairness of the client's thread as a
whole and of the server as a whole. Inside a call the thread has nothing to
wait for but its reply, and Dokan's pool keeps running it. The server's part is an
assumption about the environment: it handles what it has received. Nothing is
assumed of `Invoke`, `Unmount` and `Disconnect`. Without the server's fairness the
property is false, for `recv` has no timeout.

**Findings**

- `read_count`: `readFile` returns `read_size`, the number of bytes the server
  sent, also when it copied fewer (`Client.cpp:488`), although the comment at line
  483 names the case.
- `split_frames`: one `recv` that returns part of an `RRead` yields a successful
  read of bytes that are not the file's (`Client.cpp:432`). `ReadReturnsFileData` is about
  the step that reads an `RRead` the server has sent, with only whole frames before it:
  where an earlier reply was cut, the client takes what is left of it for later
  replies, and `Garbage` allows more of those than the octets could make.
- `failed_read`: the -1 of a failed read becomes 2^32-1 in `*read_length`, which
  `ninepfs_readfile` takes for a success (`9pfs_operations.cpp:66`). In TLC's trace the
  connection is lost and the read's `TWalk` cannot be sent; a refused read ends alike.
- `logged_text`: the text of an `RError` or `RVersion` is logged from a string that was
  destroyed when `readParseIncomingMessage` returned (`Client.cpp:426`).

## 4. Proofs

Everything here is proved for every value of the constants that the `ASSUME`s of the
modules allow, and TLC evaluates these for the instances. What they ask:

| Assumption | What it asks, and why the code justifies it |
|---|---|
| `WidthAssumption`, `SizeAssumption`, `BoundAssumption` | at least two tags and three fids, sizes and bounds that are naturals |
| `DwordAssumption`, `RequestAssumption` | a DWORD has two values; the bounds let the application ask for its file |
| `ReplyAssumption` | no read returns more than a DWORD holds: its count is a 32-bit field |
| `CommandLinesAssumption` | an argument is a word or one of the options |
| `CapacityAssumption` | a message has room for its own length field, its length fits that field, and the size of anything in the buffer fits a u16 (16384 octets, 32 and 16 bits) |
| `ModeAssumption` | a u8 holds a file mode (at most 83 of 255) |
| `RequestsAssumption` | requests are calls the C++ types allow (`Call`), no longer than the memory the model looks at |
| `RadixAssumption`, `WidthsAssumption` | an octet has two values at least, an integer one octet |
| `CodeAssumption` | a type is one octet, with room for the codes |
| `ServerAssumption` | messages of the server answer requests the client makes, their fields fit the wire (`Content`), and their frames are no longer than their length can say or the client can allocate: what 9P2000 asks of a server |
| `DirectoriesAssumption` | a listing is a row of stats that fit, of any length |
| `StaleAssumption`, `AllocatableAssumption`, `MaxMessagesAssumption`, `ShortRecvsIsBoolean` | what `read_buf` held before is octets; bounds are naturals |
| `ClockAssumption` | ticks fit 64 bits, as `ClockFits` and `RealClock` show of the real numbers |
| `NameAssumption`, `GapsAssumption` | `cFileName` has an element; a user writes at least one backslash between two names |
| `Utf8Assumption` | names at the server are UTF-8, as 9P2000 has all strings: the octets are those of some characters, none of them half a surrogate pair or U+0000, which 9P leaves out of strings (`wcsncpy_s`, `TextUtilities.cpp:56`, would stop there) |

| Theorem | Statement |
|---|---|
| `NinePClientProofs!TypeCorrect` | `Spec => []TypeOK` |
| `LockstepAlways`, `FreshFidAlways` | `Spec => []Lockstep`, `Spec => []FreshFid` |
| `MountNeedsVersionAlways`, `WalkedBeforeUseAlways` | `Spec => []MountNeedsVersion`, `Spec => []WalkedBeforeUse` |
| `DirListingExactAlways`, `WholeFramesGiveFileDataAlways` | `Spec => []DirListingExact`, `Spec => []WholeFramesGiveFileData` |
| `RootPinnedAlways`, `FidAccountingAlways` | `Spec => []RootPinned`, `Spec => []FidAccounting` |
| `VolumeImplemented` | `~ShortRecvs` implies `Spec => ImplementsVolume` |
| `DokanTypeCorrect` | `DokanSpec => []DokanTypeOK` |
| `CallbacksUseClient` | `DokanSpec => Spec` |
| `CallbacksInLockstep`, `CallbacksKeepFids` | `DokanSpec => [](Lockstep /\ FreshFid)`, `DokanSpec => [](RootPinned /\ FidAccounting /\ WalkedBeforeUse)` |
| `CopyExactAlways`, `AnswersCompleteAlways` | `DokanSpec => []CopyExact`, `DokanSpec => []AnswersComplete` |
| `ListAndOpenProofs!TypeCorrect` | `Spec => []TypeOK` |
| `ToldExactlyAlways`, `NamesAlwaysWhole` | `Spec => []ToldExactly`, `Spec => []NamesAreWhole` |
| `ListedNamesOpenAlways` | `Spec => []ListedNamesOpen` |
| `ConfigurationTypeCorrect` | `VolumeSpec => []ConfigurationTypeOK` |
| `ConfiguredAsGivenAlways`, `CommandLineDivides` | `VolumeSpec => []ConfiguredAsGiven`; each command line has the division this speaks of |
| `NoChangeAcknowledgedAlways` | `VolumeSpec => []NoChangeAcknowledged` |
| `IntegerRoundTrip` | an integer written to octets is read back modulo its width, for every width and radix |
| `TxMessageProofs!TypeCorrect` | `Spec => []TypeOK` |
| `WithinBufferAlways`, `SizeIsExactAlways` | `Spec => []WithinBuffer`, `Spec => []SizeIsExact` |
| `ServerReadsRequestAlways` | `Spec => []ServerReadsRequest` |
| `FramedReceiveProofs!TypeCorrect` | `Spec => []TypeOK` |
| `WholeFramesAreServersAlways`, `OverrunNeedsShortRecvAlways` | `Spec => []WholeFramesAreServers`, `Spec => []OverrunNeedsShortRecv` |
| `EntriesAreServersAlways` | `Spec => []EntriesAreServers` |
| `ReceiveImplementsAlways` | `Spec => ReceiveImplements`, short `recv`s included |
| `ReadFrame` | every reply a conforming server can write is read back from its frame, and as nothing else |
| `ReadDirectory` | the data of any number of entries is read as their stats |

*Types.* `TypeOK` is inductive. The lemmas follow the model's building blocks
(`ThrowType`, `FailType`, `ConsumeType`, ...), then one lemma for the sends, one for
the receives, one for the server's answers.

*Lockstep* is not inductive as it stands: a message sent on a lost connection would
leave the server's queue in a state it says nothing about. `LockstepInv` adds the
types and that a lost connection holds no requests. The proof has one case for
a send (both queues are empty, since the client is not awaiting), one for a
receive (the one message is taken, so both are empty after it) and one for an
answer (it moves from one queue to the other with its tag).

*Fresh fids* hold even after short `recv`s, so they cannot rest on `Lockstep`: several
requests may be under way. `FidInv` says that the fid issuer is no further than
the number of operations allows, so that it has not wrapped before `calls` says
so; and, until then, that every fid the server knows or is asked by any request
under way to create has been issued, that no request asks for one the server
knows, and that no two requests ask for the same. A `TWalk` takes the next number,
above all of them.

*Operations.* What an operation returns depends on what every earlier reply meant. `OperationInv`
is `LockstepInv` and, while frames arrive whole, `InOrder`: the request
under way asks for what the operation is about (`Asked`), the reply under way tells of
what the server has done for it (`Answered`), the fid is open where it is read and
bound where it is to be clunked (`Walked`), and what is collected is the
directory up to the offset (`Listing`) or bytes of the file (`Reading`). Each is what
the next needs when the reply is read, so none is inductive alone. `MountNeedsVersion`,
`WalkedBeforeUse`, `DirListingExact` and `WholeFramesGiveFileData` follow, and none of them
needs fids that have not wrapped. That a partial walk does no harm is in `Answered`: an
`ROpen` or `RStat` under way means that the fid exists.

*Fids in use.* `FidUseInv` joins `OperationInv` and `FidInv` with: an operation's fid is
the one last issued, and not the root's before numbers wrap (`OwnFid`); every fid the server
holds is the root's, an abandoned one or that of the operation (`Accounted`); the root
fid is the root and not open (`Pinned`). `OwnFid` is what keeps a `TWalk` or `TOpen` away from
the root fid, `FidInv` what keeps a `TWalk` from a fid of an earlier operation.

*Refinement.* `VolumeInv` says that an operation is in progress exactly in the
steps of one, which the two specifications must agree on, and that no frame is cut or
faults when it is parsed. Then each building block is shown to be a step of the volume or
none (`ProceedFollows`, `ThrowFollows`, `DieFollows`, `ReturnFollows`), and each action to be made of
these. `~ShortRecvs` is needed: after a short `recv` a read may fault, which ends the process where
the volume promises a -1.

*Composition.* Every step under the callbacks is a step of `NinePClient` or leaves it
alone, so the theorems about `Spec` hold for `DokanSpec`.

*Copies.* `CopyInv` follows a unit from the server to the application: the fid stands for
the application's file (`AtFile`), the reply under way carries units from the operation's
offset, none only at the end (`Carried`), so does what the operation has collected
(`Collected`), and what it has returned to a callback (`Returned`). With `ReplyAssumption` the length
told to Dokan is the one returned. `OperationInv` is needed to know which
request a reply answers.

*Files and names.* `SplitJoined` and `TimestampExact` are the arithmetic, for every
width: a time survives the shift, the ticks and the halves. `PieceOfPath` and
`PushKeepsWhole` carry the split from one backslash to the next. The invariant `IInv`
adds that the name the user was shown is still the stat's (`ListedName`), without which
the next path need not be octets. That every path is octets (`PathsAreOctets`), also when a
name was cut inside a surrogate pair, is a lemma about the conversions (`CodesAreRead`, `Utf8IsOctets`).

*Listed names.* `ListedNamesOpen` says of a split that has ended that it undid everything
since the names left the server. The proof has three parts.

- Characters. `AddUnit` gives back a character from the unit, or the pair, that `Utf16` made
  of it (`PairIsRead`), so `Utf16Characters` undoes `Utf16` for any row of characters
  (`CharactersReadBack`): no unit of one is joined to the next. Both encodings spell a row character by
  character, hence a path name by name (`SpelledConcat`, `SpelledFlat`), and a backslash is one in both
  (`DelimWritten`). So the path Windows hands over, converted back, is the path of the
  server's names: `PathRead`. For this the names must have been shown in full.
- The path. `Shaped` says where in such a path the backslashes and the names stand, for any number
  of backslashes between names and at the end (`PathShaped`).
- The split. `Opens` is the invariant: while the loop runs, the components are the first names of
  those meant, and `start` is at one of the backslashes behind them or just behind the last (`SplitAt`).
  A piece up to the next backslash is then empty or the next name (`NextSplits`), and what is
  left at the end completes the names (`LastSplits`).

*Command line.* `ConfiguredAsGiven` speaks of a division of the words into options and their
arguments. `ScanInv` says, for every division, that the loop's index is the place of an
option, that all options before it are known and their arguments in range
(`KnownBefore`), and that the Configuration has the value given last (`TakenIn`).
`CommandLineDivides` shows that the property is not empty. `MountInv` ties the flags
of `DOKAN_OPTIONS` to the Configuration: write protection is always among them, so no
change is acknowledged.

*The buffer.* `Progress` says that what is written and what is left to write
(`Total(Sizes(todo))`) are no more than the message's length: so a message that fits never
leaves the buffer, and one that does not never leaves the model's memory. `TxInv` adds the types and
`SizeIsExact`. The length field is read back by `IntegerRoundTrip`.

*What the server reads.* `ServerReadsRequest` speaks of octets that were written over many steps.
`BufferInv` follows them: of a message that fits, the type stands in the buffer and behind it, at
places that follow from one another's sizes, the fields up to the cursor, those in `todo` being
the rest (`InBuffer`); and what is sent is the buffer up to the cursor with the size in front
(`InView`). The property is not inductive without it: until getData has returned it says
nothing. TLC checked `BufferInv` on the instance of `tx_buffer` first. What is left is
about octets alone. A parser that begins where a field's octets stand reads its value and goes on
behind it (`ReadOne`), so `ParseFields` reads a row of them (`ReadRow`), and the data,
names or stat that a size precedes are what is left when the size is taken (`ReadSizedTo`,
`ReadInner`). Then there is one lemma for each shape of build function: `ReadsOthers`; `ReadsOpen`, where
`ModeRoundTrip` shows that the server decodes the mode that was encoded; `ReadsWrite`;
`ReadsWalk`; and `ReadsStat`, for which the size computed by `EncodedStatSize` must be that of the fields
written after it (`StatPlaced`). The sizes are narrowed to a u16 as in the code; that nothing is lost
follows from `CapacityAssumption`, since the message fits the buffer.

*Whole frames.* `WholeFramesAreServers` looks at a reply when it is returned; what makes it
true is where the earlier replies left the stream. `WholeInv` says that the
queue holds frames of the server, of which only the first may have been read in part and only
after a short `recv`, and only the last may be cut, by a loss of the connection; that `length`,
when it was peeked whole, is that of the first frame; and that what has been returned is a
message of the server or an exception. That a `recv` of
`length` octets then takes exactly the first frame is arithmetic on the sums of sizes
(`Before`, `Whole`). What the parser makes of it is `ReadFrame`: one lemma for each type of
reply (`ReadWalk`, `ReadStatReply`, ...), over the lemmas of `MessageReaderProofs` on fields.
`OverrunNeedsShortRecv` follows, for an overrun is no message of a server.

*Directories.* `readRStatsFromData` reads on until nothing is left. That it reads the
entries is shown from the last to the first: from the octets behind entry `i` it reads the
stats behind it (`StatsBehind`), since `parseRawRStat` reads one stat, skips what its size
announces beyond the fields it knows, and leaves the octets of the next.

*Types of replies* hold of any octets whatever. Views get looser types
(`LooseViews`) in which a value may lie outside the buffer, and each parser keeps them.

*Receiving.* `ReceiveImplements` is about `recv`s that split frames anywhere. It has four parts.

- The stream. `Stream` and `Cut` are functions of the queue (`IsStream`); taking octets
  off it drops the messages that are gone and leaves the next whole or cut, which is
  what `Skip` allows (`ReadSkips`). While nothing is split it is the first message and no
  more: `Unsplit` is the invariant that says so, next to `WholeInv`.
- Where the client has lost its place the buffer may hold anything: whatever the parser makes
  of it, a member of `Garbage` stands for it (`GarbageStands`).
- Where it has not, the buffer has the frame's octets, or zeros in their place, and anything
  behind them, since `length` itself may have been peeked short (`IsPartOf`). A parser that
  runs on it goes through the same places (`Tracks`). A number read from octets of which
  some have become zeros is no greater (`ValueMonotone`, `NumberAtMost`). So the type is that
  of the frame, or none; the count of data is no more than the frame's; and the data are the
  frame's octets, zeros, or what lies outside: a choice of `Damaged`.
- What the sends and a loss do to the stream (`SendsStep`, `LosesStep`, `FailsStep`).

With it the chain is closed: the octets implement `ReplyChannel`, which is the
connection of `NinePClient`, which without short `recv`s implements `MountedVolume`.

*Induction over data.* The induction theorems of the library take an operator, which these
provers cannot instantiate, but a set of naturals has a least element by
`WFMin` and `NatLessThanWellFounded`, which take none. `DataInduction` derives from it that a set with
0 and successors has all naturals (`SetInduction`, `UpTo`). A recursive function is
handled by showing that some function on `0 .. n` obeys the recursion, that two such
agree, and therefore that the one the module defines with `CHOOSE` does (`ShiftsExist`,
`ShiftsAgree`, `ShiftSteps`; `FoldExists`, `FoldLeftIsFold`, `TotalSteps`). Rows are handled with the set of
those for which a statement holds: one that has the empty row, and with a row every row longer
by one element, has all (`RowInduction`).

**Only model-checked.** `CallReturns`: liveness under fairness is beyond the prover. Every other
property that a passing run checks is a theorem. The four violated statements are shown by TLC alone.

## 5. Not modelled

- Socket options, address formatting, the wording of the log and of error messages: no
  state the program acts on.
- `GetVolumeInformation` and `GetDiskFreeSpace` fill in constants; their status is in
  `VolumeRequests`.
- `addFid` and `findEntry` of the fid tracker have no caller.
- The reserved fields of `WIN32_FIND_DATAW`, which are not initialised, are in
  `FileInformation` (`StackWords`), but nothing is claimed of them.
- `/U` and `/X` are kept by `CommandLine` and read by nobody.
- Dokan itself, its timeout and what it does with a late answer, the TCP stack, the
  server and the Windows conversions are outside the repository; where a model needs
  them they are marked external.
- `gsl/` is vendored, project and pipeline files are not code of the program.

## 6. Plan

Done: the client and the volume it implements, the callbacks on top, the octets
beneath, the request side, the command line, and the path from a listing back to the server; and
proofs of all safety properties and of both refinements. What would come next is a bound on how
long a call waits, when the code gets a timeout, and the fid tracker's other entries, when
they get a caller.
