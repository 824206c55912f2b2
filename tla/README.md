# libpmc in TLA+

A verification project for libpmc, a library that builds, sends, receives and
parses PTP (IEEE 1588) management and signaling messages, and for `pmc`, the
command line tool made of it. The modules model the parts that keep state; TLC
checks them on small instances and TLAPS proves the main results for every value
of the constants.

## 1. The system

| Part | Source | State | Operations |
|---|---|---|---|
| Message, requests and replies | msg.cpp, msg.h, ids.h, proc.cpp | `m_sendAction`, `m_tlv_id`, `m_dataSend`, `m_msgLen`; `m_type`, `m_mngType`, `m_replyAction`, `m_dataGet`, `m_errorId`, `m_errorDisplay`; `m_prms` | `setAction` (2), `getMsgPlanedLen`, `build`, `parse`, `updateParams`, getters |
| Message, signaling | msg.cpp, msg.h, sig.cpp | the vector `m_sigTlvs`, the cursor | `parseSig`, `getSigTlv`, `traversSigTlvs` |
| Codec | msg.cpp 873-1299, proc.cpp, sig.cpp, end.h | cursor `m_cur`, `m_left` | one `proc()` per type, one function per TLV |
| Sockets | sock.cpp, sock.h | `m_fd`, `m_isInit`, parameters of each class | setters, `init`, `close`, `send`, `rcv`, `poll`, `tpoll` |
| pmc tool | pmc.cpp | options, mode, sequence counter, timeout, one Message, one socket | `main`, `run_line`, `sendAction`, `rcv`, `rcv_timeout`, signal handlers |
| Key parser and dump | pmc_dump.cpp | cursor in the command line, the keys of an id | `call_data`, `parseKeysFunc`, `parse_quote`, `call_dump` |
| ConfigFile | cfg.cpp, cfg.h | the map of sections, a reference into it | `read_cfg`, `set_val`, `setGlobal`, getters |
| JSON | json.cpp, json.h | `m_first` and its stack | `msg2json`, `data2json` |
| Binary, Buf, IfInfo, PtpClock, version | bin.\*, buf.\*, ptp.\*, ver.\* | octets, a buffer, a descriptor | conversions, ioctls, clock calls |
| SWIG bindings, scripts, packaging | libpmc.i, mngIds.cc, testing.sh, ... | none | none at run time |

How they interact. `main()` reads its options and a ConfigFile, sets up a socket and
the parameters of the Message from both, and enters one of its loops. The tool owns one socket and one Message and is
single-threaded. A command line makes `run_line()` call `setAction()` with a
structure from the key parser; `sendAction()` calls `build()`, which has the
codec encode the structure, and `send()`. `rcv()` hands a packet to `parse()`,
which has the codec decode it and leaves the result in the same Message; the dump
reads it through the getters. `rcv_timeout()` repeats `tpoll()` and `rcv()`. Signal
handlers call `close()` of the socket at any moment.

What is hard about it:

- one object serves both directions and is reused: members survive from one call
  to the next, and early returns leave some of them behind;
- three counts of the same octets (cursor, octets left, `lengthField`) in `parse()`
  and `parseSig()`, on input of any length and content;
- `m_sigTlvs` is a vector whose element type drops its content when it is copied;
- object life cycle and file descriptor life cycle are separate variables;
- UDP-like transport: replies are lost, repeated, late or somebody else's, and
  the timeout is kept with a clock that can be stepped;
- two inputs in one `poll()`, stdio buffers in between, and signals;
- a configuration object whose reference outlives the node it names;
- four sources for each parameter (option, section of the interface, section
  "global", default) with conversions in between;
- three hand-written lists of the members of each id: keys, layouts and JSON.

What makes each part correct is stated as properties; section 4 lists them, and
`PROJECT.json` lists the hazards they are meant for, each at its line.

## 2. Modules

| Module | Models |
|---|---|
| Signaling | `Message::parseSig()`, one TLV of the loop per step |
| Message | class Message; EXTENDS Signaling, whose steps are the rest of a `parse()` of a signaling message |
| Layouts | the TLV functions of proc.cpp and sig.cpp as lists of fields, the table and the size functions |
| Codec | `proc()` of each kind of field, build and parse of one TLV; EXTENDS Layouts |
| SocketContract | abstract: what a user of a socket class may rely on |
| Socket | SockUnix, SockIp4, SockIp6, SockRaw; implements SocketContract |
| PmcTool | the tool around one Message (EXTENDS Message), with network, user, time and signals |
| KeyParser | `call_data()`, `parseKeysFunc()`, `parse_quote()` and the build functions of pmc_dump.cpp |
| Json | json.cpp: the writer and the members it writes; EXTENDS Codec |
| SetShow | a typed line through KeyParser, Codec and Json; EXTENDS KeyParser, Json |
| ConfigFile | cfg.cpp, with the nodes of its map as memory |
| Startup | `main()` up to its loops; EXTENDS ConfigFile |
| MCSignaling, MCMessage, MCCodec, MCPmcTool, MCStartup | small instances (Socket needs none) |
| MessageProofs, CodecProofs, RoundTripProofs, SetShowProofs, JsonProofs, SocketProofs, PmcToolProofs, ConfigProofs | theorems |

**Signaling.** `BeginSig` is the entry of `parseSig()` with its
`m_sigTlvs.clear()`, `SigTlv` one round of the loop (`SigTlvFails`: the returns;
`SigTlvPasses`: the rest), `EndSig` the normal return. A TLV is a record: type,
`lengthField`, management id, what its decoding function returns and how far it
moves the cursor. `Advance` is where the cursor goes: over the `lengthField`, or further, if the
function moved further, as that of the enhanced accuracy metrics does (`FloatExcess` octets,
msg.cpp:1142). `Insert` models what `vector::insert` does with the constructors
of `sigTlv`: when the block has to grow, `Regrown` moves the old elements with the
constructor that drops `tlv`. `GrownCapacity` is the growth of the standard
library (external). `pc` keeps other calls out while the loop runs; nothing else can
interleave with it. `epoch` flips with each message, so that an element of an
earlier message can be told apart.

**Message.** One action per call. `parse()` is split by its exits: too small, bad
header, signaling, not a reply, bad id, error status, management TLV; together
they are `Parse`. Sizes are the real octets (48, 54, 8, ...), so that off-by-one
errors matter. A received message is a record of the fields `parse()` looks at.
What `parse()` leaves uninitialised is a nondeterministic or marked value: in
`Init`, the members the constructor does not set; `WildData`, the pointer that
`call_tlv_data()` did not set. `pend`, `call` and `touched` are histories.
Left out: header fields that are only copied.

**Layouts and Codec.** A TLV function is a list of calls of `proc()`; `Layouts` writes
each as a sequence of fields with kind and width, `Var` for a length and what it
counts, `Counted` and `Open` for the two kinds of lists (`vector_f`, `vector_o`).
Two fields stand for one `proc()` where the code moves twice (`U48`, `Var`). `FieldLen` is the
length a `proc()` compares and moves: of a text or an octet string that is built, its own length
cut to an `uint16_t` (`Cut16`); `Copied` is what it writes, which for an octet string is all of
it (`Binary::copy()`).
`ProcWrites` and `ProcReads` are one `proc()` each, with its check of `m_left`, its
conversion and its `move()`; `NextRecord` is the head of the loop of a list,
`EndBuild` the padding, and `StartBuild`, `StartParse` and `Receive` are the callers. A
number is the sequence of its octets, least significant first, so that the byte
orders of the wire are real reversals and all widths are exact. Floating point
numbers stay octets (they are only moved). `sent` is what was built last, for
the comparison with what is parsed. What calls the codec in which state is the
business of Message and Signaling, where a TLV has the outcome of its decoding as a
parameter.

**Socket.** One object of any class and the kernel's descriptors and socket files.
Each system call may fail; `InitHalfWay` is any failure after `socket()`. Other
parts of the process open and close descriptors, so that a stale number would name
a foreign one. `Renew` is the destructor, where only `SockBase::closeBase()` runs,
followed by a new object.

**SocketContract.** status closed, open or dead; setters work exactly while closed;
`init` opens only what is closed; `close` closes, and if the class `reopens` the
object can be used again. `Contract` maps it to the code with `reopens` only for
SockUnix; `Promise` maps it with `reopens` for all classes, as sock.h says.

**PmcTool.** `at` is where the tool is; the actions are the pieces between two
points where the environment matters: the turn to a command, sending, `select()`,
`recv()` with `parse()`, each statement of `close()`. `Tick` lets time pass in
`select()`; `Ticks` ticks are one millisecond, the unit `tpoll()` cuts to.
`ClockSteps` is how far the wall clock may be stepped during one `select()`; a
negative difference is a huge unsigned value in the code and a timeout of 0 in
`Reduced`. `stdin` distinguishes terminal and pipe and what stdio has read ahead.
Network and user are actions of the environment; `Deliver` makes replies only to ids
that were asked for, any number of times.

**KeyParser.** A line is the sequence of its tokens, each with what the tokenizers and
`strtoll()` make of it; a number is an `int64_t` of eight octets. `ClockKeys`, `PortKeys`
and `LinuxptpKeys` are the `val_key_t` of the 33 build functions that have keys,
`ClockMembers`, `PortMembers` and `LinuxptpMembers` what they store into the structure.
One step is one round of the loop: `KeyAndValue`, `ValueAlone` (the only key of an id need
not be named), `NoMoreTokens`, `ParseError`. A quoted text is one token; for a key that takes no
string, where `strtok_r()` would split it at its separators (pmc_dump.cpp:740, 769), no quoted
text with a separator is among the lines. `behind` is what stands in memory behind the
line, where `parse_quote()` may run to; `Garbage` are the octets of members that a build
function does not set.

**Json.** `Write` runs calls of the writer (`startName()`, `startObject()`, ...) on its
state and gives the tokens of the document. `ClockMembersShown`, `TimeMembersShown` and
`PortMembersShown` are the lists of `PROC_VAL`, `PROC_FLG` and so on, each with the fields of
the layout it reads. Layout and digits are left out; a value is the octets it shows. An enum is
written by name: the name of a value stands for its octets (`NameOf`), and all values without
name become the same word, `Unnamed` ("unknown clock" and the like).

**SetShow.** The composition: `ReadLine` (KeyParser), `SendTyped` (the structure goes to
`build()` in the buffer of the tool), the steps of the codec with `StartParse` on what was
built, and `WriteJson`. `NextOne` goes back to the initial state before the next line or
message. It loses no state: `call_data()` makes new keys, and `Start` of the codec sets every
variable, so nothing of an earlier line can be seen by a later one.

**ConfigFile.** A section of the map lives in a chunk; `cfgGlobal` is the chunk the
reference was bound to by the constructor. `ReadCfgBegin` clears the map: the new "global"
gets any chunk used so far (the allocator reuses freed ones of that size first, which
one it may choose freely), and the reference keeps its own. `Header`, `BrokenHeader`, `OtherKey`,
`KeyLine`, `BareKey` and `EndOfFile` are the kinds of lines and the end. Numbers a
constructor does not set are `Junk` or what the chunk held. `given` is a history: what the
lines of this file said.

**Startup.** `GetOption` is one round of `getopt_long()`, then `OpenFile` and `ReadFile`
(the actions of ConfigFile), `Parameters`, `OpenSocket` with the setters of the socket,
`UpdateParams`. `at = "lib"` is an application that uses a ConfigFile alone and reads
several files. Integers are cut to octets where the code does so (`Octet8`).

Definitions that begin with "Mutant:" in their comment are variants of the
definition below them with a plausible error; no specification uses them. Each
property of a passing run is violated when its variant is put in place.

## 3. Names and types

`ids.h` becomes the constants `Ids`, `Size`, `Allowed`, `LinuxptpIds`, `EmptyIds`,
`EmptySize`. TLC gets one id of each class of the table. Error codes drop their
prefix `MNG_PARSE_ERROR_`. `UnknownId` is an id no line of the table has. All
named bounds are constants or in MC modules: `MaxDeliver` (messages that arrive),
`Scripts` (commands), `SigSizes` (message sizes), `LongLen` (octets of a long TLV), `BufSizes` (buffers), `SeqMod`
(65536 in the code), `MaxOptions`, `MaxLines`, `MaxReads` (options, lines and files),
`TypedLines` (lines for the key parser).

## 4. Runs

| Run | States | Checks |
|---|---|---|
| Signaling | 428 thousand | `SigTypeOK`, `CursorInStep`, `OnlyThisMessage`, `FilterRespected`, `LossInOlderHalf`, `LoopConsumes` |
| MessageReply | 115 thousand | `TypeOK`, `ReadsInsideMessage`, `AcceptedReplyIsLegal`, `RejectedKeepsData` |
| MessageBuild | 379 thousand | `StructMatchesId`, `PlannedLenIsExact`, `SignalingOnDemand` |
| Socket | 10 thousand | `OwnsItsFd`, `NoFdLeak`, `FileOfLiveSocket`, `KeepsContract` |
| PmcSafety | 1.9 million | `ToolTypeOK`, `WaitIsBounded`, `NeverPollsForever`, `BuildReadsLiveData`, `OneReplyPerRequest`, `SequenceTellsApart`, `ExitLeavesNoFile` |
| PmcEnds | 368 thousand | `BatchEnds`, `EndsWithInput` |
| Codec | 35 thousand | `CodecTypeOK`, `StaysInside`, `RoundTrip`, `TruncatedRejected`, `PlanIsKept`, `FixedSizeIsExact`, `RecordsFit`, `SizesAgree`, `KeysMatchLine`, `SetIsShown`, `JsonWellFormed`, `JsonShowsEveryMember` |
| Startup | 965 thousand | `GettersFollowFile`, `StartsAsAsked` |
| SignalingData | violated | `EveryTlvHasData` |
| SocketPromise | violated | `KeepsPromise` |
| PmcPipeEof | violated | `EndsWithInput` |
| CodecFloat | violated | `FixedSizeIsExact` |

What the passing runs show.

- *Signaling*: up to 24 octets of short TLVs of each class of the switch, with fitting, empty and
  truncated fields, and up to 366 octets of long TLVs, with enhanced accuracy metrics of 115 to 130
  octets between others (`LongOfLong`: long messages have no short TLVs, or their number would
  explode). Each round consumes octets, filters hold across changes of the parameters, no element
  of an earlier message survives, and a structure that the growth of the vector loses is in the
  older half of its memory block. Cursor and count stay in step but for the metrics: from 116 octets
  on they are accepted, and up to 123 they leave the cursor behind their field, by eight octets at
  most for each of them. The next header is then read that far behind its place, at the end of the
  message behind the octets received. Behind any other TLV the two agree.
- *MessageReply*: 33 kinds of messages, right and wrong in each field `parse()`
  looks at, in any order. No exit reads behind the message; only legal replies are
  accepted; a rejected message leaves the earlier data alone.
- *MessageBuild*: buffers one octet around each length. The plan is exact, and
  `build()` never casts the structure of another id, as long as no reply came
  between `setAction()` and `build()`.
- *Socket*: three descriptors suffice for an own one, an abandoned one and one of
  others; two valid addresses and an invalid one for a changed parameter.
- *PmcSafety*: two messages arrive (one to ignore and one to count, or a
  repeated one), up to four commands with sequence numbers that wrap after three,
  each command failing at any point, clock steps of -1, 0 and 3 against a timeout
  of 2 milliseconds, and a signal in any state.
- *PmcEnds*: three messages, so that batch mode can be disturbed in each of its
  two waits and once more.

- *Codec*: all TLV functions but the one with floating point. Every id that can be sent is built with buffers one
  octet short, exact and larger, then parsed whole and cut at every even length;
  texts of 0, 1, 2, 255, 256 and 65539 octets, tables of 0 to 3 records, 48 bit values at and
  above their limit, flags outside their mask. Every fixed TLV is received with too
  few, enough and more octets; lists with and without count at and around each
  boundary of a record; fault records and addresses whose lengths are wrong. A dataField has an
  even number of octets in a management message, as `parse()` gives up all others before it
  calls the codec (msg.cpp:460), and any number in a MANAGEMENT TLV of a signaling message
  (msg.cpp:535); both are received, and of an odd one `FixedSizeIsExact` says nothing. `SizesAgree`
  adds the octets of the fields up and compares them with the three places that count them by
  hand: ids.h, the nine size functions of proc.cpp and `size()` of the records. A size function is
  called with the structure to be sent or, for a GET, with an empty one, so with these it is
  compared. That of CLOCK_DESCRIPTION, which is only ever called with an empty structure, counts 13
  (proc.cpp:18) of the 14 octets that its `proc()` calls always move; a GET does not notice, since
  its 21 octets are made the even 22. For each
  of the 33 ids with keys, lines with no key, the required ones, all of them, one missing,
  one too many, an unknown one and one without value, and for each key its bounds, the numbers
  just outside, words, digits of another base, texts of 255 and 256 octets, quotes that
  are not closed: the parser takes exactly the right lines (`KeysMatchLine`), and what was
  typed comes out of `msg2json()` under its name after `build()` and `parse()`
  (`SetIsShown`; of an enum its name, or the word for all values that have none). `JsonShowsEveryMember` compares the lists of json.cpp with the layouts of
  proc.cpp, for every id; `JsonWellFormed` reads the document back with an independent reader.
- *Startup*: any four of 24 options (each letter, values in and out of range), files of
  up to three of eleven lines, two files for an application. Two sections are
  enough for one that falls back to "global", three chunks for both nodes and one more.
  Chunks are only compared with each other, so they are a symmetry set.

The fairness of PmcEnds and PmcPipeEof: the process gets the processor (its
steps are taken when enabled), time passes in `select()`, the user types the
script and ends the input. No fairness is assumed of the network, of signals or of
the clock. For the network mode the property fails (below) and PmcEnds leaves that
mode out.

What the violated runs show. Each is a disagreement of the code with a comment of
the repository, quoted in `PROJECT.json`.

1. SignalingData: with two TLVs the vector grows, and the first loses its
   structure; `getSigTlv()` returns a null pointer for it. `traversSigTlvs()` copies each element
   on its way (msg.cpp:572, `for(auto tlv : m_sigTlvs)`) and returns a null pointer for all.
2. SocketPromise: `close()` of the network sockets leaves `m_isInit` set, so they can
   neither be changed nor initialized again.
3. PmcPipeEof: the loop of the network mode ignores POLLHUP and lines that stdio
   has read ahead; with a pipe for input it never ends.
4. CodecFloat: `proc(Float64_t)` moves the cursor twice, so enhanced accuracy metrics with
   the 84 octets of their fields are refused as too small. With 116 to 123 octets they are
   accepted and the cursor leaves the field, so `parseSig()` reads the next header behind the place
   where it stands (`CursorInStep` says how far).

Met while modelling, of the same kind, without a run of their own: a reply with an empty
dataField is accepted while `getData()` goes on returning the structure of an earlier reply,
of another id, which `msg2json()` and the dump then cast by the new id, and `m_mngType` is
skipped likewise (msg.cpp:463); an address of 65536 octets or more passes the check of `build()`
with its length modulo 65536, and `Binary::copy()` then writes all of it, behind the buffer
(msg.cpp:1161, bin.h:121: the precondition `Short` of `StaysInside`, `PlanIsKept` and `SizesAgree`);
`CLOCK_DESCRIPTION_s()` counts one octet too few (proc.cpp:18), which only the padding hides; an error without text
keeps the text of an earlier one (msg.cpp:446); a reply parsed between
`setAction()` and `build()` changes the id that is built (msg.cpp:455, visible in the
precondition of `StructMatchesId`); a signaling message that is rejected sets
`m_type`, under which `getSigTlvsCount()` counts the TLVs of an earlier one (msg.cpp:380);
`SockRaw::initBase()` overwrites the descriptor of an attempt that failed half way
(sock.cpp:538, the exception in `NoFdLeak`); `run_line()` does not free the
structure when `setAction()` or the sending fails (pmc.cpp:210); the option `-d`
converts the argument of `-b` (pmc.cpp:358, left out of `StartsAsAsked`); a
`transportSpecific` above 15 makes `updateParams()` refuse all parameters, which `main()` does
not notice (pmc.cpp:471); arguments of `-T`, `-S`, `-P` are cut to octets before their range
is checked; in a second `read_cfg()` the reference `cfgGlobal` dangles, and when the
allocator moves "global" the getters return the defaults instead of what the file says
(cfg.cpp:154, the precondition of `GettersFollowFile`); a `LOG_SYNC_INTERVAL` above 0 is sent as 1
(pmc_dump.cpp:956); the time source of `TIMESCALE_PROPERTIES` and the key field of
`ALTERNATE_TIME_OFFSET_ENABLE` are sent uninitialised (pmc_dump.cpp:1025, 1094); a key at the
end of a line whose value is missing is dropped without an error, and one that may have a
string reads behind the line (pmc_dump.cpp:632); JSON strings are not escaped
(json.cpp:115, in `JsonWellFormed`), lists are written empty (json.cpp:262), values of enums without name are all written alike
(json.cpp:187), and a
signaling message is shown as "Unsupported" (json.cpp:717); a text of 256 octets is written in full
behind a length of 0, which is why `RoundTrip` speaks of what `Fits` (msg.cpp:1260);
`ALTERNATE_TIME_OFFSET_INDICATOR` reads its UInteger48 `timeOfNextJump` from eight octets
(sig.cpp:27), where the management TLV of the same value uses six.

## 5. Proofs

Everything below is proved from the named assumptions of the modules, without further
trust. They give the types of the constants and say what the tables of libpmc are: which ids
have a structure (Message), how the layouts of TLV functions are put together (Codec: a length
stands before what it counts, a counted list has a counter), that no dataField without octets is
decoded (msg.cpp:463, 535), that the buffer of the tool is among those an application builds in
(PmcTool), that `read_cfg()` stores numbers in the range of their key only (ConfigFile,
Startup), that a line is a sequence of tokens, whose numbers have the eight octets of an
`int64_t` and whose texts are octets (KeyParser). TLC evaluates each of them on its instance.

- *MessageProofs*, `parseSig()`. `SigTypeOK` is inductive and the base of the rest; the point is that
  `leftAll` never becomes negative, because the header is compared with `tlvSize` and
  then with the `lengthField`. `CursorStaysInStep` needs to know how far decoding functions move the cursor
  (`MovesAsFar`, a hypothesis of the theorem: not behind their field, and the metrics at most eight
  octets behind it, which is what `CursorStaysInside` of CodecProofs shows). The distance between
  cursor and count is then at most eight octets for each of the metrics in the vector.
  `KeptElements` says that growing the vector changes only `data` of an element; from it follow
  `VectorIsOfLastMessage` and `FilterHolds`. `LossStaysInOlderHalf`: the block doubles when it is
  full, so all elements that are then built anew, and all that older messages may have left, are
  in its older half. `LoopMakesProgress` is the
  variant of the loop, for messages of any length. `SigStep` names what a step may do to the
  variables of `parseSig()`, so that the lemmas carry over to the class and to the tool.
- *MessageProofs*, the class. `StructMatchesId` is not inductive: a reply that restores the id of the
  request makes its precondition true again. `RequestInv` states the same of `pend`,
  which no reply touches, and is. `PlanIsExact` uses `PlanInv`, that a signaling message is
  only walked inside a `parse()`, and one lemma per result of `build()`.
  `NeverReadsBehind`, `OnlyLegalReplies` and `DataKeptOnError` have one step per exit of
  `parse()`. `MessageTypeCorrect` is the type invariant. `VectorSoundInMessage` carries the
  results about the vector over to the class: each call is a `SigStep` or leaves the vector
  alone. `SignalingIsOnDemand` rests on `OnDemandInv`, that the message which the loop walks is
  the one `parse()` was called with, until the call returns.
- *PmcToolProofs.* `ToolImplementsMessage` is the refinement of the composition: every step of
  the tool is a call of the class Message or leaves it alone, so all that MessageProofs shows
  holds in the tool. `ToolTypeCorrect` needs `CountInv`: batch mode is inside a
  wait only for a request that it still counts, so `pkts` never becomes negative.
  `NoFileIsLeft`: `FileInv` says that the file exists only while a `close()` would remove it,
  wherever a signal starts another one; it begins where `main()` has installed its handlers, so a
  return of `main()` before that is not part of it. `NumbersTellApart`: `SeqInv` says that the counter is
  the number of requests on the wire, since a failed `send()` does not advance it, and that
  theirs are its values cut to the field; two numbers less than that width apart have different remainders
  (`RemaindersDiffer`). `RepliesAreDue` (`Balanced`): in batch mode each reply that is
  counted is taken off what is due, and on the Unix socket the request that is waited for has
  not been counted yet. `WaitsNoLonger` (`TimeInv`, `Bound`) accounts for the time of every
  `select()` against what `tpoll()` subtracts. `NeverBlocksForever`: whatever the clock does,
  `rcv_timeout()` polls again only with time left. `BuildsFromLiveData`: between `setAction()`
  and `build()` of the tool nothing is parsed.
- *CodecProofs.* For any layouts, structures and octets. The invariants are proved of `UseSpec`,
  every way to use the codec: any structure with the members of its id, built in a buffer of any
  size, any steps of `proc()`, and fresh starts. `CodecSpec` is one (`CodecIsUse`). The strengthening `Inv` says
  that `m_cur`, `m_size` and `m_left` count the same octets, that the octets to read
  are there, and that a structure keeps its shape while it is written (`BuildOK`).
  `MoveInside` is the heart: a `proc()` that finds the octets it needs moves by no
  more than are left, whether the length is fixed, from the structure or from the
  wire, and by eight more if it is a `Float64_t`, the last that is found. `CursorStaysInside` says
  that for every layout, and that `build()` copies inside its buffer (`CopiesWhatFits`) as long
  as no octet string has 65536 octets: from there on the length that is compared is cut
  (`Short`), and the code does write behind its buffer.
  `FixedSizesExact` and `OpenListsEndBetweenRecords` add that the cursor stands where the
  fields before it end (`ReceiveInv`). Where they end is a sum (`Ends`), a recursive function;
  its equations come from `Inductive`, induction over the numbers with a set in place of an
  operator. Their hypothesis `SizesAgree`, that tables and fields add up to the same, is
  proved for the tables of libpmc in RoundTripProofs, and their hypothesis `NoFloat` (these two
  theorems only) leaves out what CodecFloat shows to be wrong.
- *RoundTripProofs.* Each field of a structure has its place on the wire (`At`), which depends
  on the lengths of the fields before it only. `BuildInv`: the fields before the cursor of
  `build()` stand at their places. `SentInv`: so do all of them in what was sent. `ParseInv`:
  `parse()` stands at the place of a field and has read those before as they were built;
  lengths and counters are among them, so it goes on to the same places (`SamePlaces`).
  `ParseInvertsBuild`, `FrontPartsRejected` (a front part ends before the place of some field)
  and `PlansAreKept` follow. The conversions of `proc()` are undone one by one (`DigitsBack`,
  `WireBack`).
- *RoundTripProofs*, the sizes. Here the hypothesis is `LibraryTables`: the layouts are those of
  proc.cpp and sig.cpp and only ids that ids.h allows to set or command are sent with a
  structure. TLC evaluates it on MCCodec; structures, texts and lists stay arbitrary, texts and
  addresses below the 65536 octets where their length is cut (`Short`, `IsShort`). The octets
  of fixed fields add up over a concatenation (`FixedBoth`), so each table is added up entry by
  entry (`ClockSizes`, `TimeSizes`, `PortSizes`, `SigSizes`) and the records of lists with it
  (`ListsSum`). The ids whose size varies get an argument of their own: one or two texts or
  addresses after a fixed part, or a list whose records are added up (`TextPlans`,
  `AddressPlans`, `MasterPlans`). The empty structure of a GET is added up likewise for all nine size
  functions (`VariableHeads`, `EmptyPlans`), where the one of CLOCK_DESCRIPTION comes out right by
  its padding only. `LibrarySizesAgree` is the result, and `LibraryKeepsItsSizes`
  discharges with it the hypotheses of `PlansAreKept`, `FixedSizesExact` and
  `OpenListsEndBetweenRecords`: the enhanced accuracy metrics, the finding of CodecFloat, are the
  only TLV that the last two are not said of (`OnlyMetricsFloat`).
- *SetShowProofs.* `LinesAreUnderstood`: in each round of the loop the keys hold what the
  front of the line says (`KeysHold`), and this front is right (`RightTo`). A round adds the
  place of one value to one key (`OneMoreValue`), which replaces its text, and its number if
  it is one (`ValueAdded`); each way to refuse a line names a place where the line is wrong
  (`ParseErrorKeeps`), and at the end no value is left (`AllTaken`). It is proved of
  `SetShowSpec`, the specification that the run Codec checks.
- *SetShowProofs*, the structures. `TypedHasShape`: whatever was typed, the structure of a build
  function has the members that the layout of its id moves, each with its octets. `ShapeInv`
  says that at all times each key holds eight octets, or a text; each build function is then
  compared with the layout of its id, member by member (`ClockMade`, `PortMade`,
  `LinuxptpMade`), where a layout is put together of parts that each have their shape
  (`ShapedBoth`). The version is the one member whose value matters to its shape: both its
  digits must be below 16, which they are since their keys are limited to 15 (`VersionDigits`).
  So the composition of key parser, codec and JSON is a use of the codec (`SetShowUses`), and
  `TypedGoesThrough` carries what CodecProofs and RoundTripProofs show over to it.
- *JsonProofs.* `JsonIsWellFormed`. The writer keeps one flag and a stack of flags, the reader
  of the property a state and a stack of brackets. `Inside` relates them: the flag is set exactly
  while the reader expects the first member of its bracket, and the stacks are equally deep. No
  single call keeps that, but a call sequence for a whole member does (`Neutral`): a value, an
  object from `startObject()` to `closeObject()`, an array. `Neutral` is closed under
  concatenation of any length (`NeutralBoth`, `FlattenNeutral`), every member that json.cpp
  lists is one of these, so the body of every id is, and `MessageIsJson` adds the outermost object.
  A text that needs an escape makes the reader fail for good (`ErrorStays`), which is the
  other direction. Writer and reader are recursive functions; `FoldExists` and `FoldsAgree`
  give their equations.
- *SocketProofs.* `SockInv` is the conjunction of the four invariants, inductive
  together: the ownership of `m_fd` needs that no descriptor is lost and vice
  versa. `ImplementsContract` proves the refinement: the initial states map to
  initial states, and each step, given `SockInv`, to a step of the contract or a
  stutter.
- *ConfigProofs.* For any sections, keys, ranges, files and number of reads.
  `GettersFollowFile` is not inductive. `ConfigInv` adds that no two sections share a chunk
  and all of them are in use (`NodesApart`), that before the first file only one chunk was
  ever handed out, so the first file finds "global" where the reference points
  (`FirstAliased`), and that each node holds what its lines gave (`Faithful`). `PlacedApart` and
  `NodeWritten` are the step of a line, `BeginKeeps` the start of a file.
  `StartFollows` shows that `main()` uses ConfigFile only by its actions, and carries the
  result over. `RunsWithWhatWasAsked` follows each parameter through `main()` to the setters.

Only model-checked: the liveness properties `BatchEnds` and `EndsWithInput` (fairness and
ENABLED are beyond the proof system), and `SetIsShown` and `JsonShowsEveryMember`, which compare
the tables of keys, layouts and members with each other: TLC goes through all of their entries,
so the run is complete in the ids and members, and bounded in the values only.

## 6. Not modelled, and the plan

Not modelled for good: the functions `dump_*` and other formatting, Buf, version,
bindings, scripts and packaging (no state or no logic); the conversions of Binary,
which work on characters one by one and keep nothing; the ioctls of IfInfo and PtpClock (the kernel's);
`sendTo()`, `rcvFrom()`, the packet filter and the headers of raw sockets, which are
parameters of system calls; what happens inside the C library when a handler
interrupts it.

Planned: an abstract specification of a wait with a deadline, implemented by `rcv_timeout()`.
