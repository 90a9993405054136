# swICC in TLA+

swICC emulates the card side of a smart card (ICC): the T=0 transport of
ISO/IEC 7816-3, and the file system and interindustry commands of ISO/IEC
7816-4. This directory models its core in TLA+, checks the models with TLC and
proves theorems about them with TLAPS. Paths such as `fsm.c:386` are relative to
`src/src/`; headers are in `src/include/swicc/`.

Contents: 1 inventory, 2 modules and their relation to the code, 3 runs,
4 fairness, 5 proofs, 6 disagreements in the code, 7 what is left out,
8 plan.

## 1. The system

    interface driver  ---- contacts, bytes, TX buffer ---->  swicc_io (io.c)
     (mock.c, net.c)  <--- bytes wanted, bytes sent -------      |
                                                             swicc_fsm (fsm.c)
                                                              |          |
                                              swicc_pps (pps.c)      swicc_apduh_demux (apduh.c)
                                                                      |              |
                                                     RC buffer (apdu_rc.c)      swicc_va_* (fs/va.c)
                                                                                     |
                                                                            swicc_disk_* (fs/disk.c, fs/diskjs.c)

Everything runs in one thread and by plain calls. A driver owns a `swicc_st`,
writes its inputs into it and calls `swicc_io`, which runs one handler of the
state machine to completion. What is hard is therefore not threads but
*sequences*: a handler knows what happened before only through the state kept
between calls, and the driver decides what the next call is: it may cut
bytes into pieces, remove the power, reset the card, or begin another command.
Processes meet only in `net.c`, where cards are clients of a server that passes
on what a reader wants; there messages, disconnects and signals interleave.

| Component | State it keeps | Operations | Hard behaviour | What makes it correct |
|---|---|---|---|---|
| Card state machine `fsm.c`, `io.c`, `common.c` | state, PPS buffer, header, "processed" flag, ACK count, command data, bound APDU, contacts | `swicc_io` (nine handlers), `swicc_reset` | power loss at any point, bytes in pieces, flags that decide whether old bytes still count | buffers never overrun, no handler without a command, headers of one command only, every command answered |
| Transport `tpdu.c`, `apdu.c` | none | parse header, deparse answer | TX buffer too small, malformed status | an answer is sent whatever the handler produced |
| Drivers `mock.c`, `net.c` | contacts, sockets | cold reset, PPS, message loop | order of the contacts; losing step with the card | both sides agree whose turn it is |
| RC buffer `apdu_rc.c` | bytes, length, offset | reset, enqueue, dequeue, remaining | partial fetches, room not reclaimed, unsigned subtraction | it is a queue |
| APDU demultiplexer and GET RESPONSE `apduh.c` | the RC buffer, registered handlers | demux, GET RESPONSE | commands between two fetches; a response longer than 61xx can say | what is announced is there; nothing lost or resumed |
| PPS `pps.c` | `tp` (Fi, Di, f(max), ETU) | parse, response, success test | disturbed bytes, dropped PPS1 | nothing is agreed that was not meant |
| Validity area `fs/va.c` | tree, application, DF, EF, file, record | select by ID, SID, name, path, record; reset | partly rebuilt from the previous selection | its parts belong together |
| Disk `fs/disk.c`, `fs/common.c` | forest, LUT of IDs, LUT of SIDs per tree | create, load, save, unload, iterate, lookups, records | repeated IDs and SIDs, offsets in buffers, a table half rebuilt, a save cut off, calls that fail half way | it is whole or not there; lookups find what is there, the latest for a key |
| File handlers `apduh.c` | none of their own | SELECT, READ BINARY, READ RECORD, UPDATE RECORD | two runs per command, several checks before one effect | effect and selection belong together; errors leave no trace |
| Disk description `fs/diskjs.c` | forest under construction | parse JSON | nesting, offsets relative to the parent, a buffer that grows and starts again | the forest is the one described; the buffer grows only when it must |
| BER-TLV `dato.c` | decoder and encoder cursor | header parse/deparse, decode, encode with a dry run | multi-byte lengths; nested encoders on one buffer; sizes computed first, written second | what was written is read back; sizes agree |
| Network `net.c` | sockets, slots, shutdown flag | send, receive, connect, disconnect, client loop | short reads, disconnects, signals before a blocking call | one slot per client; every request answered, by the reply that belongs to it |
| ATR, hex strings, debug, dummy server | constants or nothing | formatting, terminal I/O | none | - |

`PROJECT.json` lists the same parts under `components` with their status, and
under `hazards` each place where a long or unlucky sequence would bite, with the
properties that look at it.

## 2. Modules and code

Actions are whole handlers. A handler's early returns are disjuncts, its
conditions the guards, and everything it leaves behind is in the action.
Bytes are values only where the code looks at them. A definition that code
could easily have got wrong is sometimes preceded by the mistaken form
(`PpsFitsOver` before `PpsFits`); no specification uses these, they are there to
show that a property notices the mistake.

**CardFsm** is the state machine. `Io` is `swicc_io`: it stores the contacts and
runs the handler of `fsm_state`; `FsmOff` ... `FsmCmdData` are
`fsm_handle_s_off` ... `fsm_handle_s_cmd_data`, `Reset` is `swicc_reset`. Kept: all
of `swicc_st` that decides anything. `tpdu_hdr` holds the header bytes,
`apdu_bound` says that `apdu_cur` points to a parsed command, `data_len` counts
command data, `pps_exp` is what PPS0 announces (chosen when PPS0 arrives).
The answer of `swicc_apduh_demux` is an input (`Result`): ACK, NULL, status, or a
malformed status, with a length. `Next` is *any* driver: any contacts, chunks and
buffer sizes in any state.

**T0Session** composes CardFsm with a well-behaved interface: it raises the
contacts in the order of `swicc_mock_reset_cold` (possibly slowly), sends the
bytes the card asked for in pieces of its choice, begins with a PPS or not,
repeats a refused PPS, sends data after an ACK, and may remove the power or
reset the card at any point. `ResetBeforePower` says whether the driver resets
the card before powering it, as the mock does. Header bytes carry their position
and the command they belong to. **T0Card** is the abstract promise to the
interface (phase, rounds of ACK, message of the last turn); `KeepsPromise`
states that the session implements it under the mapping in `T0Session`.

**ApduRc** is the RC buffer with its three calls in any order; **ByteQueue** is
what it promises. **ResponseChain** puts the demultiplexer on top: `RunHandler` is
one call of `swicc_apduh_demux`, with the reset of the buffer, the proprietary
handler that comes first, and the handlers of GET RESPONSE and SELECT. Which file
a SELECT finds is open here; `Other` stands for the commands that answer with
their own data. `fetches` tells the interface that goes on with a chain from one
that does as it likes; it is chosen once. `chain`, `received` and `stale` are
history, not program state.

**Pps** is the exchange with its bytes, tables and XOR: parsing, response,
success test and the assignment of `tp`. Each run is one complete request, one
step. A byte behind PPSS may be disturbed in any way; when that makes PPS0 announce fewer
bytes the card handles what it was told to expect (`line` is "cut"), when it announces more
the card waits and handles nothing. `XorByte` is the operator of C from the bits of its operands.
CardFsm abstracts from the bytes; `FsmView` is precisely what it assumes.

**Forest** is a mounted disk: a constant, as no command changes a header.
`LookupId` and `LookupSid` are the lookup tables (later entries first), `Step` and
`Walk` the search along a path, `AdfByAid` and `DfByName` the searches by name.
**Va** is the validity area; `Selected` is `va_select_file`. **FileCommands** are
the handlers, each run twice where the code is, with their checks in the
order of the code. Of a file only type, IDs, parent, name and sizes matter; what
is read or written is a range of bytes (`out`). `hint` is history: the command
that the last answer 6Cxx asked for.

**Net** is `net.c`: a server (`listening`, its accept queue, `slot` for
`sock_client`) and the clients of its connections, each in the loop of
`swicc_net_client` (`pc`: at the test, in `recv`, leaving). `TestLoop` and
`RecvFails` or `Serve` are one pass of the loop: test and `recv` are two steps since a
signal may come between them (`Shutdown`). Client and server each handle one
message at a time, so a direction holds at most one. Of a request
only its kind of control is kept, of a reply only `buf_len_exp`; what the card does
with the bytes is in the modules above, here it wants any number afterwards. A
message in pieces makes `msg_recv` fail and leaves a `Rest`. The program around the
server is that of `tool/server-dummy`, with several slots, more controls and
disconnects when it likes. `mark` is history: which request a reply is to.

**Lut** is a lookup table, a sequence of entries with the room allocated for it.
`LutInsert`, `LutProbe` and `LutPlace` are one `lut_insert`: it makes room, halves the
range in which the key belongs step by step, and moves what is behind. `LutLookup` is the search
from the front. **LatestByKey** is what a table promises: a function from keys to
files in which the last entry put in wins.

**DiskJs** has the parsers of `diskjs.c` as a pure function, `Prs`, one
definition per parser: from a description and the room it has to the bytes taken and
the headers written, with their offsets relative to the parent, or the failure. The
parsers call each other through `jsitem_prs_demux`; here the recursion is over how deep items are nested
(`Prs[n]` from `Prs[n - 1]`), at most `Depth`, as cJSON refuses deeper text. `PrsUnsized` is what they make of
a record EF without `rcrd_size`: a success that takes all the room (section 6). **Disk**
puts it and Lut together: create, save, load and unload in any order, the buffer
that grows and the parse that starts again, the walk through a tree (`Foreach`) and the
tables rebuilt by its callbacks, file by file and tree by tree (`InsertNext`, `SkipNext`), and
a process that may end between any two steps (`Crash`) or while it writes (`SaveCut`),
which leaves the file with what has been written. A walk ends well, with an error, or, at a file of size 0,
`never`: then the call does not return, and only the end of the process goes on from there. Descriptions are inputs and bad
ones are among them. `whole` is history: whether a file holds all trees of the description.

**BerTlvEncoder** is the encoder of `dato.c`: encoders (`size`, `len`, `offset`, a
length of the value) on a stack, and one action each for data, a header, and the start and
end of a nested block, first in a dry run and then in a buffer of the length
found, or one byte off. It keeps the bytes of headers and who wrote the others.
**BerTlv** adds the decoder and a reader that goes through the result by
`swicc_dato_bertlv_dec_next` and `_dec_cur`.

**T0SessionProofs** (with the theorems about CardFsm), **ResponseChainProofs**, **PpsProofs**,
**FileProofs**, **NetProofs**, **DiskProofs**, **DiskTreesProofs** and **BerTlvProofs** hold theorems
only. The MC modules give constants their values.

## 3. Runs

| Run | What is asked | Bounds, and why they are enough |
|---|---|---|
| `card_any_driver` | `TypeOK`, `HandlersCanRely` under any driver | Five contact states (each rung of the activation, and VCC off but flagged), chunks of 0, 1, 4 and 6 bytes against buffers of 6, 5 and 1, one ACK. Every comparison with a capacity is met below, at and above it. |
| `session` | agreement of card and interface (`TurnsAgree`, `HeaderIntact`, `RequestFits`, `HandlerStartsClean`), liveness `EveryCommandEnds`, refinement `KeepsPromise` | Headers of 5 bytes and requests of 3 to 6 in every division, up to 5 bytes of data, 4 ACKs (the real limit), a TX buffer that takes every answer and one that takes the ATR but not the longest answer, any number of commands, power cycles and resets. Two marks for commands suffice to tell a byte of this command from one of the previous. |
| `rc_buffer` | `RcTypeOK`, refinement `IsQueue` | Two byte values, capacity 5, chunks of 0 to 3, dequeues of 0 to 6. |
| `chain` | `ReceivedInOrder`, `AnnouncedIsThere`, `DoneMeansAll`, `InterruptedNeverResumes`, liveness `FetchCompletes` | P3 up to 2, responses up to 3 and buffer of 4: longer than one announcement, and two responses that do not fit together. All classes, proprietary handler that overrides. |
| `pps_bytes` | `DisturbanceNoticed`, `ResponseWellFormed`, `FsmView` | Every shape of request with nine PPS1 values; each byte behind PPSS disturbed in each single bit, in two neighbouring ones, in the bits that announce PPS1 and PPS2, and in all, which makes messages shorter as well. One request at a time, as `swicc_pps` keeps nothing; `CHECK_DEADLOCK FALSE` because the exchange ends there. |
| `files` | `FilesTypeOK`, `VaConsistent`, `InCurrentEf`, `RecordExists`, `SelectionNeedsSuccess`, `RetrySucceeds`, `PathStaysInApp` | A disk with an MF and two applications, every type of EF, repeated IDs, SIDs and beginnings of names, an empty EF and one with 300 records; paths of up to four IDs; any sequence of commands and resets. |
| `net` | `SocketsKept`, `ReplyMatches`, `ToldIsCurrent`, `ErrorMeansUnheard`, liveness `RequestEnds`, `ShutdownEnds` | Two clients, one slot: one client waits in the queue while the other is served, cut off or gone, and takes over its slot; every kind of request; any number of connections one after the other; creation and destruction of the server at any point. `SocketsKept` also holds with a second slot (checked without the liveness properties, which take too long there). |
| `bertlv` | `Bookkeeping`, `ExactFits`, `DecodesBack` | Up to six calls: enough for two objects in a nested block and one beside it. Tags of one, two and three bytes, constructed and invalid ones; values of 1 and 127 bytes, so that a nested block passes 127, where a length takes a second byte (what the decoder makes of that is `bertlv_long`). Buffers exact and one byte off. `CHECK_DEADLOCK FALSE`: a document ends. |
| `disk` | `LutSorted`, `TreesAreDescribed`, `FilesAreFound`, `UsableOrAbsent`, refinement `IsDict`, action property `GrowthIsNeeded` | Up to four trees with up to six files, items nested three deep, each type of file, in and out of place; IDs and SIDs missing, distinct, falling, and shared within a tree and across trees; names and values that cannot be read; record EFs without `rcrd_size`, alone, before and behind other items, in a folder and in another EF; tables that start with room for two and grow by one, buffers that grow from 40 by 20 up to 250, tree numbers that wrap at 3. |
| `pps_reserved`, `df_name`, `bertlv_long` | one statement of a comment or assertion each, which the code does not meet | see section 6. |

What they show: under *any* driver the fixed buffers hold and no handler runs
without its command; under a driver that behaves, and resets the card before
power, card and interface never lose step although the card recognises phases by
byte counts alone, and every command that reaches its handler is answered,
whatever was interrupted before. Response chaining loses and repeats
nothing under partial, refused and interrupted fetches. Whatever is carried over
from one selection to the next fits, and a command that fails leaves the
selection alone (but for a file whose template cannot be built). Over the network,
replies stay with their requests although messages carry no number, because
both ends give up a connection on the first failure, and neither end is left
waiting. A disk is, after any sequence of calls and any end of the process,
either absent or there with all its tables, and every file is found by its IDs,
the last of several. It has all trees of its description, unless its file is what a
save that was cut off has left (`TreesAreDescribed`). A template that SELECT answers with has exactly the
length the dry run found, and short ones read back as written.

The two bounds that are real limits of the model and not only of the run:
handlers send at most four ACKs in `session` (`HandlerAcks`; none in `apduh.c`
sends more than one) and never NULL in that run (none in `apduh.c` does). A fifth ACK, after
which a command has no answer, is met in `card_any_driver` only, with a limit of one.

## 4. Fairness

- `FairSessionSpec`: weak fairness of `Exchange`. The card has no activity of its
  own: it moves when called. `swicc_net_client` calls `swicc_io` for each message,
  and the peer, a PC/SC interface, answers requests; powering up, down and resets
  are under no fairness. An interface that stops calling proves nothing about the
  card, so this is the least under which `EveryCommandEnds` makes sense.
  That the *card* meets the fairness of `T0Card` follows and is checked.
- `ChainSpec`: weak fairness of `RunHandler`, and, of an interface with `fetches`, of the
  command it sends after 61xx and of its data: an interface that wants the response
  goes on, and the card serves each call. Only `FetchCompletes` uses it, and only for
  that interface; the safety properties hold for every other one as well.
- `FairNetSpec`: weak fairness of each client's process, of the server receiving
  the reply it blocks for (or noticing that none will come), and, when it waits
  for none, of the server either sending again or hanging up: the dummy server walks through its file and
  then disconnects, and a reader's driver sends keep-alives. Without the last one a
  client told to shut down just before `recv` would stay there. Signals, accepting,
  and voluntary disconnects are under no fairness.
- All other specifications are without fairness, and their properties are safety.

## 5. Proofs

`tlapm` checks all proofs; nothing is assumed but the named `ASSUME`s on constants.

**T0SessionProofs**, first part: the card (any capacities, any driver). `TypeCorrect`, `HandlersCanAlwaysRely`
(from `CommandAlwaysBound` and `DataAlwaysFollowAck`) and `IoLineAlwaysRequested`, from
`CardAssumption`. `TypeOK` is
inductive as it stands, because every handler tests the sum of what is held and
what arrives; the proof has one lemma per handler and one leaf per part of the
type invariant. `CommandBound` and `IoLineRequested` are inductive alone (a handler
can break them only where it changes the state); `DataFollowsAck` is inductive
next to `TypeOK`, which makes the ACK count a number that an ACK raises above 0.

**T0SessionProofs**, second part: card and interface (any buffer sizes, any handlers, any division into pieces), from
`CardAssumption`, `SessionAssumption`, `DriverAssumption` (room for ATR and PPS response,
handlers that send no NULL and no more ACKs than the card admits) and the
hypothesis `ResetBeforePower`, without which `HeaderIntact` is false (section 6). The
invariant `SessionInv` has one disjunct for each rung of the activation and each
stage of the conversation; a stage says what the card holds of the command, in terms
of what the interface has sent. `Unpowered` is where the hypothesis is
needed: the card leaves OFF only clean. One lemma says what one call of the card does
in each stage (`AtrCall`, `FirstByte`, `PpsCall`, `HeaderCall`, `ExecuteCall`,
`ReceiveCall`), one what the step makes of the invariant. Theorems `TurnsAlwaysAgree`,
`HeaderStaysIntact`, `RequestsAlwaysFit`, `HandlersAlwaysStartClean`, and from the same
call lemmas `StepsKeepPromise`: the safety part of `KeepsPromise`.

**ResponseChainProofs** (any capacity, any chunks, any P3, any commands), from
`RcAssumption` and `ChainAssumption`. Of the buffer alone `RcTypeCorrect`, and `RcIsQueue`: each
call is a step of `ByteQueue` under `pending <- SubSeq(b, offset + 1, len)`. Lemmas
say what `SubSeq` does with concatenation and shifted bounds. Of the chain, the
invariant `ChainInv` ties the history to the buffer (`Tracks`: while a chain is
there, it is the contents of the buffer, and what was received are its bytes up to the offset)
and knows that a command that interrupts a chain has not run its handler as
long as the chain is there (`Interrupts`). Theorems `AlwaysInOrder`, `AlwaysThere`,
`AlwaysMeansAll`, `InterruptedNeverDoes` (of interindustry commands that interrupt; after one of a proprietary or RFU class
alone the code resumes, section 6).

**PpsProofs** (any requests of the form PPS0 gives them, any disturbance of one byte), from
`PpsAssumption`. The XOR is taken bit by bit: `XorByte` is a byte, associates and
commutes, and undoes itself, hence a message whose check holds loses that when exactly one of its bytes
changes. The exception is a disturbance of PPS0 that shortens the message, where the byte that becomes
the check byte was another: such a message is left out of `DisturbanceNoticed`, and there the check does not notice every
disturbance: `FF 10 FF 10` with PPS0 turned to 00 is taken as `FF 00 FF`, whose check byte holds. `PpsInv` says what each stage knows of `req`, `ret` and `res`;
a response that is parsed again is one byte for one byte what `Body` writes. Theorems
`DisturbanceAlwaysNoticed`, `ResponsesWellFormed`, `FsmViewHolds`; the last is the link to
CardFsm: what that module assumes of the exchange is what its bytes do.

**DiskProofs** (any descriptions, keys, tables and sizes of the buffer), from
`LutAssumption`, `DiskJsAssumption` and `DiskAssumption` (which asks that descriptions are items nested at most
`Depth` deep and that a table begins with some room). It has three layers.

*Tables.* `LutInv` says of an insertion under way that what the search has passed is
smaller and what it has ruled out at the end is not, so a new entry lands in front of those
with its key, where the lookup from the front meets it first. `LutStaysSorted` and `LutIsDict` are about a
table alone; `LutStepPuts` and `LutStepInv`, which they are made of, also serve the disk.

*Recursive functions.* To the prover a recursive function is a `CHOOSE`: it satisfies
its equation once some function does. That is shown for `Items`, `Prs`, `Needed`, `Measured`,
`Total` and the loop of `PrsParts` by induction over the natural numbers, as a set
with no least member outside of it (`InductionOver`, from `WFMin`). With
the equations, `PrsFacts` is an induction over how deep items are nested, with one over the
parts of a file inside: whatever the description and the room, a parser that succeeds has stayed within its room and has written
headers inside of what it took, which is exactly `Needed` bytes if the description is `Measured`; one that finds the
room too short then needs more. `Measured` leaves out a name longer than its field and a record EF
without `rcrd_size`, of which neither is true (section 6). A walk through a tree (`Foreach`) has
a solution because each step moves on by at least the size of a header: the induction is over the bytes ahead.

*The disk.* `DiskInv` is the types (headers within the length of their tree, tables with some room) and
`Stage`: what each point of a call knows. Between calls it is `UsableOrAbsent`; while
a tree is parsed the trees before it are indexed; the walk that fills a table has
succeeded, and what is left of it are files of that tree. `Stage` was checked by TLC
on the `disk` run before it was proved. Theorems `DiskUsableOrAbsent`, `DiskTablesSorted`, `DiskIsDict`
(through creation, loading and the end of the process, which empties the table) and `DiskGrowthIsNeeded`.

**DiskTreesProofs** (any descriptions, however deep, and sizes). `DiskTreesAreDescribed`: going
through a tree meets the files that are described. The parsers write headers at offsets, a
walk follows sizes from one to the next; what links the two is `Meets`: a walk that comes to `b`
meets the files of a part of the description, in rising order and each showing
the folder it is in, and goes on at `c`. That is claimed of an item wherever it stands in a
buffer (`Stands`: the bytes from `b` on hold its headers, and the
folder it was parsed for is `prel` bytes before), since a folder moves what its parts have written
behind its own header (`HoldsFront`, `HoldsBack`). Parts that stand one
behind the other meet one after the other (`MeetsJoined`, an
induction over the parts of a folder), a folder meets what is in it (`FolderMeets`), and an
induction over how deep items are nested gives `ItemsAreMet`. The walk is that of the
code, which also fails: a description with data in a folder is parsed, and the walk
over it ends at the data, so `Meets` claims nothing of a walk that fails, nor of one that never ends (`UnsizedMeets`). `TreesInv`
says of each tree, in memory and in the file, that it was made of its part of the description; between
calls all have been gone through, because a table was built of each. It also counts them: a file
that was saved whole has them all, and so has a disk loaded from it at every point of the call.

`DiskFilesAreFound`: the tables lead to the files that are described. A *place* is a tree and a
position in the walk through it, in which a folder comes up twice. `TablesInv` (checked by TLC on the `disk`
run before it was proved) says of the table that is filled that it finds (`Finds`), for each key, the last
place that has it among those that were reached, and what is left of the walk; while an
entry is inserted, the place before is the last. A complete table of SIDs finds the last places of its tree, that of
IDs the last of all trees. The steps of `lut_insert` come in through `PlaceFound`: a new entry
hides those of its key. Since a walk goes by rising offsets (`Orderly`) through the files that are
described (`Lists`), the last place with a key is the last file with it (`TreeAgrees`), and over
the trees, one after the other, by an induction (`AgreesJoined`, `TreesAgree`). The number of
a tree has one byte (`TreeIdx`), so that the theorem, like the comments in the code, is about
no more trees than that (`TreeFound`). A lookup gives a tree and an offset, or `NoVal`, which
`DiskAssumption` keeps apart. 0, which no file has as a key, finds nothing.

**BerTlvProofs** (any tags, lengths, order of calls and size of the buffer), from
`EncoderAssumption`. What a call does to the counters does not depend on the size of an
encoder, so the invariant says that there is a `History`, the counters after each call of
the first pass, that the second pass runs through again (`RealInv`); at each moment the
encoders have the sizes that what was used before leaves them (`Shares`). The bytes
used never shrink along a history, so a call that does not fit means that the whole would
not. Theorems `BooksAlwaysAgree`, `DryRunAlwaysExact`. Lengths are unbounded there: the
model, like the code, does not ask what a document of 2^32 bytes would do.

`ShortFormsDecodeBack`: the decoder reads back what the encoder wrote, tags, values, order
and nesting, as long as lengths are up to 127 and tag numbers below 128. `RealInv` also says what each call left in the
buffer, and that no later one touches it (`Written`), so that a finished document is `Whole`: each
header lies where the history puts it. The reader goes through the calls backwards: `ReaderInv` says
that there is a call `i` such that what it was told is what calls `Len(calls)` down to `i + 1`
make of the document (`Doc`), and each decoder `Stands` where the encoder of
the same level stood after call `i`, seen from the other end of the buffer
(`AtNext`; `AtItem` between a header and its value). Then `swicc_dato_bertlv_dec_next`
finds a header, since what precedes the end of a block, or the end of the
document, is one (`HdrFound`), and the header parser gives back the tag and length that were
written there (`HdrRead`); `dec_cur` comes to the bytes of the calls before (`ValueIs`) or into the
block (`Entered`); and a decoder that is used up stands at the start of its block (`Left`). That what is read is
a prefix of the document takes an induction over the calls (`DocPrefix`), with
`FlattenIs`, the recursion that `FlattenSeq` is made of. `ReaderInv` speaks of whole histories, which TLC cannot
enumerate; TLC checks what it implies, `DecodesBack`.

**FileProofs** (any forest that `ForestAssumption` admits, any choice of
parameters). The invariant is `FilesTypeOK /\ VaConsistent /\ RecordExists /\
InCurrentEf`. `InCurrentEf` needs the other parts, since the current EF is that of
`va` and its bounds are checked for the target of the command; `RecordExists` needs
that a selection clears the record. The argument uses of a lookup only that it
yields a file or none, so it does not depend on how the tables resolve repeated
IDs. Theorems `FilesTypeCorrect`, `SelectionOfOnePiece`, `CurrentRecordExists`,
`BytesOfCurrentEf`, and the action properties `SelectionWithSuccess`, `RetryWithLength` (next to the
invariant: a `hint` is a command that the same selection serves with that length, `HintFits`)
and `PathInCurrentApp` (a search along a path never leaves the tree it starts
in, by induction over the path, and a tree has one application; that it starts in the tree
of the current application takes an ID no other file has).

`ForestAssumption` is what `swicc_disk_load` demands of roots and what headers
that fit their tree have; a record size of 0 is left out (section 6).

**NetProofs** (any number of connections and slots). The invariant `NetInv` adds
`Talk` to the types and `SocketsKept`: of a connection that is not open nothing is
awaited; a request under way is the one awaited and no reply is under way with
it; a reply carries the mark of the last request and what its card wants now; what
is left of a message never reaches a client that still receives. The last part is
why a failed `recv` must end the loop. One lemma covers every closing of
sockets. Theorems `NetTypeCorrect`, `SocketsAlwaysKept`, `RepliesAlwaysMatch`,
`ToldIsAlwaysCurrent`, `ErrorAlwaysUnheard`.

*Model-checked only*: liveness (`EveryCommandEnds`, `FetchCompletes`,
`RequestEnds`, `ShutdownEnds`, and the fairness part of `KeepsPromise`; out of the
prover's reach). Outside of what the runs bound they are unproved. Every invariant of a passing run
is a theorem.

## 6. Where code and its own words disagree

Shown by runs:

- `pps_reserved`: reserved parameters reach the assertions of `swicc_etu`
  (`common.c:9`).
- `df_name`: `va.c:205` initialises the name from its first byte only, so names are
  not found; besides, the search skips the first tree and stops at the second.
- `bertlv_long`: the encoder writes a length over 127 as a count and that many
  bytes (`dato.c:252`), the decoder takes the count for the first seven bits of the length
  and reads one byte less (`dato.c:115`, `:148`): it goes on in the middle of the value.

Seen while modelling and, unless section 7 says otherwise, modelled as the code has it:

- Going to OFF keeps the header, and a PPS sets `tpdu_processed` to false
  (`fsm.c:263`): a driver that powers up twice without `swicc_reset` has the old header
  executed without sending a byte of it. With `ResetBeforePower = FALSE` in
  `MCT0Session.cfg` TLC shows it as a violation of `HeaderIntact`.
- The record handlers move a record of a cyclic EF by its plain index and then select
  one relative to the current record (`va.c:389`, `apduh.c:997`).
- Tag numbers of 128 and more are written with their low seven bits first and read with
  them last (`dato.c:148` ff.); `ShortForms` leaves them out of `DecodesBack`.
- The end of a nested block looks at the length of the outer encoder's value
  where the comment speaks of the nested block (`swicc_dato_bertlv_enc_nstd_end`).
- A name longer than its field counts as a buffer too short (`diskjs.c:423`, `:517`),
  so the buffer grows to its limit (`:1351`); the test of the limit is on a 32-bit sum that
  has wrapped (`:1358`). A record longer than its room is an error at once.
- A record EF whose `rcrd_size` is missing or not a number is reported on stderr, but the parser
  returns success and leaves `*buf_len` as it was, all the room (`diskjs.c:671`, `:782`). Whatever follows it
  finds no room, so the buffer grows to its limit although the tree is not longer; with nothing behind it
  the parse succeeds, and leaves a header of zeros that the walk refuses. Of a cyclic EF the type is written nevertheless
  (`:823`), with size 0, on which `swicc_disk_file_foreach` does not move on: in a folder, with nothing behind it, creating
  the disk does not return. (The callbacks of that walk put the same
  file into the table again and again. The model, in which nothing comes after such a walk, leaves out
  the table, and with it that its memory will run out.) `GrowthIsNeeded` and the lengths in `TreesAreDescribed` are
  therefore stated for `Measured` descriptions.
- `swicc_disk_create` saves a forest whose first tree is not the MF, and
  `swicc_disk_load` refuses it; a disk of more than 256 trees has files that the tables
  place in other trees.
- A save cut off between two trees loads as a disk with fewer applications, and what the
  file held before is gone (`disk.c`, `swicc_disk_save`).
- `pps.c:58` reads Fi from the low nibble of PPS1, while `atr.c:38` describes TA1 with
  Fi in the high one: the byte the ATR offers sets other parameters in a PPS.
- `swicc_reset` clears the shutdown flag (`common.c:90`), which "indicates if the
  card should shutdown gracefully right now" (`swicc.h:44`). A client that gets the
  signal between its test and `recv`, while a mock reset is already waiting for it,
  performs the reset and goes on. `ShutdownEnds` makes this exception.
- A message of the network in pieces counts as a lost connection (`net.c:89`).
- ACTIVATION stays when VCC is off but still flagged valid, as the test is a mask
  (`fsm.c:29`).
- A PPS longer than announced reaches the branch declared unreachable
  (`fsm.c:226`) and falls into the handling of a complete one.
- A fifth ACK ends the command with no answer (`fsm.c:405`), and a NULL procedure
  byte ends it too (`fsm.c:426`). No handler in the repository does either.
- A PPS1 naming the default parameters is dropped from the response and so fails
  the exchange (`pps.c:111`).
- The ETU is always 0: `fi / (di * fmax)` in integers (`common.c:11`).
- GET RESPONSE resumes after a command of a proprietary or RFU class, although
  `apdu_rc.h` announces otherwise in general; only interindustry commands reset
  the buffer (`apduh.c:1450`). `InterruptedNeverResumes` is stated for those.
- The proprietary handler is tried before the built-in ones for interindustry
  instructions, and the built-in handler runs when it answers that it does not
  know the instruction (`apduh.c:1461`).
- `0x7FFF` as the first ID of a path goes by the ID of the current application,
  which other files may share (`va.c:314`); `PathStaysInApp` therefore asks for an
  ID of its own.
- UPDATE RECORD with data of a wrong length answers with response bytes nobody
  wrote (`apduh.c:1233`).
- A record size of 0, which a JSON disk may have, is divided by (`disk.c:850`).

## 7. Not modelled

| Part | Why |
|---|---|
| `malloc` and `realloc` without memory in `disk.c`, `diskjs.c` | leaves a table with pointers to memory that was freed (`lut_insert`), or a disk without its table of IDs (`lutid_rebuild` in `swicc_disk_create`): undefined behaviour rather than outcomes |
| An empty list as the contents of a folder | the result of the parser is not initialised (`diskjs.c:300`): undefined behaviour. The tests `test/data/disk/007` and `test/data/folder/001` expect it to succeed, as an empty folder; the model has empty folders by `null` |
| A misspelt type in a description | nothing is written and, as for a record EF without `rcrd_size`, all the room is taken |
| Data inside a folder that reads as a file header | `swicc_fs_file_prs` (`fs/common.c:101`) takes any bytes whose type is that of a file; a walk over data is assumed to end with an error there |
| `swicc_apduh_override_register` | a hook that runs behind the handlers and may replace any response (`apduh.c:1531`); nothing in the repository registers one, and with one no property of a response is the card's own |
| `swicc_reset` when `swicc_va_reset` fails | it returns early and clears nothing (`common.c:75`); that happens only when the MF cannot be selected, as no file has the ID 3F00. FileCommands has what it does to the validity area; the card and the modules on it assume a disk with an MF |
| JSON syntax, hex strings | vendored library, pure conversion (which writes one byte before it finds the size too small); DiskJs takes their outcome |
| Tag numbers of 2^14 and more, `swicc_dato_bertlv_tag_create` | no tag of the ISO tables is that long; a call of the tag parser on a constant |
| Contents of values in BER-TLV | a value is known by the call that wrote it, so data that happens to look like a header is left out |
| Network options, failing `socket`, `bind`, `listen`, `fcntl`, signal registration | these calls leave no state when they fail, but for the socket of a failed `connect` (`net.c:366`), which is never closed |
| Sending to a peer that has gone by SIGPIPE | ends the process; in Net the send fails |
| Warm reset | a handler without a transition to it |
| `swicc_va_select_data_offset` | a stub |
| ATR bytes, debug text, dummy server | constants, formatting, terminal I/O (its server loop is in Net) |

In ResponseChain reading and updating commands only answer, since they leave the
RC buffer alone; in FileCommands the RC buffer and the contents of files are left
out, since no check looks at them.

## 8. Plan

Done: card, session, chaining, PPS, files, network, disk and description, lookup
tables, BER-TLV, and the proofs of section 5. What is left, in this order:

1. **Net** with T0Session as its card, so that a reset and the card's requests have
   their content; today the two meet in `buf_len_exp` only.
2. FileCommands over ResponseChain: the template that SELECT encodes, its length from
   BerTlvEncoder, and the commands that come between the parts of it.
3. Forest as what Disk leaves behind, instead of a constant that meets
   `ForestAssumption`.
