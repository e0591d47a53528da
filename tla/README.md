# Classics Live 64 in TLA+

Models, model-checking configurations and machine-checked proofs of the code in
this repository: the payload that runs beside a game on the Nintendo 64, the PC
program it talks to through a SummerCart 64, the injector that loads it, and the
system calls it is linked with. Every definition is translated from the source;
`PROJECT.json` names the lines.

- [The system](#the-system)
- [Modules](#modules)
- [What the runs check](#what-the-runs-check)
- [Fairness](#fairness)
- [What is proved](#what-is-proved)
- [What the models found](#what-the-models-found)
- [What is not modelled, and the plan](#what-is-not-modelled-and-the-plan)
- [Running it](#running-it)

## The system

| Component | Source | State | Operations |
|---|---|---|---|
| Injector | `injector/main.c` | none that lasts | loads `payload.bin` to `0x80400000`, calls it |
| Entry | `payload/main.c` `_start` | saved `sp`, `gp` | saves the game's registers, switches stacks, calls `cln_run`, restores |
| Life cycle | `payload/main.c` `cln_run` | `cln_state`, `cln_boot_frames`, `result` | once a frame: wait, start, run the library, or tell an error |
| ABI | `payload/main.c` `cln_abi_*` | none | display a message, post to the network, get the user's data |
| USB driver | `payload/usb.c`, `usb_summercart.c` | `cl64_cart` | init, transmit, receive |
| Cartridge | firmware, not here | buffer, registers, endpoints | sends the buffer to the PC, stores the PC's message in it |
| PC program | `host/main.c` | packet and response buffers, `login.txt` | read a packet, dispatch on its datatype, HTTP post with retries, write back |
| File layer | `payload/system.c` | `filesystems`, `handle_map` and its counts | attach, detach, open, close, stat, truncate and the calls on open files |
| Path calls | `payload/system.c` | a client's `dir_t` | `dir_findfirst`, `dir_findnext`, `mkdir`, `unlink` |
| Heap | `payload/system.c` | program break | `sbrk` |
| Streams, clock | `payload/system.c` | hook pointers | hook, unhook, and newlib's `read`, `write`, `gettimeofday` |
| Register access | `payload/usb_internal.c` | none | wait for the peripheral interface, then one load or store |

How they interact. The game calls the payload once a frame and waits for it. In
a frame the payload may call the Classics Live library, the library calls the
ABI, and an ABI call **blocks**: it writes a message into the cartridge buffer,
tells the cartridge to send it, and for a post or a request for the user's data
polls the *same* buffer until the PC's answer appears in it. Driver, cartridge
and PC run concurrently on that buffer; there is no lock, no identifier on a
message, and no timeout on the N64's side. The PC program handles one packet at
a time; a post is retried until libcurl succeeds or fails for good.

What is hard about it:

- *interleaving on the buffer*: a transmit against the cartridge that still
  sends, a read against a message that is still being stored, an old answer
  that still lies in the buffer;
- *failure*: timeouts in the middle of a response, errors that end a post
  without an answer, writes to the endpoint that fail, a PC program that stops
  and is started again, a console that is reset while an answer is on its way;
- *lengths*: a text goes through five buffers of different sizes, and the
  stream to the PC has no frame that a read would keep to, so that a byte of a
  text may be taken for a datatype;
- *what the payload shares with the game*: the registers, at an arbitrary point
  of a frame; the peripheral interface; the memory;
- *caches*: code that is loaded as data and then run;
- *liveness*: everything waits on somebody without a timeout;
- *start-up*: several steps that may fail, static variables in a section that
  nobody clears;
- *the file table*: growth, wrap-around of the search, reuse of slots and of
  filesystem indexes, packing of fields into 15 bits.

What makes each part correct: a receive returns the whole answer to its own
request (driver, cartridge, PC); each request reaches the PC whole (driver,
cartridge); a post is not answered before the server has it and is retried
without leftovers (PC); every call returns when nothing fails for good (all);
the library runs only after the wait and with a cartridge, and an error shows
which step failed (life cycle); a file number always leads to the handle and
filesystem it was made for, the count matches the table, nothing is lost while
a slot is free (file layer); a text arrives whole or is cut, and never runs
past a buffer (framing); the game gets its registers back (entry); what is run
is what the file held (injector); malloc gets each address once (heap); no hook
of a client that is gone is called, and none is taken
from another with another function (streams, clock); a search goes on where it
began (path calls); a register is read and written as its last value
(register access).

## Modules

| Module | Models | Composes |
|---|---|---|
| `Wire` | datatypes, magics, messages, results | |
| `SummerCart` | the cartridge (external) | `Wire` |
| `UsbDriver` | ABI calls and the driver | `SummerCart` |
| `Host` | the PC program | `SummerCart` |
| `Rpc` | abstract specification: a call and its answer | `Wire` |
| `Link` | driver, cartridge and PC program together, with the reset button | `UsbDriver`, `Host`, `INSTANCE Rpc` |
| `LinkInv` | the inductive invariant of `Link` | `Link` |
| `LinkWork` | why the calls of `Link` end: who moves next, and the steps that are left | `LinkInv` |
| `Bss` | the assumption on `.bss`, which nothing clears | |
| `Payload` | the life cycle on top of the link | `Link`, `Bss` |
| `Framing` | lengths: buffers, headers, reads, `login.txt` | `Wire`, `INSTANCE Rpc` |
| `Entry` | `_start`: the game's registers | |
| `Injector` | loading and the first call, with the caches | |
| `Files` | abstract specification: mounts, open files, handles | |
| `FileTable` | the file layer | `Bss`, `INSTANCE Files` |
| `DirSearch` | calls with a path | `FileTable` |
| `Hooks` | standard streams and clock | `Bss` |
| `Heap` | `sbrk` and the stack | `Bss` |
| `PiBus` | one register access | |
| `MCLink` | instances of `Link` for TLC | `LinkWork` |
| `MCPayload`, `MCFraming`, `MCFileTable` | instances for TLC of the module of that name | |
| `MCParts` | instances of the parts without a common state, one at a time | `Entry`, `Heap`, `Hooks`, `Injector`, `PiBus`, `DirSearch` |
| `LinkInv_proofs`, `LinkRpc_proofs` | theorems about `Link` | `LinkInv` |
| `LinkWork_proofs` | theorems about the end of its calls | `LinkWork`, `LinkRpc_proofs` |
| `Payload_proofs`, `Framing_proofs` | theorems about the module of that name | `Payload`, `LinkInv_proofs`, `Framing` |
| `FileTable_proofs` | theorems about the file layer and the path calls | `DirSearch` |
| `System_proofs` | theorems about heap, streams and clock | `Heap`, `Hooks` |
| `Machine_proofs` | theorems about the parts next to the hardware | `Entry`, `Injector`, `PiBus` |

**Messages** (`Wire`). A message is its magic, its datatype and the number of
the call it belongs to. The number is a history value: the code sends no such
thing, and no guard of a model looks at it. It lets a property say *whose*
answer came back. A buffer word is represented by the message whose transfer
wrote it, so a mix of two messages shows as two sources. `LastWord` is the index
of the last word; one word after the magic is enough to tell a part of a message
from a whole one.

**Cartridge** (`SummerCart`). `AcceptCommand`, `FetchWord`, `SendPacket` are the
N64's USB_WRITE command, word by word; `AcceptReply`, `StoreWord` store the PC's
message, magic first. What the busy bit covers is firmware, hence a constant:
`BusyCovers` has `"send"` if CMD_BUSY stays up until the buffer has been sent,
and `"reply"` if it is up while a message of the PC is being stored. The
driver's waits assume both; see `LinkTornReply` for what follows without the second,
and [What is proved](#what-is-proved) for what does not need the first.

**Driver** (`UsbDriver`). `drv` is the place in `cl64_summercart_transmit`
(`twait`, `twrite`, `tstart`) and `cl64_summercart_receive` (`poll`, `rwait`,
`rread`), `widx` the loop counter of `cl64_bram_write` and `cl64_bram_read`,
`then` what the ABI call does after its transmit. One action is one access to a
register or to a buffer word, since the other two actors move between accesses.
A poll or wait loop is an action that is enabled when the loop ends. `last` is
what the last receive handed to its caller. Before a receive the magic in the
buffer is the N64's own (`BramWrite`), which is why an old answer is not taken
for a new one.

**PC program** (`Host`). `hpc` is the place in the loop of `main`: `read`,
`post` (inside `curl_easy_perform`: `ServerHandles`, `WriteCallback` per chunk,
`CurlOk`), `sleep` (between attempts), `reply` (`aux_write`), `down`. The
constant `Faults` chooses the failures of an instance. After a reset an answer to
the run before may be stored over a post that is being written. What `network_post`
then parses (`Garbled`) may be no URL, which ends it without an answer, or name no
server, which it retries for ever, in every instance; `mixed` remembers that such a
post has come.

**Link** (`Link`). `Reset` is the console's reset button: the payload starts
afresh, cartridge and PC go on. The history variable `orphans` holds the
requests that a reset left unanswered: their answers can still come, and since
messages have no identifier nothing in the code could tell them from others.
The safety properties are about `orphans = {}`.

**Life cycle** (`Payload`). One action per path through `cln_run`; the start is
split where control goes to the library, whose ABI calls interleave with the
link. `coins` are the values written to the game's memory, `frames` counts the
frames the code has really seen, `failed` is the step of the start that failed.

**Static variables** (`Bss`). `BssCleared` says whether they hold zeros at the first
entry. `Payload`, `Heap` and `Hooks` have both cases; the file layer is modelled for
cleared variables only (`ClearedAssumption`).

**File layer** (`FileTable`). `filesystems`, `handle_map`,
`handle_buckets_count`, `handle_open_count` as in the source, in which every call
runs to its end. `Hash` stands for the pseudo-random start of the search, any
function of handle, index and number of buckets. `owner` (what each handle belongs to) and `files`
(what clients hold) are external. `open` models the failure paths after
`fs->open` has succeeded (`HandleLost`); `stat` and `truncate` are
open-use-close without a look at the result of close. A client's file is
recorded with the handle it was opened for; calls with file numbers that were
never opened, or were closed, are left out, as are arguments that are rejected
at once. `Reached` is the lookup that `read`, `write`, `lseek`, `fstat`, `ioctl`
and `ftruncate` share.

**Path calls** (`DirSearch`). `searches` are the `dir_t` of clients, each with
the filesystem that began it; `mounted` is what the results of attach and
detach have told the clients. `mkdir` and `unlink` change nothing here: they are
the callback a path leads to.

**Framing** (`Framing`). `Link` has messages without a length; this module has
lengths without an interleaving. The stream to the PC is a queue of messages,
`off` the number of bytes of the first that a read has taken. A text may be cut
by `snprintf` (`Transmit`), by the end of a read (`ReadMessage`: `got` bytes of it
are the PC's), or by the receiver's buffer (`Receive`). A read that starts inside a
message (`ReadRest`) is dispatched on its ninth byte, whatever that is: `misread`
says that it was taken for a request that nobody made, and what the PC does with such a
post is anything (`StrayPost`). A post that was cut has no final zero, so curl
may read past the buffer (`past`). `merges` says whether one
bulk transfer may return the bytes of more than one message, which is up to the
USB bridge. `config` stands for the values in `login.txt`.

**Entry** (`Entry`). A register holds a named value of the game or one of the
payload's own; `wide` marks a value that a word does not hold. One action is one
block of `_start`; `Run` is `cln_run`, of which only the calling convention is
known: it may change registers (`Clobbers`), and the four words at its caller's
stack pointer (`HomeSets`), where `_start` keeps `at`, `v0`, `v1` and `a0`.
`entry` keeps the registers at the entry, `reused` the places that were changed.

**Injector** (`Injector`). `ipc` is the place in `main`. A block of the image
holds its own number. `fread` writes through the data cache or, by DMA, to
memory; `WriteBack` and `DropInstructions` are what a cache may do at any time.
Both caches may hold old lines of the image's addresses at the start.
The payload that `CallPayload` calls is external here.

**Streams and clock** (`Hooks`). `stdio_hooks` and `time_hook` as in the source;
`hooked` is the set of clients whose last call was to hook.

**Heap** (`Heap`). `heap_end` is the program break, `given` counts how often
malloc has an address; the stack moves within its `STACK_SIZE` below
`CLN_STACK`. Nothing keeps the break below it.

**Register access** (`PiBus`). `WaitOnIoBusy` and the access are two steps. A
write is `posted`: the call returns before the interface has done it. An access
that finds the interface busy is undefined, hence any value, or a write that is
lost. The game's DMAs start at any moment, also between the wait and the access
when an interrupt handler starts one (`raced`); the registers whose last write met
such a DMA are `doubtful`. The cartridge changes its registers too (`CartSets`), and
`latest` is what each should hold.

## What the runs check

| Run | Instance | Result |
|---|---|---|
| `LinkSafe` | 3 calls, 2 resets, 2 chunks, all faults; 212,000 states | passes |
| `LinkLive` | 3 calls, 1 reset, 2 chunks, timeouts; 28,000 states, fair | passes |
| `LinkCurlError` | 1 call, errors of libcurl; fair | `ReceiveReturns` fails |
| `LinkTornReply` | 1 call, CMD_BUSY without replies | `TransferComplete` fails |
| `PayloadLife` | 2 calls, 1 reset, 2 boot frames, timeouts; 15,000 states, fair | passes |
| `PayloadBss` | uncleared .bss | `WaitsForFrames` fails |
| `FileTableSafe` | 2 filesystems, 2 buckets of 4, 5 handles; 194,000 states | passes |
| `FileTableDetach` | detach with open files | `CallsRightFilesystem` fails |
| `FileTableGrowth` | 1 filesystem, 2 buckets of 8, 9 handles | `GrowsAt75` fails |
| `FramingSafe` | 3 calls, sizes around each buffer, merged reads or not, short and long values in `login.txt`; 303,000 states, fair | passes |
| `PartsSafe` | six parts, one at a time; 24,000 states | passes |
| `HeapStack` | the heap alone | `HeapClearOfStack` fails |

*Link, safety.* `RepliesMatch`: all words that a receive returns come from the
answer to the request of that call. `RequestsWhole`: packets are whole messages under their own
datatype. `NothingUnasked`: outside a receive the PC has no answer in hand and none is
on the endpoint, and before the first reset none is being stored. `NoWriteUnderSend`: nobody writes the buffer while it is being sent. `IInv` is the
inductive invariant of the proofs, checked here first. (`TransferComplete`,
nothing is being stored while a receive reads, is a part of it, and on its own the
property of `LinkTornReply`.) `ImplementsRpc`: `Link`
implements `Rpc`, with `pending` mapped to the call that will receive.

*Link, progress.* `NeverStuck`: while a receive polls, a request or an answer is
still there, and in any call the driver, the cartridge or the PC has a step to
take. `StepsRunOut` (in `LinkSafe`): each step but a call, a reset, a timeout and a
stop of the PC program lowers `Work`, the number of steps that are left, so that
there cannot be steps for ever without one of those.

*Link, liveness.* `ReceiveReturns`, `TransmitReturns`: the two blocking loops end.
`ImplementsFairRpc`: `Rpc`, and with its fairness as long as there is no reset.
A reset may come anywhere: an answer to the run before may be taken for the
wrong one, but it does not stop a call, unless it is stored over a post: the
properties that promise a return are about behaviours until then (`mixed`).

*Payload.* `CartBeforeLibrary`, `WaitsForFrames`: the start is in order, also
after a reset in the middle. `CoinsTellError`: the number in the game's memory
is that of the step that failed and of its error, and if the library's errors
allow it (`CodesTell`: none is another and 10) no other step could have given it; and
there is none without an error. `GameResumes`: the
game gets control back. `StartEnds`: the start ends in a running library or a
visible error. Both leave out what follows a mixed post.

*Link, retries and resets.* `PostedOnce`: only the retries of `network_post` give the
server a post again, never a second read of it, also when the PC program is
restarted. (That a timeout may make it twice is what the code promises.) `AnswersBounded`: there is never more than one answer on its way,
and one more for each request that a reset has orphaned.

*Framing.* `TextsArrive`: the PC has the text of a post for curl with its zero, or its
first 490 bytes, and nothing of its neighbours; curl reads past the buffer for a cut
text only. `DispatchTrue`: the PC works on nothing but requests, unless reads merge
messages or a text has more than 498 bytes. `WordsFit`: the copies by words stay
inside the buffers on both ways.
`RequestKept`: as long as reads do not merge messages and no byte is taken for a
datatype, the request of a call is never lost,
also behind messages that take two reads. `CallReturns`: such a call returns, also
one whose text or answer is cut. `ImplementsRpc`: until a byte is taken for a
datatype, the abstract call, with texts instead of messages.

`PartsSafe` runs six parts that share no variable with each other: one is chosen
at the start, and the others keep one state. Their steps commute and no
property is about two of them, so nothing is lost against running them at once.

*Entry.* `GameKeepsRegisters`: the game gets every general register but `at`
back, as a word; `v0`, `v1` and `a0` if `cln_run` leaves their places alone.

*Injector.* `ImageInPlace`: instructions fetched and data loaded are those of
the file once `main` may jump, whatever the caches held before.

*Streams and clock.* `CallsReachHooked`: newlib's calls reach a client that is
hooked, or nobody. `ServedUntilUnhook`: only the unhooking of a client with the same
function takes a hook, and hooking never leaves a stream without one. Clients may
share functions.

*Heap.* `MemoryOnce`: no address twice, and all in one piece, also if the
break starts anywhere. `HeapClearOfStack`, none of the stack in use, fails in
`HeapStack`.

*Path calls.* `PathsResolve`: a path leads to the filesystem that is attached
under it, and each step of a search to the one that began it.

*Register access.* `RegistersTrue`: a read returns what the payload wrote or the
cartridge put there last, and no write is lost or overtaken; of an access that meets a
DMA which an interrupt started after the wait, and of a register while its last
write was one, it says nothing.

*File table.* `OpenCountMatches`: the count that decides about growth is the
number of taken slots. `FilesResolve`: a file number leads to its own handle and
filesystem. `NoSlotLeak`: a taken slot can be named by a client. `LostOnlyWhenFull`:
an opened handle gets a slot if there is one. `ImplementsFiles`: every call has
the effect of one of `Files` on mounts, open files and handles; a file number is
above those of the standard streams, fits in 15 bits and is no other open file's.
And the two properties that fail.

*Bounds.* Three calls are the fewest with a message that expects no answer
between two that do, in each order, and an old answer in the buffer; two levels
of messages stand for four. Two chunks are the fewest that let an attempt fail in
the middle of a response. A second
reset leaves a second orphan while the first one's answer is still on its way.
`LastWord = 1` gives a magic and a rest; the theorems are for every `LastWord`,
number of calls, chunks and resets. Two boot frames stand for 120. Buckets of
four handles, with five handles whose searches collide, wrap inside a bucket and
go on in the next, fill a bucket and make the table grow; the growth run takes
buckets of eight, the fewest for which three quarters and four fifths of the
slots differ. `Framing` has the buffer sizes of the code, and one size on each
side of each of them; three calls are a message between two posts. `Entry` has
every register there is; two frames show that the second does not find what the
first left. Three blocks let one be dirty, one written back and one by DMA. Four
clients are a table with every function, one that shares a function between two
streams, one that overlaps with both, and one that shares a function with another
client. In `PiBus` a
posted write, a write to the other register and a read of each take four
accesses; two values let the cartridge change what was written. In the caller's words
`cln_run` changes none, one of a register that is kept, or all. Prefixes are interchangeable, hence the symmetry; no liveness is
checked with it.

*Deadlock* is not checked: when the calls of the bound are used up the system
rests, and so it may. That it does not rest *inside* a call is what the
liveness properties say.

## Fairness

`Link!Fairness`. The payload has no other thread, so a step of it that stays
possible is taken: weak fairness on the driver. The cartridge moves data in
hardware: weak fairness on each of its engines. The PC program is a process of a
fair scheduler: weak fairness on its steps. An attempt of libcurl competes with
its timeout; strong fairness on the server's step, on each chunk and on the end
of the transfer says that a server which answers again and again is heard
through in *some* attempt. It is an assumption on the network, and the retry
loop of `network_post` is written for it; it is about whole posts, since no server
answers a garbled one (`~Garbled`). Nobody owes the system a call, a
reset or a failure.

With a reset the same fairness holds of the run after it.
`Framing!FairSpec` has weak fairness on the driver's poll and on each step of the
PC program, but none on calls and on a post that no call has made; the start of the program is only owed when
`login.txt` has what it asks for.

`Payload` adds that the game keeps calling `cln_run` while it waits or has
failed, and that a library call with nothing left to do returns.

## What is proved

By TLAPS, for every value of the constants:

| Theorem | Statement | Assumes |
|---|---|---|
| `LinkInv_proofs!TypeCorrect` | `Spec => []TypeOK` | |
| `LinkInv_proofs!InvCorrect` | `Spec => []IInv` | `Assumed` |
| `LinkInv_proofs!RepliesMatchCorrect` | `Spec => []RepliesMatch` | `Assumed` |
| `LinkInv_proofs!ServedCorrect` | `Spec => []ServedBeforeReturn` | `Assumed` |
| `LinkInv_proofs!RequestsWholeCorrect` | `Spec => []RequestsWhole` | `Assumed`, `"send" \in BusyCovers` |
| `LinkInv_proofs!NothingUnaskedCorrect` | `Spec => []NothingUnasked` | `Assumed` |
| `LinkInv_proofs!TransferCompleteCorrect` | `Spec => []TransferComplete` | `Assumed` |
| `LinkRpc_proofs!RpcCorrect` | `Spec => ImplementsRpc` | `Assumed` |
| `LinkRpc_proofs!NoWriteCorrect` | `Spec => NoWriteUnderSend` | `Assumed`, `"send" \in BusyCovers` |
| `LinkRpc_proofs!AnswersBoundedCorrect` | `Spec => []AnswersBounded` | `Assumed` |
| `LinkRpc_proofs!PostedOnceCorrect` | `Spec => PostedOnce` | `Assumed` |
| `LinkWork_proofs!NeverStuckCorrect` | `Spec => []NeverStuck` | levels 0 to 3 |
| `LinkWork_proofs!StepsRunOutCorrect` | `Spec => [](Work \in Nat) /\ StepsRunOut` | |
| `Payload_proofs!PayloadIsLink` | `PayloadSpec => Spec` | |
| `Payload_proofs!CartBeforeLibraryCorrect` | `PayloadSpec => []CartBeforeLibrary` | `BssCleared` |
| `Payload_proofs!WaitsForFramesCorrect` | `PayloadSpec => WaitsForFrames` | `BssCleared` |
| `Payload_proofs!PayloadTypeCorrect` | `PayloadSpec => []PayloadTypeOK` | |
| `Payload_proofs!CoinsTellErrorCorrect` | `PayloadSpec => []CoinsTellError` | `BssCleared` |
| `Framing_proofs!FramingTypeCorrect` | `Spec => []TypeOK` | |
| `Framing_proofs!TextsArriveCorrect` | `Spec => []TextsArrive` | |
| `Framing_proofs!WordsFitCorrect` | `Spec => []WordsFit` | |
| `Framing_proofs!DispatchTrueCorrect` | `Spec => []DispatchTrue` | |
| `Framing_proofs!AnswersWholeCorrect` | `Spec => [](~misread => AnswersWhole)` | levels 0 to 3 |
| `Framing_proofs!RequestKeptCorrect` | `Spec => []RequestKept` | levels 0 to 3 |
| `Framing_proofs!FramedRpcCorrect` | `Spec => ImplementsRpc` | levels 0 to 3 |
| `FileTable_proofs!TableTypeCorrect` | `Spec => []TypeOK` | |
| `FileTable_proofs!OpenCountCorrect` | `Spec => []OpenCountMatches` | |
| `FileTable_proofs!FilenoInRangeCorrect` | `Spec => []FilenoInRange` | |
| `FileTable_proofs!LostOnlyWhenFullCorrect` | `Spec => LostOnlyWhenFull` | |
| `FileTable_proofs!HandlesFoundCorrect` | `Spec => []HandlesFound` | |
| `FileTable_proofs!FilesCorrect` | `Spec => ImplementsFiles` | `~DetachBusy` |
| `FileTable_proofs!FilesResolveCorrect` | `Spec => []FilesResolve` | `~DetachBusy` |
| `FileTable_proofs!CallsRightCorrect` | `Spec => []CallsRightFilesystem` | `~DetachBusy` |
| `FileTable_proofs!NoSlotLeakCorrect` | `Spec => []NoSlotLeak` | `~DetachBusy` |
| `FileTable_proofs!DirIsTable` | `DirSpec => Spec` | |
| `FileTable_proofs!DirTypeCorrect` | `DirSpec => []DirTypeOK` | |
| `FileTable_proofs!PathsResolveCorrect` | `DirSpec => []PathsResolve` | `~DetachBusy` |
| `System_proofs!MemoryOnceCorrect` | `HeapSpec => []MemoryOnce` | |
| `System_proofs!HooksTypeCorrect` | `HooksSpec => []HooksTypeOK` | `BssCleared` |
| `System_proofs!CallsReachHookedCorrect` | `HooksSpec => []CallsReachHooked` | `BssCleared` |
| `System_proofs!ServedUntilUnhookCorrect` | `HooksSpec => ServedUntilUnhook` | `BssCleared` |
| `Machine_proofs!EntryTypeCorrect` | `EntrySpec => []EntryTypeOK` | |
| `Machine_proofs!NothingLostCorrect` | `EntrySpec => []NothingLost` | |
| `Machine_proofs!GameKeepsRegistersCorrect` | `EntrySpec => []GameKeepsRegisters` | |
| `Machine_proofs!InjectorTypeCorrect` | `InjectorSpec => []InjectorTypeOK` | |
| `Machine_proofs!ImageInPlaceCorrect` | `InjectorSpec => []ImageInPlace` | |
| `Machine_proofs!PiTypeCorrect` | `PiSpec => []PiTypeOK` | |
| `Machine_proofs!RegistersTrueCorrect` | `PiSpec => []RegistersTrue` | |

`Assumed` (in `LinkInv`) is what the code rests on and cannot ensure: CMD_BUSY
covers messages from the PC while they are being stored, and the library uses the
levels 0 to 3 of `cln_abi_display_message` (a level of 4 would give a message the
datatype of a network post). That CMD_BUSY covers messages *to* the PC as well,
which the wait at the start of a transmit is written for, is needed by the two
theorems that say so and by no other: only a displayed message can be overwritten
while it is being sent, since after a request the driver polls until the answer
is there. The levels are the same assumption in `Framing_proofs` and `LinkWork_proofs`.
`~DetachBusy`: a client detaches a filesystem only when nobody has a file or a
search in it, which `detach_filesystem` does not check; the run
`FileTableDetach` shows what happens otherwise. `BssCleared`: somebody has
cleared `.bss`; see `PayloadBss`. All theorems of `FileTable_proofs` rest on it too,
as an ASSUME of `FileTable`. The other assumptions are the named ASSUMEs of the modules. Each of
them holds in the passing run that checks the property.

The argument. `RepliesMatch` speaks of the end of a call and says nothing of how
the words came there, so it is not inductive. `IInv` follows the call: while the
driver waits and writes, no request or answer is anywhere; when it has written,
the buffer is all its message; when the command is in the registers or the
cartridge fetches, the buffer stays that message if it is a request, since the driver
polls, and if it is a displayed text, as long as the next transmit waits (`WholeInv`,
the part that asks for `"send" \in BusyCovers`); then the request is the *last* packet on the endpoint and nothing else that is
answered is before it; then it is the packet the PC works on, with an empty pipe
on both sides, and the response holds exactly the chunks of this attempt; then
the answer is the only message to the cartridge; and at last the words of the
buffer below the one to be stored next are the answer's. The conjuncts
`CallInv`, `WriteInv`, `SendInv`, `PipeInv`, `HostInv`, `ReplyInv`, `ReceiveInv`,
`ResultInv` are these places, each of which says the others are empty. There is
one lemma per action, and under it one step per conjunct.

The invariant holds as long as `orphans = {}`. The order of events makes that
exact: a reset before the command is written leaves nothing behind, one while the
answer is polled for leaves an orphan, and one after the magic was seen finds an
answer that nobody will take for another: it is in the buffer already, and the
next transmit waits until it is all there.

`AnswersBounded` speaks of what `IInv` does not: the states after a reset.
`CountInv` counts requests that are still to be answered and answers that are
still to be read, wherever they are (buffer, command, both endpoints, the PC):
outside a poll no more than there are orphans, inside one more. A receive takes
an answer only after the wait that lets a message being stored go by, and a
reset in a poll makes an orphan of the very request that was one more. `OwnInv`
says that the call in progress is younger than every orphan, so that the new
orphan is really one more. `PostedOnce` needs `FreshInv`: a request that the
server has had is nowhere on its way to the PC.

That calls end is liveness; what carries it is safety, and proved. `NeverStuck`
holds without an assumption on CMD_BUSY, after any resets until a post is mixed with
an answer: `PollInv` says that
what a polling driver waits for is a request or an answer somewhere between the
command register and the buffer, and whoever has it has an action whose guard
holds. Cartridge and PC turn a request into an answer or a retry, never into
nothing, as long as only timeouts fail (`CartKeeps`, `HostKeeps`); the driver takes an
answer only by ending its poll. `StepsRunOut` holds with every failure. `Work` weighs
what is left at each place by what it can still become: a loop by the turns it
has left, a command by the words to fetch and the packet they make, a packet by an
attempt of libcurl and the words of the answer. A step moves weight to a later
place and loses one on the way. With `NeverStuck` this leaves for TLC what is
about fairness: that a step which stays possible is taken, and that some attempt of
a post is not cut off by its timeout.

`CoinsTellError`: `ErrorInv` follows `result` through the start, 10 when the cartridge
is not found, 20 while the library registers and 30 while it logs in, and ties the
final number to the step that failed and its error; that no other step gives the
same number is arithmetic on the codes, under the condition `CodesTell` that the
property states.

`Framing`: `TextsArrive` holds because a read that begins with a message has all
of it or fills the buffer. `TextInv` adds that the PC is
never past the first message left in the stream (`OffInside`) and that a text
there is the library's, cut to the payload's buffer (`SentCut`). `DispatchTrue` needs
that, unless reads merge, one read ends where its message ends or is full (`OffWhole`),
so that what is left for the next is the rest of one text. What a read
takes is `Upto`, a recursive function on the length of the stream; what it
computes cannot be shown by induction here. The lemmas `BytesGrow`, `Downward`
and `ConsumeStep` take the least length at which a claim fails instead, and find
it fails one below. `CallInv` is the counterpart of the link's invariant for
lengths: at most one message in the stream asks for an answer, the PC works on
the request of the call in progress (`WorkInv`), and what lies in the buffer is its
answer (`AnswerInv`). `FramedRpcCorrect` needs no more than that. `RequestKept` says where
the request of a call is, so with these invariants it is inductive; what it needs of a read is
that one which returns one message ends inside the first message or where the second
begins (`ConsumeStep`), so that the next read of the request is dispatched on its datatype.

`FileTable`: `FilesResolve` follows a file number back to a slot, so `TableInv`
says where each file is: its number is made of a slot, a bucket below the count
and a filesystem's index (`FilesNumbered`), the slot holds its handle, no handle
is in two slots or two files. That the three fields come apart again
(`SlotFields`, `FilenosDiffer`) is arithmetic on 15 bits. `OpenCountMatches` is a
conjunct: `close` subtracts one, so the slot that its number names must be taken,
and no other file may have emptied it (`HandleInOneFile`).
`IdleInv` adds that the index leads to the filesystem that the handle is open in, and that
a slot is held by a client; detaching a busy filesystem breaks both, hence
`~DetachBusy` in the theorems that need it and in no other.
`LostOnlyWhenFull`: the search starts anywhere in each bucket and bucket after
bucket from anywhere (`Hash`). `ProbesAll` shows that it comes past every slot of
the buckets it looks at, and `FoundNone` that if it finds none the table could
not have grown, since full buckets of four or more are above the limit at which it grows.
`FilesCorrect` maps each step to one of `Files`. Under `TableInv` and `IdleInv` the
number of an open file leads to one slot and one mapping (`LeadsTo`), and an
`attach` or `detach` changes a mapping that no open file is in (`OpenedStays`); since
a prefix is in one mapping (`PrefixOnce`) a detached one is gone from `Mounts`. The
number of a new file names an empty slot, so no open file has it. `HandlesFound`
is what is left when clients detach busy filesystems: the file number still finds
its own handle, and only the filesystem that is called can be another.
For the path calls, `DirIsTable` gives `TableInv`, and `DirInv` adds that each
prefix is mapped once, to what was attached under it; `SearchesMounted`, that a
search in progress keeps its filesystem there.

`Injector`: `ImageInv` says where each block is while caches write back and
drop lines as they like: in the data cache or in memory, if `fread` has
delivered it; and for each place in `main` which caches are known to be empty.
`PiBus`: `PiInv` says that at most one write is under way and is the last, or its
register is doubtful, and that an access finds none, and no DMA but one that started
after the wait.

`Entry`: `EntryInv` says for each block where the words of the game are: in the
registers, then `sp` and `gp` in the variables, then the rest on the stack, in
the order of `Pushed`. That the loads are in the order of the stores
(`Pushed = Popped`, a lemma) then gives each register its own word back. `Heap`:
`MemoryOnce` alone is not inductive: a break of 0 means "not set", so one that
came back to 0 would hand out the start of the heap again. `HeapInv` adds that
nothing is given while the break is 0, and never the address 0. `Hooks`:
`HooksInv` says that each hook holds a function of a client that is hooked
*now*; unhooking compares functions, so it takes a client's own or one that a
client shares with it.

Proved and in no run: `NothingLost` (between entry and return each word of the
game that comes back is in its register, on the stack or in a variable), which leads to
`GameKeepsRegisters`, and `AnswersWhole` (an answer fits the buffer it is received into,
if the values in `login.txt` do), which `ImplementsRpc` rests on.
`FilenoInRange` (a file number is above the standard streams' and fits in 15 bits)
follows from `TableInv` without `~DetachBusy`; `ImplementsFiles` has it in what `Files`
asks of a number. `HandlesFound` is described above. `ServedBeforeReturn` (when a post returns, the server
has handled it) is what `ImplementsRpc` of the same run says of a `Return`. `CallsRightFilesystem` and
`TransferComplete` are each in a run that violates it, since that run lets clients
detach filesystems that are in use, or CMD_BUSY not cover messages from the PC;
without that they are theorems.

Model-checked only: liveness (`ReceiveReturns`, `TransmitReturns`,
`ImplementsFairRpc`, `GameResumes`, `StartEnds`, `CallReturns`), since fairness and
ENABLED are out of the prover's reach. Every other property that a passing run
checks has a theorem.

## What the models found

Six disagreements between the code and what is said of it, each a run that TLC
must find violated; `PROJECT.json` quotes the lines.

- A libcurl error other than a timeout ends a post without an answer; the
  receive, documented to return data or an error code, polls for ever
  (`LinkCurlError`). Failing writes of the answer and a restart of the PC
  program in between have the same effect.
- The wait "for the USB transfer to complete" looks at CMD_BUSY, which is about
  commands of the N64 (`LinkTornReply`). It holds or fails with what the
  firmware makes of the bit, and the theorems name that assumption.
- The frames that the payload waits for are counted by variables that nothing
  sets to zero (`PayloadBss`).
- A detached filesystem's file numbers call the filesystem that took its index
  (`FileTableDetach`).
- The handle table grows above 80 percent, not at 75 (`FileTableGrowth`).
- malloc is given addresses within the stack's room, which it is said not to be: the
  check of the break is compiled out (`HeapStack`).

Limits of the code that the passing properties state as a condition, or that an
assumption of a model names:

- A post of 491 to 512 bytes fits the payload's buffer and not one read of the
  PC: of such a post it has the first 490 bytes, without a zero, and curl reads past
  the buffer until it finds one (`TextsArrive`). From 499 bytes on the rest is long
  enough for the PC to take a byte of it for a datatype (`DispatchTrue`).
- A post that an answer to the run before a reset was stored over may get no answer, or
  be retried for ever (`mixed`).
- Two steps of the start can give the same number if an error of the library is another
  and 10 (`CodesTell`).
- `main` looks at one message per bulk transfer. If a transfer returns two, a
  request behind a displayed message is dropped and its call never returns
  (`RequestKept` and `CallReturns` exclude it with `merges`).
- The PC accepts values in `login.txt` that do not fit the 256 bytes of
  `cln_abi_user_data` (`ConfigFits`).
- `_start` restores "every register" but `at`, `hi`, `lo` and the floating-point
  registers, and half of each that it does (`GameKeepsRegisters`).
- It keeps `v0`, `v1` and `a0` in words that `cln_run` may use as its own by the calling
  convention (`Kept`).
- A register access waits for the interface and then uses it with interrupts
  enabled: a DMA that a handler of the game starts in between spoils it
  (`Overtaken`).
- The injector reports a successful test after a single call, in which the
  payload only counts a frame.

## What is not modelled, and the plan

Not modelled:

- the EverDrive stubs, three functions that return an error and that nothing calls;
- `setup_cheats` of the injector, which nothing calls either;
- the functions of `system.c` that set `errno` and return -1 (`fork`, `link`,
  `kill`, `wait` and their like), `isatty`, `_exit`, `_flush_cache` and
  `__assert_func`: they keep no state;
- the ABI functions that return a constant or run a task at once;
- the Classics Live library, libcurl, libusb, newlib's malloc and the N64's kernel
  (not in the repository; external where a module needs them);
- the characters of texts, JSON and paths. A prefix that is the beginning of
  another is left out, and so is what the callbacks make of the rest of a path;
- part of an answer's transfer to the cartridge, which `aux_write` reports and its callers
  ignore: what the firmware does with part of a command is not in the repository, so it
  is taken for none (`AuxWriteFails`);
- what curl does with the bytes behind a cut text;
- an answer of the server that is longer than the 488 bytes of the frame of
  `aux_write`, whose copy is undefined then (`FramingAssumption`).

The order of the work, most important first:

1. *done* `Wire`, `SummerCart`, `UsbDriver`, `Host`, `Link`, `Rpc`, and the proofs about them.
2. *done* `Payload` on top of the link, its order of start-up proved.
3. *done* `Framing`, `Entry`, `Heap`, `Hooks`, `Injector`, `DirSearch`, `PiBus`.
4. *done* The proofs about all of them, and about the file table.
5. *done* `AnswersBounded`, `PostedOnce`, `CoinsTellError`.
6. *done* What a call rests on to end (`LinkWork`), the link without the assumption
   on transfers to the PC, the abstract file layer (`Files`), and what holds of a
   detach with open files (`HandlesFound`), and requests that are not lost when messages
   take more than one read (`RequestKept`).
7. Not begun: lengths and interleavings in one model (`Framing` on top of `Link`), and
   lemmas on numbers that three proof modules state in a similar form, in one place.

## Running it

    tlc -workers 2 -config LinkSafe.cfg MCLink
    tlc -workers 2 -config PartsSafe.cfg MCParts
    tlapm LinkInv_proofs.tla

Each `.cfg` belongs to the MC module of its name's first word (`HeapStack.cfg` to `Heap`). Definitions whose
comment begins with "A faulty" or "Faulty forms" are wrong on purpose: put in
place of the definition that follows them, each makes TLC find a property
violated (`mutants` in `PROJECT.json`).
