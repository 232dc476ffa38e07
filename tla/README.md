# A TLA+ model of ucxclient

ucxclient is a C library that drives a u-blox module over a UART: an application
executes AT commands, the module answers them with responses, a status (`OK`,
`ERROR`) and, at any time, unsolicited result codes (URCs). This directory holds
TLA+ modules that model the library, TLC configurations that check them on small
instances, and proofs for every instance.

## Inventory

| Part | State | Operations | Hard behaviour |
|---|---|---|---|
| URC queue (`src/src/u_cx_at_urc_queue.c`) | byte buffer, `bufferPos`, the open and the taken entry, `queueMutex`, `dequeueMutex` | EnqueueBegin, GetPayloadPtr, EnqueueEnd, EnqueueAbort, DequeueBegin, DequeueEnd | a producer appends while a consumer works in place and later moves the buffer; `queueMutex` stays locked between calls; a dequeue gives up instead of waiting |
| AT client (`src/src/u_cx_at_client.c`) | `cmdMutex`, `executingCmd`, `status`, start time and timeout, expected response, binary receive state, receive buffer | Init, Deinit, Open, Close, CmdBeginF, GetRspParamLine, CmdEnd, ExecSimpleCmd, HandleRx, processUrcs, SetCommandTimeout, SetUrcCallback | any thread may be the one that parses; URC callbacks execute commands; late answers; partial binary data; Deinit against the RX task |
| XMODEM sender (`src/src/u_cx_xmodem.c`) | block number, retries, offset | Open, Close, Send (WaitForStart, SendBlock, SendEot) | lost, corrupted and late acknowledgements |
| Parameter parser and formatter (`u_cx_at_util.c`, `u_cx_at_params.c`) | none | parse, escape, convert | conversion in place; boundaries of strings and numbers |
| Ports (`src/ports/os`) | mutex kind, RX task, clock | lock, try-lock, RX task create and destroy, tick time | polling on POSIX and Windows, work item on Zephyr, no thread at all on no-OS; recursive mutex on Zephyr; clock of 24 hours |
| UART ports (`src/ports/uart`) | handle, ring buffer on Zephyr | open, close, read, write | partial reads, errors, interrupt against reader |
| ucx API (`src/ucx_api`) | table of URC callbacks | one generated function per AT command, `uCxUrcParse` | the command sequence must be ended on every path; results that point into the receive buffer |
| Logging, configuration, examples, tests | | | not modelled |

The application and the RX task call the AT client; the client calls the UART
port and, with a URC line in hand, the URC queue; `processUrcs()` takes the URCs
from the queue and calls the URC callback, which may call the client again. With
the ucx API on top, that callback is `uCxUrcParse()`, which calls the callback the
application has registered for the URC. The two queue mutexes and `cmdMutex` are all
the synchronisation there is.

What makes each part correct: the queue hands out every accepted URC whole, once
and in order, whatever the interleaving; the client gives every command its own
answer, never blocks on itself, runs one callback at a time outside `cmdMutex`,
lets every command return, and is quiet after Deinit; the parser finds the lines and
data that were sent, however the reads cut them up, and reads back the arguments the
formatter wrote; a function of the ucx API ends its command and reports its outcome;
the XMODEM sender has sent the file when it says so.

## Modules

| Module | What it is | Checked by |
|---|---|---|
| `UrcFifo` | abstract: a FIFO of URCs with one entry open and one handed out | refined by `UrcQueue`, used by `AtClient` |
| `UrcQueue` | the byte buffer, its pointers and mutexes, one action per step between lock operations | `urc_queue`, `UrcQueueProofs` |
| `AtClient` | the client; composes command execution, polling, the parser by messages, and `UrcFifo` | `MCAtClient`: `at_client*`; `AtClientProofs` |
| `AtBytes` | bytes with a meaning on the line, `ctype.h`, concatenation and loops | |
| `AtParser` | the receiving side of the client byte by byte | `at_parser`, `AtParserProofs` |
| `AtText` | arguments as text: `u_cx_at_util.c`, `u_cx_at_params.c` and the formatter of `SendCmd` | `at_parser`, `AtArgumentsProofs` |
| `AtArguments` | composes `AtParser` and `AtText`: lines that carry arguments | `MCAtParser`: `at_parser`; `AtArgumentsProofs` |
| `ClientLife` | Init, Open, Close, Deinit, the RX task, and a URC's way to its callback | `MCClientLife`: `client_life*`; `ClientLifeProofs` |
| `UcxUrcs` | table of the 51 URCs, their formats and registering functions | used by `ClientLife` |
| `UcxApi` | threads that call the ucx API, against the client's contract | `MCUcxApi`: `ucx_api`; `UcxApiProofs` |
| `UcxFunctions` | table of the 320 functions of the ucx API as sequences of calls | used by `UcxApi` |
| `ZephyrRx` | interrupt, ring buffer and work item of the Zephyr port with the client's two readers | `zephyr_rx*`, `ZephyrRxProofs` |
| `Xmodem` | the XMODEM sender, a receiver and a serial line that loses, damages and delays | `xmodem`, `XmodemProofs` |

### UrcQueue

`mem` is `pBuffer`: each byte is a record of the URC it belongs to, its position in
that URC's entry and, for the two header fields, the number stored there. So a byte
at the wrong place, or one overwritten, is visible in the state. `pc`, `pEntry` and
`inCallback` are the threads' local state. Every function is cut at the points where
other threads can interfere: `EnqueueBegin` is one step because it holds
`queueMutex`, `DequeueBegin` is three (try-lock, look under `queueMutex`, hand out or
give back). Lengths keep their `uint16_t` wrap through `LengthRange`. `entries`
is a history variable: what the buffer should hold, and where.

`ImplementsUrcFifo` is the refinement: `fifo` is the history, `open` and `taken`
are read from the bytes at `pEnqueueEntry` and at offset 0.

### AtClient

A call `<<t, 0>>` is thread `t` in `CmdBeginF` .. `CmdEnd` or in `HandleRx`, `<<t, 1>>`
a call made by the same thread inside it, from the URC callback. There is no third
level: the inner call finds `dequeueMutex` taken and starts no callback. `pc` names
the points of the code:

| `pc` | code |
|---|---|
| `cmdLock` | `cmdBeginF()`, waiting for `cmdMutex` |
| `getRsp`, `rspRead`, `rspCheck` | `GetRspParamLine()` before, in and after `handleRxData()` |
| `begun` | between begin (and response) and `CmdEnd` |
| `endRead`, `endCheck`, `endDone` | the loop of `cmdEnd()`, its timeout check, its end |
| `rxLock`, `rxRead`, `rxUnlock` | `HandleRx` |
| `drain`, `locked`, `callback`, `empty` | `processUrcs()`: before try-lock, holding `dequeueMutex`, in the callback, found empty |
| `ret` | before the `return` |

`handleRxData()` is modelled read by read: each `Read...` action is one token of the
UART input together with all the parser does with it, up to returning to the caller.
Between two reads other threads may run. The line `parseLine()` decides on is a record,
so that `strncmp` against the expected prefix becomes a test of its type: all
responses share one prefix, URCs another. A URC line is enqueued and completed in
one step, since the mutex is held between; a binary URC stays open from its length
to its data. Whether there is room in the queue is left open (both outcomes).

`Split`, `Timeouts`, `MaxIoErrors`, `InCallback` and `PollInCmd` switch parts of the
environment on, so that each run and theorem says under which of them its property
holds.

### AtParser, AtText and AtArguments

`AtParser` has no threads: who reads next, a command or the background task, makes no
difference to `handleRxData()` but for `executingCmd`, and only one reads at a time
(`OneCommandAtATime`). `wire` holds the bytes that are sent and not read. A line is read
byte by byte (`ReadStart`, `ReadLineEnd`, `ReadChar`, `ReadOther` are the cases of
`parseIncomingChar()`, `Classify` is `parseLine()`); the length and the data of a binary
transfer come in reads of every size (`ReadPartOfLength`, `ReadLength`, `ReadData(n)`,
`FlushData(n)`). Commands begin, set what they expect and give up between any two reads.
`Rooms` are the free bytes a URC may find in its queue. `stream` and `log` are history
variables: what was sent, and what the parser made of it and when. `Messages` are the
messages the module may send, `Streams` the sequences of them it may send in a row. A message
has a kind, which says what its line is to a client (`KindIsTrue`), and `Meaning` says from
the kind, and independently of the parser, what it should be taken for.

`AtText` has one pure operator per conversion, on sequences of bytes: what
`uCxAtUtilParseParamsVaList()` makes of a line, each of `uCxAtClientSendCmdVaList()`'s
ways to write an argument, and the functions for escapes, hex, addresses and integer
lists under them. A loop of the code is `Loop(step, start, n)`, whose step is a function on the
loop's variables (`ScanStep`, `UnescapeStep`, `IntListStep`, ...); where the loop works in the
buffer, the buffer is one of them (`mem`). `Argument` is what each kind of argument may be by its
C type. `AtArguments` lets the module answer with arguments that are written
the way the client writes its own, so that `ArgumentsArrive` relates formatter, parser
and framing.

### ClientLife and UcxUrcs

`pc["app"]` and `pc["rx"]` are the application's thread and the RX task of the POSIX
port. Every assignment of Open, Close and SetUrcCallback that another thread can see is a
step: `OpenUart`/`SetOpened`, `CloseUart`/`ForgetUart`/`ResetOpened`,
`SetUrcCallback`/`SetTag`; so are the reads of `uartHandle`, of the tag and of the
callback's slot (`CheckSlot`, `CallSlot`: the code names the slot twice, and a build may
load it once or twice). A behaviour is about one URC of `UcxUrcs` and the slot of its
callback; commands are reduced to locking, reading and handing out URCs.
The application may call `uCxInit()` before Open or after it (`src/README.md:106` and the
examples do the latter), and again in the same life, and may register a callback in an empty slot
at any time; `ReplacesLate` lets it also replace and remove callbacks of an opened client while
URCs may be on their way to them. What is behind a null handle is undefined in the code; the
model finds no callback there.

### UcxApi and UcxFunctions

`UcxFunctions` maps every generated function to its calls into the client (`"begin"`,
`"params"`, `"line"`, `"syntax"`, `"end"`), what it returns, and whether its results point
into the receive buffer. `UcxApi` executes them step by step on several threads, with
the client taken by its contract (one command at a time, timeouts, URCs that come in
between) and a module that answers with a response that parses or does not, with
a status, an echo, or not at all. `between` is what a caller owes after a
function, by its header ("Must be terminated by calling uCxEnd()"; the type does not tell:
`uCxMqttReadBegin()` returns an `int32_t`, as the functions do that end their command),
`text` follows a result in the receive buffer, `got` is what came for the
command.

### ZephyrRx

Whole lines stand for bytes. `fifo`, `irqOn` and `ring` are the UART's FIFO, its
interrupt and `rxRingBuf`; `work` is the state of the work item as `k_work_is_pending()`
sees it. The interrupt runs between two steps of the threads, a read of the ring is
one step. With flow control the module waits while the FIFO is full. Two readers: the
work item (`HandleRx`) and a command.

### Xmodem

`pc` names the points of `uCxXmodemSend()`:

| `pc` | code |
|---|---|
| `idle` | no call is active |
| `start` | `xmodemWaitForStart()` |
| `data` | the loop of `uCxXmodemSend()`, before the data callback |
| `write`, `ack` | `xmodemSendBlock()`: before it writes the block, waiting for the reply |
| `eot`, `eotAck` | `xmodemSendEot()`: before it writes EOT, waiting for the reply |

Byte `i` of the file is the number `i` and padding is 0, so that a block that is stored
twice, left out or out of place shows in `image`. A packet is a block, a damaged block
(the CRC is what tells the two apart) or EOT. Time is abstract: the waits for a
reply end by time-out at any moment; `late` remembers that one of them, or the
receiver's, has ended while something was still in transit.
`ShortReads` lets the data callback return fewer bytes than it
was asked for. Block numbers are modulo `NumRange` in place of 256.

The receiver and the line are not in the source. The receiver is the one the
XMODEM-CRC protocol prescribes: it stores the block it expects, acknowledges the
one before it again, cancels on any other, answers a damaged one with NAK, and may nag,
refuse a first EOT, or give up. The line keeps the order, and loses or damages what it
likes. `uCxXmodemSendFile()` is `Send` with a callback that reads a file.

### Definitions with an underscore

A definition such as `SetRsp_FirstBuffer` is `SetRsp` with a plausible mistake. It is not
used in the specification. Replacing the body of `SetRsp` with it makes TLC report a
violation: this is how each property was seen to depend on the code it is about.

## Runs

| Run | Instance | Shows |
|---|---|---|
| `urc_queue` | 2 threads, buffer of a few entries, lengths that fit exactly, nearly, and not | buffer integrity, pointers, callback data, assertions, refinement of `UrcFifo`; under fairness no completed entry stays for ever |
| `at_client` | 2 command threads, RX thread, callbacks that execute commands and poll, 2 commands, 2 URCs with data, responses with and without data, which may arrive in pieces | mutual exclusion, one callback at a time, order of URCs, every command its own answer, no thread waits for itself |
| `at_client_live` | 1 command thread, RX thread, nested command, 2 commands, 1 URC, timeouts, one read that fails, silent module allowed | every command returns, the input is read and the URCs in it are delivered |
| `at_parser` | two messages of 11 kinds in a row, overlong lines, some 1200 lines with arguments | the lines and data that were sent arrive, in order and as what they are; arguments come back as they were written; nothing is written behind a buffer |
| `client_life` | application thread and RX task, 3 of the 51 URCs, one callback, any number of lives, `uCxInit()` before and after Open | nothing runs after Deinit and Deinit returns; the callback that is called is the registered one |
| `ucx_api` | 2 threads, 306 of the 320 functions, up to 2 responses, echo on, URCs | commands are ended and by their owner, results stay valid, the return value is the outcome, every call returns |
| `zephyr_rx` | FIFO and ring of 2 lines, 4 URCs, an application that always sends another command | no line is lost or doubled, commands return although the ring fills, every URC is delivered |
| `xmodem` | 6 blocks, the last one short, 3 tries, 2 transfers | the file is stored in order; progress and success are true unless something is late; every call returns |
| `at_client_returns` | 2 command threads | expected violation: `cmdEnd()` returns another command's status (`u_cx_at_client.c:453`) |
| `at_client_split_urc` | a binary URC in two pieces | expected violation: the RX thread locks `queueMutex` twice |
| `client_life_open_first` | `uCxInit()` after Open, one URC | expected violation: the URC is handed to the ucx API with a null handle (`u_cx_at_client.c:537`) |
| `zephyr_rx_lost_signal` | the same without further commands | expected violation: a URC stays in the ring, for which the interrupt's signal was dropped |

### Observations without a run

Found by TLC with a constant of a run changed:

- Late answers: with `Timeouts = TRUE` in `MCAtClient.cfg`, `OwnAnswers` is violated: a late
  status or response is taken by the next command. An AT answer does not say whose it is.
- `PollInCmd = TRUE` violates `NoThreadWaitsForItself`: HandleRx between CmdBeginF and
  CmdEnd waits for the `cmdMutex` of its own thread (`u_cx_at_client.c:768`), though
  `u_cx_at_client.h:323` calls it safe while a command is executing.
- `Recursive = TRUE` in `MCUrcQueue.cfg`, with one thread, violates `AssertsHold`: the mutex of the Zephyr
  port (`u_port_zephyr.h:39`) lets a nested `processUrcs()` through, although
  `u_cx_at_config.h:39` says that commands can be executed in the URC callback.
- `ReplacesLate = TRUE` violates `RegisteredIsCalled`: a slot that is cleared by the
  application, or by a second `uCxInit()`, between the check and the call.
- `uCxWifiStationGetIpConfig()` and `uCxWifiApGetSecurity()` return false in the middle, without
  `uCxAtClientCmdEnd()`, when the response does not come (an ERROR instead, or a timeout) or its
  first parameter does not parse (`u_cx_wifi.c:166`, `:440`): `executingCmd` stays true and `cmdMutex`
  locked, and the next command waits for ever; to the caller the false is 0, success.
  `u_cx_at_client.h:248` says "each call to uCxAtClientCmdBeginF() must always be terminated with a
  call to uCxAtClientCmdEnd()", and `u_cx_wifi.c:187` "Always call uCxAtClientCmdEnd() even if
  any previous function failed". Taking the two (`LeavesCommand` in `MCUcxApi`) into `SoundFunctions`
  violates `EveryCommandIsEnded`, and TLC evaluates in `ucx_api` that they are not well formed
  (`WellFormedFunctions`).
- `ReadsOpenUart` of `ClientLife` is violated: Close frees the UART under a HandleRx that has
  read `opened` before.
- `uCxWifiStationGetSecurityBegin()` and `uCxMqttGetTLSBegin()` always return false: the
  format `-d` counts two parameters and the code asks for one (`u_cx_wifi.c:57`), while
  `uCxEnd()`, which should give the error (`u_cx_wifi.h:284`), returns 0. Taking them into
  `SoundFunctions` violates `ReturnTellsOutcome`. The other functions left out there are the two
  above, three that hand out text after CmdEnd (`NoDanglingResult`;
  `u_cx_wifi.c:266`), and seven whose response has no prefix, so that the echo of their own
  command is taken for it (`u_cx_system.c:198`).
- Late ACKs: `xmodemSendBlock()` takes any ACK for that of the
  block it has just sent and reads nothing away first (`u_cx_xmodem.c:206`). If a
  block was sent again because its ACK was late, two ACKs arrive; the second
  acknowledges the next block, which may have been lost. The receiver then sees a gap in the
  block numbers, or, if it was the last block, EOT, and 0 is returned, though
  `u_cx_xmodem.h:119` promises success. This is why `ProgressIsReal` and
  `SuccessMeansComplete` say "unless late".
- `ShortReads = TRUE` violates `ReceiverHasPrefix`: a data callback that returns fewer bytes than asked
  (`u_cx_xmodem.h:63` does not forbid it) puts padding into the middle of the file.
- `NumRange = 4` violates `ReceiverHasPrefix` in a transfer that is late: an old block is
  taken for a new one when the line holds as many blocks as there are numbers.

Read in the code while modelling:

- `cmdEnd()` checks the timeout after the read without looking at the status the read
  has brought (`u_cx_at_client.c:431`), so an `OK` read in the last millisecond becomes
  `U_CX_ERROR_CMD_TIMEOUT`; `EndCheck` of `AtClient` has it.
- A string whose escaped form exceeds the format buffer is written without escapes
  (`u_cx_at_client.c:592`, `:607`).
- `uCxStringToBdAddress()` ignores what stands between the 12 digits and the suffix; IPv6 strings
  may have empty groups; `[]` may be followed by anything. Bytes that do not print are dropped from lines.
- `u_cx_xmodem.h:109` says that the receiver starts the transfer with 'C' or NAK; NAK ends it
  with -2 (`u_cx_xmodem.c:118`, action `StartNak`). A NAK for EOT is logged and ignored
  (`u_cx_xmodem.c:273`), EOT is not sent again.
- Six URCs have a slot and a parse function but no function that registers for them:
  UESODS, UESODSF, UESODB, UESODBF, UESPSDS, UESPSDB. `urcCallback()` of `u_cx.c` does
  not pass on binary data.
- Deinit without Close leaks the UART handle; the parser's state survives Close and Open.

### Bounds

In the queue runs four URCs with two line lengths and two payload lengths pass
through a buffer that cannot hold all of them: entries are aborted, refused,
moved down while another is behind them, and one is appended during a callback. More
URCs repeat these situations; the proofs cover all numbers.

In the client runs two commands and two URCs are enough for: a command that begins
while another has ended but not returned; a nested command inside a callback of the
other command; a second URC that arrives during the callback of the first; two
threads that drain at once.

In `at_parser`, 11 kinds of messages, in pairs, put each kind behind each
other one, with data that contain line ends, SOH and a response, with room that is one byte too small
and just enough, and a response buffer shorter and longer than the data. `RxBufferLen` is 60 so
that all lines but the overlong ones fit, as the code expects of its user. Arguments are
strings over eleven awkward bytes up to length 2 (four of them up to 3), long ones,
numbers of every length (below 2^31, where `int` ends), lists, hex, and
addresses, alone and before and after another one.

`client_life` takes one URC without parameters, one with an address and one with a
string and no registering function; slots and URCs are independent of each other, and
the theorems are about all of them. Two URCs in one life: one whose callback is running
while another arrives.

In `ucx_api` two threads and 306 functions: what one function does depends on the others only
through the client's owner and the receive buffer. A list of two responses has a first, a next and an end.

In `zephyr_rx` ring and FIFO can both be full, with one URC more than fits.

In `xmodem` block numbers wrap (5 numbers for 6 blocks), every number of
failed tries up to giving up occurs, and a second transfer finds what the first left on
the line. The line holds 2 items a way; `NumRange` has to exceed what is in transit both
ways. The code has 256.

### Fairness

`FairSpec` of `AtClient` assumes that threads are scheduled, that a thread waiting for
a mutex that is free again and again gets it (the pthread and Windows mutexes do
not promise an order, but starve no one in practice; the RX task sleeps 10 ms between polls), that bytes in
transit arrive, that the RX task polls for ever (`rxTask` of the POSIX and Windows
ports) and that time passes. Nothing is assumed of the module: it may never answer.
`FairSpec` of `UrcQueue` assumes that a begun enqueue is finished and that threads
poll. `FairSpec` of `ClientLife` assumes that the threads run and that callbacks return;
the application need not call anything. `FairSpec` of `UcxApi` assumes that callers
end the commands that a Begin function leaves open, as its documentation demands, and
nothing of the module. `FairSpec` of `ZephyrRx` assumes that the interrupt is served, that
the threads run and that the module answers; `BusySpec` adds that the
application always has another command to send, strongly fair since it competes for
`cmdMutex` with the work item. `FairSpec` of `Xmodem` assumes that the sender's thread
runs and that its waits end by time-out in the end (their loops compare the clock with
the start time), and nothing of the receiver and the line.

## Proofs

`UrcQueueProofs` proves, for every set of threads, buffer length, set of lengths and
bound, and for mutexes that are not recursive: `TypeOK`, `PointersFollowLocks`,
`BufferHoldsEntries`, `CallbackSeesItsUrc`, `AssertsHold` and `ImplementsUrcFifo`.
The assumptions are those of `UrcQueue` (lengths are 16-bit numbers, payloads are not
empty, the sentinels differ from real values).

The argument: `AssertsHold` and the integrity of the bytes are not inductive by
themselves. The inductive invariant is the conjunction of `TypeOK`,
`PointersFollowLocks` (who holds which mutex decides what the pointers mean),
`EntriesContiguous` (so that the length that `DequeueEnd` reads from the header at
offset 0 is the distance to the next entry) and `EntriesIntact` (so that this header is
still the one that was written). Appending writes only behind `CommittedEnd`, the
memmove shifts all entries by the size of the first, aborting touches only the open
entry. The refinement then follows action by action: each concrete step is a step of
`UrcFifo` or leaves `fifo`, `open` and `taken` unchanged.

`AtClientProofs` proves, for every set of command and polling threads, every kind of
message, and with timeouts, split messages and failing reads: `OneCommandAtATime` and
`OneCallbackAtATime`. Both come from one fact about a mutex: its owner is the call that
stands in the section it protects. Most steps keep a call in its section or outside of
it and leave the mutex alone, and one lemma covers these; the steps that lock or unlock are
looked at one by one. `NoThreadWaitsForItself` is proved for `PollInCmd = FALSE`,
`Split = {}` and `MaxIoErrors = 0`. Without the first two the code violates it (see above), and a
failing read leaves the queue's entry open just as a split URC does. The run
`at_client` checks it with split responses. The invariant adds to `CommandInv` that calls are
nested in the callback only, where the outer call holds no `cmdMutex` (`NestInv`), and that an open
entry of the queue is followed on the wire by its own data (`WireInv`), so that the thread
that opened it reads on and closes it before it drains.

The second half of the module is about the messages themselves. `UrcsInOrder` and
`TypeOK` are proved for every set of threads and with time-outs, split messages and failing
reads; `OwnAnswers` and `ResponseBeforeStatus` for `Timeouts = FALSE` and
`MaxIoErrors = 0`: without these a late answer is taken by the next command (see above). The one
assumption on constants is that `NoUrc` is not a message (`NoUrcAssumption`). A URC is followed on
its way. `TrafficInv`: what the module has sent and nobody has read are messages in pieces that
follow each other. `QueueInv`: the entry that is open is the message whose data comes next.
`OrderInv`: no URC overtakes another one on the wire, in the queue or at a callback; the hard
case is the dequeue, in which one thread holds the first entry while others append. The
answers are followed from the command that executes. `LineInv`: what the module has yet to send
for a command, and every answer on the wire, are of the command that is executing, and when it
has its status nothing of them is left. `ReadyInv`: as long as a response is due, the parser
expects it, for the buffer of this command. `ResultInv` says what this makes of every command's
`log`, `UrcOnly` that no response gets into the URC queue, and `FirstInv` that an OK comes
behind the response.

`ClientLifeProofs` proves `TypeOK` and `QuietAfterDeinit` for every order of the application's
calls, and `RegisteredIsCalled` for both orders of `uCxInit()` and Open, if the application
replaces no callback of an opened client outside of callbacks (`ReplacesLate = FALSE`; without
this TLC finds it violated), for any set of callbacks and URCs. The argument is about who looks
at a slot when it changes, which must not be a thread between the check and the call
(`SlotInv`). Before the client was opened the RX task does not get past its check of `opened`
(`PhaseInv`); while the ucx API is not bound, URCs are dropped (`BindInv`), so that `uCxInit()` may
empty the slots; a slot that is empty is not called, so that it may be filled; and while a callback
changes another one's slot, the only thread that hands out a URC, the one that holds
`dequeueMutex` (`DrainInv`), is in that callback. That the callback is given its handle
(`CallbackGetsHandle`) is not a theorem: `client_life_open_first` refutes it.

`AtParserProofs` proves `TypeOK` and `MessagesArrive` of `AtParser`: for every size of the
receive buffer, of a command's buffer and of the room for a URC, every stream of messages, with
texts and data of every length and content, and every way to cut it into reads. The first says
that nothing is written behind the end of a buffer; its invariant adds to the types what a
read relies on: how many bytes of the header were read, and that the
data in a buffer and those that remain fit what the header announced.

The second says that the parser never loses its place among the messages. Nothing in its state
names that place, so the invariant does (`Somewhere`): there are a message `k` and a number `p`
such that the first `p` bytes of its frame have been read, and what the parser holds is right
for that place. In front of a message it holds nothing (`BeforeMessage`); in a text the buffer
has what it keeps of the bytes that print (`InText`); between CR and LF the line is logged
(`InLineEnd`); in the length the line is still there, and the first byte of the length
(`InLength`); in the data it has the first of them, as many as there is room for, an entry that
was decided when the length was complete, and the number of those to come (`InData`). The log is
always what the messages before were. Each reader is then shown to take as many bytes as bring
it to the next place. What is sent, kept of a text, and logged accumulates along a sequence by
a recursive function (`Joined`); what it yields is proved by the claim that no number is
the smallest to break it, which the prover takes where it does not take the
induction theorems of its library.

The assumption about messages (`MessagesAssumption`) is that their text holds no SOH, CR and LF,
data fit their 16-bit length, and a kind is what `KindIsTrue` says of the line; the last is asked
only of messages that leave a line, and of the line as the buffer keeps it. TLC evaluates it for
the messages of the run. What the buffer keeps of a line that is too long is its end,
which may be anything, and so may its kind.

`AtArgumentsProofs` proves that what the formatter writes is what the parser of parameters reads
(`ArgumentsTheorem`), for integers, strings, addresses, lists and byte arrays, any number of
them, in any order, of any length and with all values their C types have; and that it still is
after a line with them has gone through the parser of lines (`ArgumentsArrive`). It is assumed
that the format buffer holds an IPv6 address (`FormatBufLen >= 42`; 42 is what the code has), that a
string is not written without the escapes it needs (`KeepsEscapes`; see the observations), and, for the
second, that the text fits into the receive buffer and the response begins with bytes that print
(`ArgumentsAssumption`; TLC evaluates it for the messages of `at_parser`).

An argument has to be one parameter to the scan, and the parser of its kind has to undo it.
`ReadsBack` says both of a text, in whatever place of a line it stands, and `ArgumentsRead` puts
such texts together: the scan stops at each comma between arguments and at no other. Then each
kind is shown to read back. Addresses and numbers mean nothing to the scan. A string may
hold every character the scan knows, so it is said of every place in it whether the scan takes it
for one behind a backslash (`InEscape`) or not (`InString`). A number is the sum of its digits,
which `strtol()` adds up from the front and `snprintf()` takes off at the end. Lists and strings
are converted in the buffer they are read from: `ListSoFar` says of a list that after `i` rounds its
first `2 * i` bytes are the first `i` numbers and that nothing that is still to be read has been
overwritten, since a number and its separator take two characters at least; the
opening bracket is what makes room for the first. In the line, all of the text prints
and fits, so that the buffer keeps all of it (`AllIsKept`); and `ParamsInv` adds to the invariant of
`MessagesArrive` that what the log holds of a response is what stands behind the prefix that was expected.

`UcxApiProofs` proves, for every number of threads, any functions, and whatever the module
sends: `TypeOK`, `EveryCommandIsEnded`, `OnlyTheOwnerEnds`, `NoDanglingResult` and
`ReturnTellsOutcome`. The assumption is
that the functions are well formed (`WellFormed`), which is what a generator of such
functions has to see to: the header of a function asks for `uCxEnd()` if and only if the function does not end its
command; one that ends it does that last, does nothing before that returns early (a missing line or unknown form does) and
gives out nothing that is in the receive buffer; one that does not end it reads
one response at most. `MCUcxApi` has TLC evaluate that all functions of the API are
well formed but the five that break a property by themselves. The
invariant says of each thread that what it has still to do, or, between two
calls, how the last one has left the command, decides whether it owns the client (`CallInv`),
and that a thread with a result owns the client and will read no line (`TextInv`), so
that no one else reads into the buffer either. `ReturnTellsOutcome` needs, moreover, that
the functions can tell (`TellsOutcome`): one that takes a response as a line asks for its form
with the next call and returns false when there is none, and none takes the echo of its
command for a response. `MCUcxApi` has TLC evaluate which functions of the API this leaves out
(`TellingFunctions`): those that leave their command, that lose the form, or that take the echo, all of
which are under the observations above. The second invariant (`OutcomeInv`) is about place and
value: a thread has made the first `k` calls of its function, for some `k`, and its return
value says what these have brought (`Outcome`). Only between a line and the question after its
form it says nothing yet; and the status counts from the last call on. An early return jumps to the
end, where the same must hold.

`ZephyrRxProofs` proves, for every size of FIFO and ring and every number of URCs: `TypeOK`
(neither overflows) and `NoUrcIsLost`. The latter says where each URC is: delivered, in the
queue, in the ring or in the FIFO, which, one behind the other, hold the numbers of all URCs sent
in their order, with at most one answer between them. The invariant: `MutexInv` says who holds
`cmdMutex`; `DequeueInv` that the thread at a callback or behind it holds `dequeueMutex` and
that the entry it was given is still the first; `CountInv` is `NoUrcIsLost` with the place of the
answer, which is on its way only while the application reads, so that the work item never
reads one.

`XmodemProofs` proves, for every file length, block size, range of block numbers from 2,
number of retries and capacity of the line: `TypeOK` in every environment, and, if the
callback fills its blocks (`FullReads`), `ProgressIsReal`, `SuccessMeansComplete` and, as long
as nothing is late, `ReceiverHasPrefix`; and, if also `NumRange > 2 * LineCap`
(`NumbersSuffice`), `ReceiverHasPrefix` whatever is late (`PrefixWhenLate`). No hypothesis
can be left out (see above), and the last one is exact: with `LineCap = 2` the run holds with
5 numbers, and TLC finds a violation with 4. The code has 256 numbers.

The argument: until something is late, sender and receiver take turns, and the invariant says
what may be on the line. `OneInTransit`: at most one packet. `OneAnswer`: at most one ACK
or NAK, and only while the sender waits for it and no packet is under way. `CancelIsLast`:
what follows a CAN is nothing. `StartIsFresh`: a start request that is still on the line when
the first block is stored is read before that block's ACK. `InStep` relates the two ends: the receiver either expects the
block being sent, with exactly the acknowledged bytes stored, or it has just stored
it and its ACK is under way or lost. In the second case a repeated block is recognised
by its number, for which two numbers are enough.

The argument when something is late (`LateInv`) counts blocks, as nothing else is bounded: after
time-outs there may be several copies of a block and several ACKs of one block on the line, each
of which makes the sender go on, and a new transfer may begin among what is left of the one before.
`Ahead` says that every block by which the sender is ahead of the receiver was acknowledged by an
ACK that was sent for an earlier block, and that fewer such ACKs, or blocks that will be answered
by one, are left than fit into the lines. `Ordered` and `Recent` say that blocks arrive in order and none is
older than the one stored last, except at the beginning of a transfer; `Early` says
when that is, by the requests to start that are, or may come to be, on the line. It follows
(`HeadIsNear`) that the block at the head of the line is fewer than `2 * LineCap` blocks away from
the one the receiver waits for, so that its number tells which it is. The lemmas on `Engaged`, the
conjunction of these, are about lines and not about states: one for each thing that can happen to
a line, from which each step is put together.

Only model-checked: liveness, which is out of the prover's reach. Every invariant that a
passing run checks, and the refinement, is also a theorem.

## Not modelled

- The variant without URC queue (`U_CX_USE_URC_QUEUE 0`), in which callbacks run inside
  the parser.
- `uCxAtClientSetCommandTimeout()` and the clocks: time is the possibility of a time-out. The
  clock of the POSIX port falls back to 0 every 24 hours (`u_port_posix.c:59`).
- Two clients at once, which share the static `lengthBuf` of `handleBinaryRx()`.
- The Windows ports beyond what they have in common with POSIX; `k_work_cancel()`, close
  and partial writes of the Zephyr ports.
- The text of commands, the tables of error codes, types and prototypes of the generated headers.
- `uCxAtUtilReplaceChar()`; logging; configuration; examples; tests.

## Plan

Done: all modules above; every invariant of a passing run is a theorem.
Left, in this order: two clients in `AtParser`; a clock with 24 hours against the timeout arithmetic; a refinement of `AtClient`'s messages by `AtParser`'s
bytes, which now agree by their properties only.
