# A TLA+ development of stm32_bootloader_host

The repository is the host side of a firmware loader: a production program
(`src/src/app_production.c`) that talks over a serial line to a device running the same
packet library (`src/libs/ezm_pp`) in its other role. This directory models both ends,
the line between them and the receive paths below them, checks the models with TLC and
proves the main results with TLAPS. The repository is a Windows program plus portable
libraries; the device's firmware and its flash layer (`ezm_flash_admin`, `ezm_flash_bl`)
are elsewhere, and are modelled as far as the code here calls them.

## 1. Inventory

| part | state | operations |
|---|---|---|
| host application, `src/app_production.c` | `flag`, `file_content`, `file_size`; which command's loop runs | `ident`, `info`, `upload`, `load`, `boot`, `exit` |
| main loop, `ezm_pp_main.c`, and driver mailbox, `ezm_pp_drv.c` | `ezm_pp_drv_msg`, one place for an event *and* the next action | `ezm_pp_main`: listen, take the mailbox, process a frame, act on the result |
| packet processor, `ezm_pp_pkt_processor.c` | none | one handler per request and per response, which picks the next action |
| download driver, `ezm_pp_ep_drv.c` | `download_op`: image or handle, size, offset, block size | prepare (both sides), serve a block, write a block, end, set boot image, boot |
| packet maker, `ezm_pp_pkt_maker.c` | none | one maker per packet, the lengths |
| UART driver, `ezm_pp_uart_drv.c` | one receive buffer | header, CRC, transmit, listen and validate |
| Windows console, `ezm_console_arch_win.c` | a ring, the parser's state, `output_buf`, `pending` | a reader thread, a parser thread, `receive_async` on the main thread |
| device console, `ezm_api_console.c`, `ezm_console_arch_siwg917x.c` | `console_state`, `console_buffer`, the listen timeout | interrupt per byte, `ezm_console_recv_data` |
| STM32 console, `ezm_console_arch_stm32f4xx.c` | the same on another HAL, with a timeout of its own that runs or is stopped | callback per byte, `..._comm_channel_receive` |
| legacy host, `app_bootloader_host.c`, `app_bootloader_command.c` | `app_bootloader`: `state` and `dl_status`; the file's position; `build_digest`, its last frame | an earlier protocol, `HELLO` to `END`, with retransmission; not built by `CMakeLists.txt` |
| `ezm_utility`, `ezm_api_log` | none that is read elsewhere | CRC-16, byte order, logging |

**How they interact.** A command puts its first action into the mailbox and calls
`ezm_pp_main` until it returns an action that ends its loop. `ezm_pp_main` first lets the
UART driver listen; a valid frame overwrites the mailbox with `NEW_MSG`. Without one the
action in the mailbox is carried out, usually by sending a request. The device calls the
same function for ever. A load is one `download` request; then the *device* asks for one
block after the other and signals the end, or a failed write, with two reserved block
numbers.

**What is hard.**

- Nothing has a timeout, a sequence number or a session: a frame that is lost stops a
  command, and a frame that is late is taken for an answer to whatever runs now.
- One mailbox place serves requests of the command and frames of the line.
- Both sides keep a `download_op` that outlives commands, restarts and resets of the other.
- Failures of the flash come back as answers the host ignores, as signals, or not at all.
- The host's receive path is three threads with one flag and one lock; the device's is an
  interrupt, a main loop and a timeout with none.
- The legacy host repeats its last frame when it is asked to, and keeps two accounts of its
  download, the block counter and the position in the file, which only move together.
- Sizes of a block, two headers, a CRC and three buffers have to agree in 16 bits.

**What makes each part correct.** A load that is reported as successful flashed the whole
image where the operator said, and touches nothing else (application, download driver); a
request in the mailbox is never overwritten and every command ends (main loop); every
packet that is made is accepted, and no other (maker, processor, UART driver); frames are
handed over whole, once and in order, whatever threads or interrupts do (consoles); a client
that asks again gets the block its number names, and "Operation complete!" means the whole
file (legacy host).

## 2. Modules

| module | models | kind |
|---|---|---|
| `EzmPp` | host application, main loop, processor, download driver; device; line | core |
| `ImageTransfer` | what `load` promises its operator | abstract specification |
| `EzmPpTransfer` | `EzmPp` implements `ImageTransfer` | refinement |
| `EzmPpFrame` | one packet through maker, UART driver, line and processor: lengths | core |
| `EzmCrc` | CRC-16, byte order, and a reference definition of the CRC | functions |
| `FrameLine` | what a receive path owes the protocol | abstract specification |
| `WinConsole` | the receive path of the Windows host, implements `FrameLine` | core |
| `SlConsole` | the receive path of the device (SiWG917), implements `FrameLine` | core |
| `StmConsole` | the same of a device with an STM32F4; extends `SlConsole` | core |
| `BootloaderHost` | the legacy host, its client and the line | core |
| `MCEzmPp`, `MCBootloaderHost` | the images and files TLC uses | instances |
| `MCEzmPpFrame` | `EzmPpFrame` with the CRC over the headers it reaches | instance |
| `MCConsole` | `SlConsole` or `StmConsole`, chosen at the start | instance |
| `EzmPpProofs`, `EzmPpSafetyProofs`; `EzmPpFrameProofs`; `EzmCrcProofs` | theorems on `EzmPp` and its refinement, on `EzmPpFrame`, and on the CRC of data of every length | proofs |
| `ConsoleProofs`; `WinConsoleProofs`, `WinLossProofs`; `BootloaderHostProofs` | theorems on the consoles of the devices, of the Windows host, and on the legacy host | proofs |

**EzmPp.** A step of the host is one iteration of a command's loop: `ezm_pp_main` and the
loop body that refills the mailbox. `slot` is the action in the mailbox; `NextSlot` and
`LoopEnds` are the loop bodies; `HostReceives` has one disjunct per outcome of
`ezm_pp_ep_drv_get_download_block` and one for responses. A step of the device is one call
of `ezm_pp_main` that finds a frame. Between two such steps anything else may happen:
both programs are single-threaded, so an iteration is atomic but for the frames that come
in, and those are looked at once per iteration. `hop` and `eop` are the two `download_op`;
`ez_img` is `"file"`, `"null"` or `"stale"`, the last when `file_content` was reallocated
under it. `flash` is the external partition contents. A frame that a CRC, length or timing
error spoils is a lost frame (`LoseToEp`, `LoseToHost`); that no such frame gets through is
what `EzmPpFrame` shows. `EpReset`, `HostRestart` and failing open, write and boot are
chosen by the constant `Faults`. Iterations that find nothing to do are stuttering.

**EzmPpFrame.** The lengths the maker computes, the header and CRC the UART driver adds,
every limit on the way, and the exact length the processor wants, for a packet the line
leaves alone, changes, cuts, or merges with the next. `IntactIsProcessed` covers every
request and response, the error responses, and a block of every size up to
`EZM_PP_MAX_BLOCK_SIZE`, but for the response to `retransmit`: it passes every length check
too, but `pp_process_cmd_res` has no entry for it, and what lies behind the table decides
what happens (`ProcessPastTable`). Nothing in the repository sends that command.

**WinConsole.** One action per atomic step of `uart_thread` (`ReadFile`, one byte of
`rx_push`), `parse_rx` (seeing `rx_head # rx_tail` without the lock, taking a byte under
it, resuming) and `receive_async` (copy, clear `pending`). A byte is named by its frame and
place, and the length the parser reads out of step is any up to the size of the ring.

**SlConsole.** One action per outcome of the interrupt, and each step of
`ezm_console_recv_data` between two accesses to what it shares with it: `console_state` is
read in one step (`SeesListening`), the timeout in the next, and what the interrupt writes in
between is overwritten. `tmo` is `"fresh"`
after it was started, `"old"` when a byte has come since, `"expired"` after 100 ms. Two
assumptions on the surroundings: bytes of one frame follow each other in less than 100 ms
and the interrupt is served before the UART is full and before 100 ms pass; an operator who
gets no answer is slower than the main loop. `AbortFails`, `ArmFails` and `IsrFails` are
chosen by `UartFails`. `open` remembers that the console was listening when the frame began.
It forgets it in one case: the interrupt is refused its next receive after the main loop has
read the state, and the timeout, which nothing restarts then, passes before the main loop
reads it. The part that has come in is handed over, and `ERROR` becomes `READY`; the driver
drops that part, and `ImplementsLine` and `ListensAgain` hold with it.

**StmConsole.** The line, the window and the hand-over are `SlConsole`'s actions; its own are
the callback, reading the timeout, the abort and the copy. A timeout that was read as reached
is `"stopped"`. Reading it is two steps, because the tick and the start it is subtracted from
are read one after the other with interrupts enabled: `due` is what the subtraction will say.
A timeout that is not running is not read (`NotRunning`).

**EzmCrc.** Both loops of `ezm_crc16_ccitt` in 16 bits. A `uint16_t` or an octet is the set
of its bits that are 1: `^` is `Plus`, `<<` is `Up`, and what leaves bit 15 is cut off. The
loops are recursive functions, so that they can be reasoned about. The reference takes the
bits of the data as the set of exponents of a polynomial and divides. `MCEzmPpFrame` applies
both to the header of every frame the model reaches, with a byte behind it, and puts bursts
of errors (`Changed`) at every bit of the frame.

**BootloaderHost.** A step of the host is one round of its loop: the greeting in `INIT`, the
read, the handler, the answer. `Reads` is `bootloader_port_recv`: one read returns any number
of the frames that have arrived and all but the first are lost; the fault `"split"` lets it
return the beginning of another, whose rest is then taken for a frame. A frame that
`app_bootloader_command_check` does not accept leaves `command_digest` null, which stops the
host. `digest` is the frame that `RETRANSMIT` repeats. The client is not in the repository;
it asks for one thing at a time, asks for a retransmission when nothing comes, and repeats
its request when what comes back is the answer to an earlier one. `odd` records what happened
that the protocol has no answer to.

Sizes against the code: `flag` bits, names, versions, capabilities and log texts are left
out, since no later step reads them; contents of bytes matter only as the image.

## 3. Runs

All runs set `CHECK_DEADLOCK FALSE`, because each model may stop legitimately: a lost frame
leaves the host waiting (`EzmPp`), a packet reaches its last stage (`EzmPpFrame`), and the
consoles send a bounded number of frames and then wait for one, and the legacy host ends.

| run | shows | instance |
|---|---|---|
| `safety` | the safety of a load and a boot, and that `EzmPp` implements `ImageTransfer`, with lost frames, resets, restarts on a settled line and failing flash operations | 2 partitions and an index that names none, 6 images, blocks of 2 bytes |
| `live` | every command returns and every load reports, on a line that loses nothing | 6 images, failing flash operations |
| `restart` | the device's offset is right although the host restarts with a frame on its way | `MaxInFlight = 1`, 2 images |
| `frame` | every packet with a handler is processed, no spoiled one is; the CRC is the remainder of a division, closes to 0 on either byte order, and notices bursts of errors | payload of 40 bytes, every block size; 7 patterns of wrong bits at every bit of the frame |
| `win` | `WinConsole` implements `FrameLine` and hands over every frame while no byte is lost; a lost payload byte costs at most its frame and the next | ring of 14, frames of 6 and 7 bytes in turn, 4 frames, chunks of up to 2, one lost byte |
| `sl` | on both devices the buffer is not touched while it is copied, a frame that found the console listening arrives whole (on the STM32 unless a subtraction wraps; on both but for the refused receive of section 2), the device listens again and again, and the path implements `FrameLine` | frame of 5 bytes, UART of 2, 4 frames, failing UART |
| `legacy` | a block carries what its number names; "Operation complete!" means the whole file, after a reset of the client too; a client that waits before it asks again comes to its end | 5 files, blocks of 1 and 2, one lost frame, 3 frames on the line, all faults |

**Bounds.** Images are empty, shorter than a block, one block, a block and a half, two
blocks and longer than a partition: every case of the block arithmetic. Two partitions are
needed for a write into the wrong one, and the index 9 for one that cannot be opened.
Two bytes tell two images apart. The line needs no bound where restarts wait for it to
settle: `OneFrameToDevice` is a result. `MaxInFlight = 1`, in the runs that restart at any
time, allows the one frame the protocol can have under way. The ring of `win` wraps twice
and holds two frames, as many as the device sends in a row; a lost byte needs three frames
after it to show what it costs (`LossCostsTwoFrames` also holds with two and with three lost
bytes, in 3 and 21 million states). Four frames on the consoles cover a window that
expires before, in the middle of and after one. The files of `legacy` are empty, end with a whole
and with a part of a block, and have up to four blocks; three frames on the line let a
retransmission overtake the answer it asks for, and one read take two frames. The safety
properties of `legacy` also hold with two lost frames and four on the line (two million states).

**Fairness.** `FairSpec` has weak fairness for `HostPolls` and `EpReceives`: both loops poll
without waiting for each other. The operator is not fair, nor is any fault. `WFairSpec` has
it for the three threads the operating system schedules; `SFairSpec` for the interrupt, the
main loop, time, and a byte that is on the wire, and strong fairness for `Arms` and `Aborts`:
a UART that refuses does not refuse for ever. An interrupt that is refused its next receive
puts the console in an error state which nothing leaves, but for a main loop that has already
read the state before; `ListensAgain` names that exception.
`TFairSpec` is the same for the STM32, whose abort cannot fail. `BFairSpec` has weak fairness for
the two things a round of the legacy host does, for the client's taking what arrives, and for its
timeout on a quiet line; no fault is fair.

**Seeded bugs.** Each module that is checked has, before the definitions concerned,
variants marked "Seeded bug", one for every checked property: the property is violated
when the variant replaces the definition.

## 4. What the code does not keep

Five runs state what a message, comment or name in the source says and find it refuted.

| run | refuted | how |
|---|---|---|
| `stale_end` | "Download succesful!" (`app_production.c:170`) means flashed | host restarted while its last block is on the way: the end signal of the old transfer ends the next load |
| `restart_crash` | an unexpected block is an error (`ezm_pp_ep_drv.c:79`) | the same restart, a block request of the old transfer, and `block_size` is 0 |
| `sl_cut` | a reception ends after 100 ms of silence (`ezm_api_console_def.h:11`) | a byte at the edge of a window ends it, and the rest of the frame is on its way |
| `stm_tick` | `ezm_console_timeout_read` returns "true: timeout reached" (`ezm_console_arch_stm32f4xx.c:52`) | the interrupt restarts the timeout between the two values that are subtracted, and the difference wraps |
| `legacy_error` | an error of the client is shown (`app_bootloader_host.c:234`) | the check does not accept `ERROR`, and its null result is read |

A refused download goes on: the device asks for block 0 after answering that the partition
cannot be opened, and the host serves it. That is harmless if the flash layer clears the
handle when an open fails, which `safety` and the theorems assume; with the fault
`"stale_handle"`, a layer that leaves it alone, the blocks go to the partition of the download
before and the load is reported as a success. The layer is not in the repository, so no run
claims either.

Not refuted but worth knowing: without a settled line `BootsSelected` fails too, since the
answer to a boot request of before a restart is printed under whatever command runs then
(`ezm_pp_pkt_processor.c:720`); the device never closes a partition, since only the host
executes `ezm_pp_ep_drv_close_download_partition`, where it has no body; a boot is answered
with success before it is tried; and a client of the legacy host that is reset in the middle
of a download is never served to the end, because the file is not rewound: `CompleteIsWhole`
says that the host then does not report a complete operation.

The device has the division by zero too, in `ezm_pp_main_req_next_block`, when a block
arrives after a reset. Whether that traps is a setting of its core: `EpDivideByZero` is the
trap, `EpInvalidWrite` the answer, and every result holds with either.

## 5. Theorems

| module | theorem | for every value of the constants |
|---|---|---|
| `EzmPpProofs` | `TypeCorrect` | `TypeOK` |
| | `EpLedger_Correct` | `EpLedger`, if a failed open clears the handle |
| `EzmPpSafetyProofs` | `QuietLine_Correct`, `OneFrame_Correct`, `HostNeverFaults_Correct`, `BlocksCarryImage_Correct`, `FlashHoldsPrefix_Correct`, `ReportedSuccess_Correct`, `BootsSelected_Correct`, `OnlyTargetChanges_Correct` | the property of the same name, under `SettledLine` |
| | `Transfer_Correct` | `EzmPp` implements `ImageTransfer`, under `SettledLine` |
| `EzmPpFrameProofs` | `FrameInvariant`, `Intact_Correct`, `Damaged_Correct` | the two properties, for payload sizes from 34 to 65520 |
| | `CrcIsRemainder_Correct`, `CrcTellsSpoiled_Correct` | the property of the same name, for every byte behind the header and every set of bursts |
| `EzmCrcProofs` | `CrcIsDivision` | `ezm_crc16_ccitt` is the remainder of the division, for data of every length |
| | `SealedIsZero` | a frame with its CRC has CRC 0, for every frame and either byte order |
| | `BurstIsNoticed`, `OddChangeIsNoticed` | errors within 16 bits, and an odd number of errors anywhere, change the CRC of data of every length |
| | `TwoBytesAreNoticed` | so does a change of one byte or two adjacent ones: the assumption of `Spoil` |
| `ConsoleProofs` | `ConsoleInvariant`, `CopyUndisturbed_Correct`, `SlWhole_Correct`, `Whole_Correct` | `CopyUndisturbed`, `SlWhole`, `WholeUnlessWrapped` |
| | `Line_Correct` | both devices implement `FrameLine` |
| `WinConsoleProofs` | `WinInvariant`, `CopyIsStable_Correct`, `RingKeepsOrder_Correct` | the property of the same name |
| | `WinLine_Correct` | `WinConsole` implements `FrameLine`, a lossless one if no byte is lost |
| `WinLossProofs` | `LossCostsTwoFrames_Correct` | `LossCostsTwoFrames` |
| `BootloaderHostProofs` | `HostInvariant`, `BTypeOK_Correct`, `BlockOfFile_Correct`, `CompleteIsWhole_Correct` | the property of the same name |

`SettledLine` says that the operator restarts the host only when no frame is on its way to
the device (`MaxInFlight = 0`), and that a failed open clears the handle. The runs
`stale_end` and `restart_crash` show that the first cannot be dropped; for the second see above.

**The argument.** None of the safety properties is inductive: that a load which ends with
the end signal has flashed the image depends on what the device knew when it sent it.
`SafeInv` is `TypeInv /\ HostInv /\ LineInv`. `LineInv` says that the line holds nothing,
one frame, or the two of an answered download request, and what that frame means: a block
on its way carries the bytes that follow the device's offset and the host's offset is
already past them (`BlockSent`); a block asked for is the one the host would serve next, and
an end signal is only on its way when the partition holds the image (`BlockAsked`); both only
while the device's record is in step with the image (`InStep`), which a reset of the device
makes vacuous. Each group of actions has its lemma; `SafeNext` puts them together, and the
theorems follow from `Safe`. `EpLedger` is inductive with the types alone, so it needs no
settled line. The refinement maps a host step to `Succeed`, `Fail` or a stutter, a device
step to `Erase`, `Extend` or a stutter, and an operator step to `Begin` or `Choose`.

`FrameInv` gives number of bytes and `pkt_len` at every stage. The proof needs a payload size
of at least 34 bytes: with 32 or 33 the image information and its CRC no longer fit, and
`ezm_pp_uart_drv_transmit` drops that response without a word. The code's 4096 is far from it.

`BlocksCarryImage` needs one more fact, `Aligned`: the offset of the host is a multiple of the
block size or the end of the image, so that the number of a block, which the code gets by
rounding the offset up, names the bytes before it.

**The CRC.** A register is the set of its bits, so it is also a polynomial, and one turn of the
inner loop does to the register what one step of the division does to the 16 coefficients at
the top of the dividend (`ReducedIsShift`). `CrcIsDivision` follows byte by byte: after each,
the dividend is the register, and behind it the bytes to come (`Ahead`). The remainder is
linear, so errors add their own remainder to the CRC whatever the data are
(`ChangeInDivision`). The dividend of a burst is the burst itself until the division comes to
it, and then a register that no turn makes 0, since the polynomial has a bit 0
(`BurstLeavesRemainder`); the division adds four terms at a time and so keeps an odd number
odd (`RemainderParity`). A register that is fed its own two bytes, the upper one first,
becomes 0 (`FeedOwnBytes`), and that is the order `ezm_htons_u16` and `memcpy` produce on
either kind of machine (`CrcOnTheWire`). The loops are inductions over the number of bytes
and of turns; `Induction` states them for sets, from the least elements of the library's
well-founded orderings, and `RunExists` gives a recursive function the value its definition
says.

**The consoles.** `ControlInv` says at which step of the main loop a receive may be in
progress, `OrderInv` that the bytes buffered, those in the UART and those to come follow each
other and are newer than the frame last taken; `CopyUndisturbed` and the refinement follow
from these. `SlFate` and `StmFate` list what can become of a frame that found the console
listening: it is being received, whole, given up before any of it is handed over, or handed
over, and on the STM32F4 its first byte may be gone because a subtraction wrapped.

**The Windows host.** The invariants are about one sequence, `Stream`: what the parser has of
a frame, the ring, the chunk and the line, one behind the other. Only `LoseByte`, the driver's
taking a frame and the parser's dropping a byte shorten it; all other steps move bytes within
it. `RoomInv` says that a push never fills the ring (the device sends no more than fits),
`OfferInv` whose turn it is on `output_buf`, `OrderInv` that `Stream` is in order, `LosslessInv`
that without losses it is whole frames with the parser in step; a byte that looks like a
first one does no harm then. For lost bytes, `Kept` says that nothing else is missing from
`Stream`, `WithinTwoFrames` that what the parser has of a frame is of that one and the one
behind it, with every byte of the two that was not lost, and `Accounted` that a frame the
parser has passed was taken or is one of those two. That the parser does not reach a third
frame is a matter of counting (`NotAllLost`): to pass all of two frames with fewer bytes than
the first has, it would have to miss more bytes than the second has, and the property is about
losses up to the length of the shortest frame. The bound is sharp: seven lost of one payload
reach past a frame of six bytes behind it and cost a third.

**The legacy host.** A client that was reset gets blocks numbered from 0 while the host goes
on reading where it was. Whether such a download can be reported complete is a matter of
counting. Every block served moves the file on, so a block with the wrong bytes is of a place
behind its number (`Beyond`); so is every later one, and a client that took a wrong one
(`Doomed`) waits for numbers the file has no bytes left for. `FileInv` relates position and
block counter, `AnswersInv` the frames under way and the one a `RETRANSMIT` repeats,
`ClientInv` what the client has; `OrderInv` says that without a reset the file is never ahead
of the counter.

**Only model-checked.**

- Liveness (`CommandSettles`, `LoadReported`, `EveryFrameTaken`, `ListensAgain`,
  `OperationCompletes`): it needs `ENABLED` and fairness, which the prover does not handle.

## 6. Not modelled

- Errors of an even number of bits that are further apart than 16 bits: some have a CRC of 0.
  `Spoil` in `EzmPpFrame` is a change of one byte; for cut and merged frames nothing is
  assumed of the CRC.
- `ezm_crc32_ieee_seed`, which has no caller.
- Requests without a sender in the repository: `set_capabilities`, `remove_img`,
  `retransmit` (their lengths are in `EzmPpFrame`). Packets that no maker builds (message types, roles, `som`/`eom`), and
  `ezm_pp_pkt_maker_get_block_rsp`, which nothing calls.
- Writes past a buffer: `output_buf` when the parser reads a length out of step,
  `uart_drv_buffer` when the console returns more than it holds, `console_buffer` when bytes
  never pause. What they do is not defined by the code.
- Images so long that 32-bit offsets wrap, and image numbers above 255, which are cast.
- In the legacy protocol: bytes the line changes (its frames have no check), blocks whose
  frame is longer than 16 bits count, a block size of 0, partition information (`-i`, which
  has no body), and the options.
- Opening and configuring ports, logging, and the critical section that is initialised after
  the threads start.

## 7. Plan

Every component with state is modelled, and every safety property the passing runs check is
a theorem. Left: the lemmas on sequences that `WinConsoleProofs`, `WinLossProofs` and
`BootloaderHostProofs` share could be one module.
