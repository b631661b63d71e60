------------------------------- MODULE EzmPp -------------------------------
(***************************************************************************)
(* The production host (src/src/app_production.c) and a device running the *)
(* endpoint side of libs/ezm_pp, connected by a serial line.               *)
(*                                                                         *)
(* One host step is one iteration of a command's loop: ezm_pp_main() and   *)
(* the loop body that refills the driver mailbox.  One endpoint step is    *)
(* one call of ezm_pp_main() on the device.  The line in each direction is *)
(* a FIFO of whole frames; a frame that a CRC, framing or timing error     *)
(* spoils is dropped by the receiver, which is the loss of a frame.        *)
(* Iterations that find neither a frame nor a request only put HOST_WAIT   *)
(* (or WAIT_FOR_NEXT_BLOCK) back in the mailbox: they are stuttering steps.*)
(***************************************************************************)
EXTENDS Integers, Sequences

CONSTANTS
  Byte,         \* the bytes images are made of
  Images,       \* the files the operator may upload, sequences of Byte
  ImgIndex,     \* the image indexes the operator may type (already cast to uint8_t)
  Parts,        \* the indexes that name a partition of the device's flash
  PartSize,     \* the capacity of a partition, in bytes
  BlockSize,    \* EZM_PP_MAX_BLOCK_SIZE, the block size both sides use
  Faults,       \* which faults the environment may inject, see FaultKinds
  MaxInFlight   \* bound: how many frames may be on their way to the device when
                \* the host is restarted; 0 is an operator who lets it settle

(***************************************************************************)
(* "loss": a frame is dropped on the line.  "reset": the device resets.    *)
(* "restart": the operator ends the host program and starts it again.      *)
(* "open", "write", "boot": the flash layer fails that operation.          *)
(* "stale_handle": a partition open that fails leaves the handle it was    *)
(* given untouched, instead of clearing it.                                *)
(***************************************************************************)
FaultKinds == {"loss", "reset", "restart", "open", "write", "boot", "stale_handle"}

ASSUME ImagesAssumption == Images \subseteq Seq(Byte)
ASSUME IndexAssumption == ImgIndex \subseteq 0..255 /\ Parts \subseteq ImgIndex
ASSUME SizeAssumption == BlockSize \in Nat \ {0} /\ PartSize \in Nat
ASSUME BoundAssumption == MaxInFlight \in Nat /\ Faults \subseteq FaultKinds

VARIABLES
  cmd,        \* the command whose loop runs, "prompt" between commands
  slot,       \* ezm_pp_drv_msg.action of the host, the one-place mailbox
  idx,        \* img_index of the last command that took one
  report,     \* what the last command told the operator
  uploaded,   \* PRODUCTION_IMG_UPLOADED in flag
  allocated,  \* file_content # NULL
  file,       \* what file_content points to; file_size is its length
  hop,        \* download_op of the host
  eop,        \* download_op of the endpoint
  ep,         \* what the device executes
  bootSel,    \* the boot partition recorded in the device's flash
  flash,      \* the bytes written to each partition since it was opened
  toEp, toHost  \* frames on the line, oldest first

hostVars == <<cmd, slot, idx, report, hop>>
imageVars == <<uploaded, allocated, file>>
epVars == <<eop, ep, bootSel, flash>>
vars == <<hostVars, imageVars, epVars, toEp, toHost>>

----------------------------------------------------------------------------
(* Messages.  A record stands for the packet and its transport headers. *)

Command == {"get_version", "get_capabilities", "get_storage_info",
            "get_img_info", "download", "get_block", "boot_img"}
CompCode == {"success", "invalid_data"}

\* arg is the image index, or the block number; size is img_size.
Message == [cmd : Command, rq : BOOLEAN, res : CompCode,
            arg : Int, size : Nat, data : Seq(Byte)]

Req(c, a, s) == [cmd |-> c, rq |-> TRUE, res |-> "success",
                 arg |-> a, size |-> s, data |-> <<>>]
Res(c, code) == [cmd |-> c, rq |-> FALSE, res |-> code,
                 arg |-> 0, size |-> 0, data |-> <<>>]
BlockRes(n, d) == [cmd |-> "get_block", rq |-> FALSE, res |-> "success",
                   arg |-> n, size |-> 0, data |-> d]

\* The two block numbers that are signals, as 32-bit two's complement values.
EndOfDownload == -1             \* 0xFFFFFFFF
InvalidWrite == -559038737      \* 0xDEADBEEF

NULL == -1
NoHostDownload == [img |-> "null", size |-> 0, offset |-> 0, bs |-> 0]
NoEpDownload == [handle |-> NULL, size |-> 0, offset |-> 0, bs |-> 0]

\* The number of the block that starts at op.offset (rounded up).
BlockNumber(op) == (op.offset + op.bs - 1) \div op.bs

Smaller(a, b) == IF a < b THEN a ELSE b

Prefix(s, n) == SubSeq(s, 1, n)

----------------------------------------------------------------------------
(* The command loops of app_production.c *)

Running == {"ident", "info", "load", "boot"}

\* Seeded bug: the boot request ignores drv_msg.arg.
RequestFrameNoArg ==
  [IDENT_VERSION      |-> Req("get_version", 0, 0),
   IDENT_CAPABILITIES |-> Req("get_capabilities", 0, 0),
   IDENT_STORAGE_INFO |-> Req("get_storage_info", 0, 0),
   IDENT_IMG_INFO     |-> Req("get_img_info", idx, 0),
   PREPARE_DOWNLOAD   |-> Req("download", idx, hop.size),
   REQ_BOOT_IMG       |-> Req("boot_img", 0, 0)]

\* The frame ezm_pp_main() sends on the host for each action that sends one.
RequestFrame ==
  [IDENT_VERSION      |-> Req("get_version", 0, 0),
   IDENT_CAPABILITIES |-> Req("get_capabilities", 0, 0),
   IDENT_STORAGE_INFO |-> Req("get_storage_info", 0, 0),
   IDENT_IMG_INFO     |-> Req("get_img_info", idx, 0),
   PREPARE_DOWNLOAD   |-> Req("download", idx, hop.size),
   REQ_BOOT_IMG       |-> Req("boot_img", idx, 0)]

Requests == {"IDENT_VERSION", "IDENT_CAPABILITIES", "IDENT_STORAGE_INFO",
             "IDENT_IMG_INFO", "PREPARE_DOWNLOAD", "REQ_BOOT_IMG"}

Sent(action) == IF action \in Requests THEN <<RequestFrame[action]>> ELSE <<>>

\* Seeded bugs: the load loop stops at a refusal; it does not stop at an error.
LoadEndsOnRefusal ==
  {"NO_ACTION", "HOST_ERROR_DOWNLOAD", "HOST_END_DOWNLOAD", "NO_RESPONSE"}
LoadEndsNotOnError == {"NO_ACTION", "HOST_END_DOWNLOAD"}

LoadEnds == {"NO_ACTION", "HOST_ERROR_DOWNLOAD", "HOST_END_DOWNLOAD"}

\* The command whose loop sees ezm_pp_main() return action is over.
LoopEnds(action) == action \in (IF cmd = "load" THEN LoadEnds ELSE {"NO_ACTION"})

\* Seeded bugs: the returned action is put back unfiltered; a request is kept to
\* be sent again.
NextSlotUnfiltered(action) == IF LoopEnds(action) THEN "NO_ACTION" ELSE action
NextSlotRetry(action) ==
  IF action \in Requests THEN action
  ELSE IF LoopEnds(action) THEN "NO_ACTION" ELSE "HOST_WAIT"

\* What the loop leaves in the mailbox for the next iteration, or behind it.
NextSlot(action) ==
  IF action = "NO_ACTION" \/ (cmd = "load" /\ action = "HOST_ERROR_DOWNLOAD")
    THEN "NO_ACTION"
    ELSE IF cmd = "load" /\ action = "WAIT_FOR_NEXT_BLOCK"
           THEN "WAIT_FOR_NEXT_BLOCK" ELSE "HOST_WAIT"

LoopBody(action) ==
  /\ cmd' = IF LoopEnds(action) THEN "prompt" ELSE cmd
  /\ slot' = NextSlot(action)

\* The line cmd_load prints when its loop ends.
LoadReport(action) ==
  IF cmd # "load" THEN report
  ELSE IF action = "HOST_END_DOWNLOAD" THEN "ok"
  ELSE IF action = "HOST_ERROR_DOWNLOAD" THEN "error" ELSE report

\* A command puts its first action in the mailbox and enters its loop.
Issue(c, action) ==
  /\ cmd = "prompt"
  /\ cmd' = c
  /\ slot' = action
  /\ report' = "none"
  /\ UNCHANGED <<imageVars, epVars, toEp, toHost>>

Ident == Issue("ident", "IDENT_VERSION") /\ UNCHANGED <<idx, hop>>

Info(i) == Issue("info", "IDENT_IMG_INFO") /\ idx' = i /\ UNCHANGED hop

\* Seeded bug: the host download is not prepared.
LoadUnprepared(i) ==
  /\ uploaded
  /\ Issue("load", "PREPARE_DOWNLOAD")
  /\ idx' = i
  /\ UNCHANGED hop

\* ezm_pp_ep_drv_prepare_host_download points download_op at file_content.
Load(i) ==
  /\ uploaded
  /\ Issue("load", "PREPARE_DOWNLOAD")
  /\ idx' = i
  /\ hop' = [img |-> "file", size |-> Len(file), offset |-> 0, bs |-> BlockSize]

Boot(i) ==
  /\ uploaded
  /\ Issue("boot", "REQ_BOOT_IMG")
  /\ idx' = i
  /\ UNCHANGED hop

\* The pointer download_op kept from an earlier load no longer designates the
\* image it was prepared for once file_content is reallocated or freed.
Detached(op) == IF op.img = "file" THEN [op EXCEPT !.img = "stale"] ELSE op

UploadLeaves == UNCHANGED <<slot, idx, epVars, toEp, toHost, cmd>>

\* realloc(NULL, 0) is malloc(0), which succeeds; realloc(p, 0) frees and fails.
UploadOk(f) ==
  /\ cmd = "prompt"
  /\ f # <<>> \/ ~allocated
  /\ uploaded' = TRUE /\ allocated' = TRUE /\ file' = f
  /\ hop' = Detached(hop)
  /\ report' = "none"
  /\ UploadLeaves

\* fopen fails: the previous contents stay allocated but are no longer usable.
UploadNotOpened ==
  /\ cmd = "prompt"
  /\ uploaded' = FALSE
  /\ report' = "none"
  /\ UploadLeaves /\ UNCHANGED <<allocated, file, hop>>

\* realloc fails or fread is short: file_content becomes NULL.
UploadNotRead ==
  /\ cmd = "prompt"
  /\ uploaded' = FALSE /\ allocated' = FALSE /\ file' = <<>>
  /\ hop' = Detached(hop)
  /\ report' = "none"
  /\ UploadLeaves

----------------------------------------------------------------------------
(* ezm_pp_main() on the host *)

HostStep == cmd \in Running /\ UNCHANGED <<idx, imageVars, epVars>>

\* No frame is pending: the request in the mailbox is sent.
HostRequest ==
  /\ HostStep
  /\ slot \in Requests
  /\ toEp' = toEp \o Sent(slot)
  /\ LoopBody(slot)
  /\ UNCHANGED <<report, hop, toHost>>

hostRx == Head(toHost)

\* ezm_pp_drv_listen() finds a frame: the mailbox is overwritten with NEW_MSG,
\* whatever it held, and the frame is processed.
HostTakes ==
  /\ HostStep
  /\ toHost # <<>>
  /\ toHost' = Tail(toHost)

\* action is what processing the frame returns.
HostFrame(action) == HostTakes /\ LoopBody(action)

IsGetBlock == hostRx.cmd = "get_block" /\ hostRx.rq

\* Neither of the two signals: a block is asked for.
AsksBlock == IsGetBlock /\ hostRx.arg \notin {EndOfDownload, InvalidWrite}

HostEndOfDownload ==
  /\ HostFrame("HOST_END_DOWNLOAD")
  /\ IsGetBlock /\ hostRx.arg = EndOfDownload
  /\ hop' = NoHostDownload
  /\ report' = LoadReport("HOST_END_DOWNLOAD")
  /\ UNCHANGED toEp

HostInvalidWrite ==
  /\ HostFrame("HOST_ERROR_DOWNLOAD")
  /\ IsGetBlock /\ hostRx.arg = InvalidWrite
  /\ hop' = NoHostDownload
  /\ report' = LoadReport("HOST_ERROR_DOWNLOAD")
  /\ UNCHANGED toEp

\* With no download prepared block_size is 0 and the division traps.
HostDivideByZero ==
  /\ HostTakes
  /\ AsksBlock /\ hop.bs = 0
  /\ cmd' = "crashed" /\ slot' = "NO_ACTION"
  /\ UNCHANGED <<report, hop, toEp>>

\* The block asked for is the one at ez_img_offset.
IsNextBlock == hostRx.arg = BlockNumber(hop)

HostWrongBlock ==
  /\ HostFrame("HOST_ERROR_DOWNLOAD")
  /\ AsksBlock /\ hop.bs # 0 /\ ~IsNextBlock
  /\ report' = LoadReport("HOST_ERROR_DOWNLOAD")
  /\ UNCHANGED <<hop, toEp>>

NothingLeft == hop.img = "null" \/ hop.offset >= hop.size

HostNothingLeft ==
  /\ HostFrame("HOST_ERROR_DOWNLOAD")
  /\ AsksBlock /\ hop.bs # 0 /\ IsNextBlock /\ NothingLeft
  /\ report' = LoadReport("HOST_ERROR_DOWNLOAD")
  /\ UNCHANGED <<hop, toEp>>

\* Seeded bug: off by one in the remaining size.
BlockLengthShort == Smaller(hop.bs, hop.size - hop.offset - 1)

\* The length of the block at ez_img_offset.
BlockLength == Smaller(hop.bs, hop.size - hop.offset)

\* What memcpy reads at ez_img + ez_img_offset: the uploaded image, or anything
\* when the buffer ez_img points to has been freed or overwritten.
BlockData ==
  IF hop.img = "file"
    THEN {SubSeq(file, hop.offset + 1, hop.offset + BlockLength)}
    ELSE [1..BlockLength -> Byte]

HostServeBlock ==
  /\ HostFrame("WAIT_FOR_NEXT_BLOCK")
  /\ AsksBlock /\ hop.bs # 0 /\ IsNextBlock /\ ~NothingLeft
  /\ \E d \in BlockData : toEp' = Append(toEp, BlockRes(BlockNumber(hop), d))
  /\ hop' = [hop EXCEPT !.offset = @ + BlockLength]
  /\ UNCHANGED report

\* Seeded bug: a refused download ends the loop without a word.
ResponseActionSilent ==
  CASE hostRx.cmd = "get_version"      -> "IDENT_CAPABILITIES"
    [] hostRx.cmd = "get_capabilities" -> "IDENT_STORAGE_INFO"
    [] hostRx.cmd = "download"         ->
         IF hostRx.res = "success" THEN "WAIT_FOR_NEXT_BLOCK" ELSE "NO_ACTION"
    [] OTHER                           -> "NO_ACTION"

\* The action each response handler returns to ezm_pp_main().
ResponseAction ==
  CASE hostRx.cmd = "get_version"      -> "IDENT_CAPABILITIES"
    [] hostRx.cmd = "get_capabilities" -> "IDENT_STORAGE_INFO"
    [] hostRx.cmd = "download"         ->
         IF hostRx.res = "success" THEN "WAIT_FOR_NEXT_BLOCK" ELSE "NO_RESPONSE"
    [] OTHER                           -> "NO_ACTION"

\* The handler of a boot response tells the operator how the request ended.
ResponseReport ==
  IF hostRx.cmd # "boot_img" THEN report
  ELSE IF hostRx.res = "success" THEN "booting" ELSE "boot error"

HostResponse ==
  /\ HostFrame(ResponseAction)
  /\ ~hostRx.rq
  /\ toEp' = toEp \o Sent(ResponseAction)
  /\ report' = ResponseReport
  /\ UNCHANGED hop

HostReceives ==
  \/ HostEndOfDownload
  \/ HostInvalidWrite
  \/ HostDivideByZero
  \/ HostWrongBlock
  \/ HostNothingLeft
  \/ HostServeBlock
  \/ HostResponse

----------------------------------------------------------------------------
(* ezm_pp_main() on the endpoint *)

\* The flash of the device is external; erased is the contents after an open.
Erased == <<>>

epRx == Head(toEp)

EpFrame ==
  /\ ep = "loader"
  /\ toEp # <<>>
  /\ toEp' = Tail(toEp)
  /\ UNCHANGED <<hostVars, imageVars>>

Queries == {"get_version", "get_capabilities", "get_storage_info", "get_img_info"}

EpQuery ==
  /\ EpFrame
  /\ epRx.rq /\ epRx.cmd \in Queries
  /\ toHost' = Append(toHost, Res(epRx.cmd, "success"))
  /\ UNCHANGED epVars

\* Seeded bug: ez_img_offset is not reset.
PreparedResumed(h) ==
  [handle |-> h, size |-> epRx.size, offset |-> eop.offset, bs |-> BlockSize]

\* ezm_pp_ep_drv_prepare_endpoint_download before it opens the partition.
Prepared(h) == [handle |-> h, size |-> epRx.size, offset |-> 0, bs |-> BlockSize]

Opens == epRx.arg \in Parts /\ epRx.size <= PartSize

\* The response and, from the same call of ezm_pp_main, the first block request.
StartDownload(code, h) ==
  /\ eop' = Prepared(h)
  /\ toHost' = toHost \o <<Res("download", code),
                           Req("get_block", BlockNumber(Prepared(h)), 0)>>

\* Seeded bug: the partition is written on without being erased.
EpDownloadAppends ==
  /\ EpFrame
  /\ epRx.rq /\ epRx.cmd = "download" /\ Opens
  /\ StartDownload("success", epRx.arg)
  /\ UNCHANGED <<ep, bootSel, flash>>

EpDownload ==
  /\ EpFrame
  /\ epRx.rq /\ epRx.cmd = "download" /\ Opens
  /\ StartDownload("success", epRx.arg)
  /\ flash' = [flash EXCEPT ![epRx.arg] = Erased]
  /\ UNCHANGED <<ep, bootSel>>

\* Seeded bug: the handle of the previous download survives a refused one.
EpRefuseKeepsHandle ==
  /\ EpFrame
  /\ epRx.rq /\ epRx.cmd = "download"
  /\ ~Opens \/ "open" \in Faults
  /\ StartDownload("invalid_data", eop.handle)
  /\ UNCHANGED <<ep, bootSel, flash>>

\* A refused download is answered with an error, and block 0 is still asked for.
EpRefuse ==
  /\ EpFrame
  /\ epRx.rq /\ epRx.cmd = "download"
  /\ ~Opens \/ "open" \in Faults
  /\ \E h \in IF "stale_handle" \in Faults THEN {eop.handle, NULL} ELSE {NULL} :
       StartDownload("invalid_data", h)
  /\ UNCHANGED <<ep, bootSel, flash>>

IsBlock == epRx.cmd = "get_block" /\ ~epRx.rq

\* What the flash layer accepts: an open handle, and room in its partition.
CanWrite ==
  /\ eop.handle # NULL
  /\ Len(flash[eop.handle]) + Len(epRx.data) <= PartSize

\* Seeded bug: the end is signalled one block early.
NextRequestEarly(op) ==
  Req("get_block",
      IF op.offset + op.bs >= op.size THEN EndOfDownload ELSE BlockNumber(op), 0)

\* What ezm_pp_main_req_next_block asks for after a block was written.
NextRequest(op) ==
  Req("get_block", IF op.offset = op.size THEN EndOfDownload ELSE BlockNumber(op), 0)

\* Seeded bug: the offset moves by a whole block, whatever was written.
WrittenBlock == [eop EXCEPT !.offset = @ + eop.bs]

Written == [eop EXCEPT !.offset = @ + Len(epRx.data)]

EpWriteBlock ==
  /\ EpFrame
  /\ IsBlock /\ CanWrite
  /\ flash' = [flash EXCEPT ![eop.handle] = @ \o epRx.data]
  /\ eop' = Written
  /\ toHost' = Append(toHost, NextRequest(Written))
  /\ UNCHANGED <<ep, bootSel>>

WriteFails == ~CanWrite \/ "write" \in Faults

EpInvalidWrite ==
  /\ EpFrame
  /\ IsBlock /\ WriteFails
  /\ toHost' = Append(toHost, Req("get_block", InvalidWrite, 0))
  /\ UNCHANGED epVars

\* ezm_pp_ep_drv_get_next_block_number divides before the action is looked at;
\* with block_size 0 the core may trap instead of yielding a value.
EpDivideByZero ==
  /\ EpFrame
  /\ IsBlock /\ WriteFails /\ eop.bs = 0
  /\ ep' = "fault"
  /\ UNCHANGED <<eop, bootSel, flash, toHost>>

EpBoot ==
  /\ EpFrame
  /\ epRx.rq /\ epRx.cmd = "boot_img" /\ epRx.arg \in Parts
  /\ bootSel' = epRx.arg
  /\ toHost' = Append(toHost, Res("boot_img", "success"))
  /\ ep' = "app"
  /\ UNCHANGED <<eop, flash>>

\* The response has left when ezm_pp_ep_drv_boot_img fails: it is only logged.
EpBootFails ==
  /\ EpFrame
  /\ epRx.rq /\ epRx.cmd = "boot_img" /\ epRx.arg \in Parts /\ "boot" \in Faults
  /\ bootSel' = epRx.arg
  /\ toHost' = Append(toHost, Res("boot_img", "success"))
  /\ UNCHANGED <<ep, eop, flash>>

EpBootRefused ==
  /\ EpFrame
  /\ epRx.rq /\ epRx.cmd = "boot_img"
  /\ epRx.arg \notin Parts \/ "boot" \in Faults
  /\ toHost' = Append(toHost, Res("boot_img", "invalid_data"))
  /\ UNCHANGED epVars

EpReceives ==
  \/ EpQuery
  \/ EpDownload
  \/ EpRefuse
  \/ EpWriteBlock
  \/ EpInvalidWrite
  \/ EpDivideByZero
  \/ EpBoot
  \/ EpBootFails
  \/ EpBootRefused

----------------------------------------------------------------------------
(* The environment *)

\* A booted application, or a core stopped by a fault, ignores the frame.
EpIgnores ==
  /\ ep # "loader" /\ toEp # <<>>
  /\ toEp' = Tail(toEp)
  /\ UNCHANGED <<hostVars, imageVars, epVars, toHost>>

\* The RAM of the device is lost, its flash is not.
EpReset ==
  /\ "reset" \in Faults
  /\ ep' = "loader" /\ eop' = NoEpDownload
  /\ UNCHANGED <<hostVars, imageVars, bootSel, flash, toEp, toHost>>

LoseToEp ==
  /\ "loss" \in Faults /\ toEp # <<>>
  /\ toEp' = Tail(toEp)
  /\ UNCHANGED <<hostVars, imageVars, epVars, toHost>>

LoseToHost ==
  /\ "loss" \in Faults /\ toHost # <<>>
  /\ toHost' = Tail(toHost)
  /\ UNCHANGED <<hostVars, imageVars, epVars, toEp>>

\* The operator ends the program (exit, or a kill when a loop hangs) and starts
\* it again.  What arrives while the port is closed is lost; a frame the device
\* has still to process is answered after the restart.
HostRestart ==
  /\ "restart" \in Faults
  /\ Len(toEp) <= MaxInFlight
  /\ cmd' = "prompt" /\ slot' = "NO_ACTION" /\ report' = "none"
  /\ uploaded' = FALSE /\ allocated' = FALSE /\ file' = <<>>
  /\ hop' = NoHostDownload
  /\ toHost' = <<>>
  /\ UNCHANGED <<idx, epVars, toEp>>

----------------------------------------------------------------------------
Init ==
  /\ cmd = "prompt" /\ slot = "NO_ACTION" /\ report = "none"
  /\ idx \in ImgIndex
  /\ uploaded = FALSE /\ allocated = FALSE /\ file = <<>>
  /\ hop = NoHostDownload
  /\ eop = NoEpDownload /\ ep = "loader" /\ bootSel = NULL
  /\ flash = [p \in Parts |-> Erased]
  /\ toEp = <<>> /\ toHost = <<>>

Operator ==
  \/ Ident
  \/ \E i \in ImgIndex : Info(i) \/ Load(i) \/ Boot(i)
  \/ \E f \in Images : UploadOk(f)
  \/ UploadNotOpened
  \/ UploadNotRead

HostPolls == HostRequest \/ HostReceives

Environment == EpIgnores \/ EpReset \/ LoseToEp \/ LoseToHost \/ HostRestart

Next == Operator \/ HostPolls \/ EpReceives \/ Environment

Spec == Init /\ [][Next]_vars

\* Both main loops poll for ever: a request is sent, a frame is taken.
Fairness == WF_vars(HostPolls) /\ WF_vars(EpReceives)

FairSpec == Spec /\ Fairness

----------------------------------------------------------------------------
(* Properties *)

\* Every variable, mailbox, download record and frame has its type.
TypeOK ==
  /\ cmd \in Running \cup {"prompt", "crashed"}
  /\ slot \in Requests \cup {"NO_ACTION", "HOST_WAIT", "WAIT_FOR_NEXT_BLOCK"}
  /\ idx \in ImgIndex
  /\ report \in {"none", "ok", "error", "booting", "boot error"}
  /\ uploaded \in BOOLEAN /\ allocated \in BOOLEAN
  /\ file \in Seq(Byte)
  /\ hop \in [img : {"null", "file", "stale"}, size : Nat, offset : Nat, bs : {0, BlockSize}]
  /\ eop \in [handle : Parts \cup {NULL}, size : Nat, offset : Nat, bs : {0, BlockSize}]
  /\ ep \in {"loader", "app", "fault"}
  /\ bootSel \in Parts \cup {NULL}
  /\ flash \in [Parts -> Seq(Byte)]
  /\ toEp \in Seq(Message) /\ toHost \in Seq(Message)

\* A command is typed, and its first request leaves the mailbox, on a quiet line:
\* no frame of an earlier command is left that ezm_pp_drv_listen could put in the
\* one-place mailbox over the request, whatever the line loses.
QuietLineAtCommand ==
  (cmd = "prompt" \/ slot \in Requests) => (toEp = <<>> /\ toHost = <<>>)

\* The device ends a frame at a 100 ms silence, so two frames sent back to back
\* merge into one that fails its checks: the host never has two on the line.
OneFrameToDevice == Len(toEp) <= 1

\* The host process is never stopped by the division in the block check: a block
\* is only asked for while a download is prepared.
HostNeverFaults == cmd # "crashed"

\* A block on its way to the device carries the bytes of the uploaded image that
\* its number names, never those of a buffer a later upload freed.
BlocksCarryImage ==
  \A k \in DOMAIN toEp : toEp[k].cmd = "get_block" =>
    LET n == toEp[k].arg IN
    toEp[k].data = SubSeq(file, n * BlockSize + 1, Smaller((n + 1) * BlockSize, Len(file)))

\* While a transfer is under way (its responses, requests or blocks are on the
\* line) the open partition is the one the operator named and holds exactly the
\* first ez_img_offset bytes of the image, though write_block never looks at the
\* number of the block it gets.
Transferring ==
  \E m \in {toEp[k] : k \in DOMAIN toEp} \cup {toHost[k] : k \in DOMAIN toHost} :
    m.cmd = "get_block" \/ (m.cmd = "download" /\ ~m.rq)

FlashHoldsPrefix ==
  Transferring /\ eop.handle # NULL =>
    eop.handle = idx /\ flash[idx] = Prefix(file, eop.offset)

\* cmd_load prints "Download succesful!" only when the partition the operator
\* named holds the whole image, byte for byte.
ReportedSuccessIsFlashed == report = "ok" => idx \in Parts /\ flash[idx] = file

\* When the operator reads that the device will boot and the device did boot, it
\* booted the partition the operator named.
BootsSelected == report = "booting" /\ ep = "app" => bootSel = idx

\* However often the host is restarted, the device's own account of a download is
\* right: ez_img_offset is the number of bytes written since the partition was opened.
EpLedger == eop.handle # NULL => Len(flash[eop.handle]) = eop.offset

\* Only the partition of the running load changes: the handle an earlier load left
\* open on the device is never written through.
OnlyTargetChanges ==
  [][\A p \in Parts : flash'[p] # flash[p] => cmd = "load" /\ p = idx]_vars

\* On a line that loses nothing every command returns to the prompt, unless the
\* device has left the loader.
CommandSettles == cmd \in Running ~> (cmd = "prompt" \/ ep # "loader")

\* On such a line every load ends with its success or its error message, also
\* when the device cannot open or write the partition.
LoadReported == cmd = "load" ~> (report \in {"ok", "error"} \/ ep # "loader")

============================================================================
