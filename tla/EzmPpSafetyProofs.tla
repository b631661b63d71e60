------------------------- MODULE EzmPpSafetyProofs -------------------------
(***************************************************************************)
(* What a load guarantees, for any images, partitions and block size, when *)
(* the operator restarts the host only on a settled line and a partition   *)
(* open that fails leaves no handle.  Without the first assumption TLC     *)
(* finds the counterexamples of the runs stale_end and restart_crash.      *)
(*                                                                         *)
(* The invariants the runs check are not inductive: that a finished        *)
(* download flashed the image depends on what the one frame on the line    *)
(* says.  SafeInv ties that frame to both download records.  At the end:   *)
(* the host, the device and the line implement the abstract transfer.      *)
(***************************************************************************)
EXTENDS EzmPpProofs, EzmPpTransfer

SettledLine == MaxInFlight = 0 /\ "stale_handle" \notin Faults

\* The device is in step with the load: its open partition is the one the operator
\* named and holds the first ez_img_offset bytes of the image.
InStep ==
  eop.handle # NULL =>
    /\ eop.handle = idx /\ eop.size = Len(file)
    /\ eop.offset <= Len(file) /\ flash[idx] = Prefix(file, eop.offset)

IdentQueries == {"get_version", "get_capabilities", "get_storage_info"}

\* The frames that may be on their way to the device, by the running command.
BlockSent(m) ==
  /\ cmd = "load" /\ ~m.rq /\ m.cmd = "get_block" /\ InStep
  /\ eop.handle # NULL =>
       /\ hop.offset = eop.offset + Len(m.data)
       /\ m.data = SubSeq(file, eop.offset + 1, hop.offset)

ToDevice(m) ==
  \/ cmd = "ident" /\ m.rq /\ m.cmd \in IdentQueries
  \/ cmd = "info" /\ m.rq /\ m.cmd = "get_img_info"
  \/ cmd = "boot" /\ m.rq /\ m.cmd = "boot_img" /\ m.arg = idx
  \/ /\ cmd = "load" /\ m.rq /\ m.cmd = "download"
     /\ m.arg = idx /\ m.size = Len(file) /\ hop.offset = 0
  \/ BlockSent(m)

\* The frames that may be on their way to the host.  The end of a download is only
\* signalled when the partition holds the image; any other block that is asked for
\* is the one the host would serve next.
BlockAsked(m) ==
  /\ cmd = "load" /\ m.rq /\ m.cmd = "get_block" /\ InStep
  /\ m.arg = EndOfDownload => idx \in Parts /\ flash[idx] = file
  /\ m.arg \notin {EndOfDownload, InvalidWrite} /\ eop.handle # NULL => hop.offset = eop.offset

ToTheHost(m) ==
  \/ cmd = "ident" /\ ~m.rq /\ m.cmd \in IdentQueries
  \/ cmd = "info" /\ ~m.rq /\ m.cmd = "get_img_info"
  \/ /\ cmd = "boot" /\ ~m.rq /\ m.cmd = "boot_img"
     /\ m.res = "success" => bootSel = idx
  \/ BlockAsked(m)

Quiet == toEp = <<>> /\ toHost = <<>>

\* One frame is on the line, or the two of an answered download request, or none.
LineInv ==
  \/ Quiet
  \/ /\ slot \notin Requests
     /\ \/ \E m \in Message : toEp = <<m>> /\ toHost = <<>> /\ ToDevice(m)
        \/ \E m \in Message : toEp = <<>> /\ toHost = <<m>> /\ ToTheHost(m)
        \/ \E m \in Message, r \in CompCode :
             toEp = <<>> /\ toHost = <<Res("download", r), m>> /\ BlockAsked(m)

FirstRequest == {<<"ident", "IDENT_VERSION">>, <<"info", "IDENT_IMG_INFO">>,
                 <<"load", "PREPARE_DOWNLOAD">>, <<"boot", "REQ_BOOT_IMG">>}

HostInv ==
  /\ cmd # "crashed"
  /\ slot \in Requests => <<cmd, slot>> \in FirstRequest
  /\ cmd = "load" => hop.img = "file" /\ hop.bs = BlockSize /\ hop.offset <= hop.size
  /\ slot = "PREPARE_DOWNLOAD" => hop.offset = 0
  /\ report # "none" => cmd = "prompt"
  /\ report = "ok" => idx \in Parts /\ flash[idx] = file
  /\ report = "booting" => bootSel = idx

SafeInv == TypeInv /\ HostInv /\ LineInv

----------------------------------------------------------------------------
(* What SafeInv says of the line *)

\* Between commands, and while a first request waits, the line is empty.
LEMMA QuietLine ==
  ASSUME SafeInv, cmd \notin Running \/ slot \in Requests
  PROVE  toEp = <<>> /\ toHost = <<>>
BY DEF SafeInv, LineInv, Quiet, ToDevice, ToTheHost, BlockSent, BlockAsked, Running

\* A frame the device takes is alone on the line.
LEMMA DeviceFrame ==
  ASSUME SafeInv, toEp # <<>>
  PROVE  /\ toHost = <<>> /\ Tail(toEp) = <<>> /\ Len(toEp) = 1
         /\ slot \notin Requests /\ cmd \in Running
         /\ epRx \in Message /\ ToDevice(epRx)
<1>1. PICK m \in Message : toEp = <<m>> /\ toHost = <<>> /\ ToDevice(m)
  BY DEF SafeInv, LineInv, Quiet
<1>2. slot \notin Requests
  BY DEF SafeInv, LineInv, Quiet
<1>3. epRx = m /\ Tail(toEp) = <<>> /\ Len(toEp) = 1
  BY <1>1 DEF epRx
<1> QED
  BY <1>1, <1>2, <1>3 DEF ToDevice, BlockSent, Running

\* A frame the host takes is alone, or an answered download request before the
\* request of the first block.
LEMMA HostFrames ==
  ASSUME SafeInv, toHost # <<>>
  PROVE  /\ toEp = <<>> /\ slot \notin Requests /\ hostRx \in Message
         /\ \/ Tail(toHost) = <<>> /\ ToTheHost(hostRx)
            \/ \E m \in Message, r \in CompCode :
                 hostRx = Res("download", r) /\ Tail(toHost) = <<m>> /\ BlockAsked(m)
<1>1. toEp = <<>> /\ slot \notin Requests
  BY DEF SafeInv, LineInv, Quiet
<1>2. CASE \E m \in Message : toHost = <<m>> /\ ToTheHost(m)
  BY <1>1, <1>2 DEF hostRx
<1>3. CASE \E m \in Message, r \in CompCode :
             toHost = <<Res("download", r), m>> /\ BlockAsked(m)
  <2>1. PICK m \in Message, r \in CompCode :
               toHost = <<Res("download", r), m>> /\ BlockAsked(m)
    BY <1>3
  <2>2. hostRx = Res("download", r) /\ Tail(toHost) = <<m>>
    BY <2>1 DEF hostRx
  <2>3. hostRx \in Message
    BY <2>2, FrameType DEF Command
  <2> QED
    BY <1>1, <2>1, <2>2, <2>3
<1> QED
  BY <1>2, <1>3 DEF SafeInv, LineInv, Quiet

----------------------------------------------------------------------------
(* Each step preserves SafeInv; TypeNext gives the types *)

\* The operator acts at the prompt, on an empty line.
LEMMA OperatorSafe ==
  ASSUME SafeInv, Operator
  PROVE  HostInv' /\ LineInv'
<1>1. cmd = "prompt" /\ UNCHANGED <<epVars, toEp, toHost>>
  BY DEF Operator, Ident, Info, Load, Boot, Issue, UploadOk, UploadNotOpened,
         UploadNotRead, UploadLeaves
<1>2. toEp = <<>> /\ toHost = <<>> /\ slot \notin Requests
  BY <1>1, QuietLine DEF SafeInv, HostInv, Running, FirstRequest
<1>3. LineInv'
  BY <1>1, <1>2 DEF LineInv, Quiet
<1>4. ASSUME NEW c, NEW r, <<c, r>> \in FirstRequest, c # "load", Issue(c, r)
      PROVE  HostInv'
  BY <1>4 DEF Issue, HostInv, FirstRequest
<1>5. CASE Ident
  BY <1>3, <1>4, <1>5 DEF Ident, FirstRequest
<1>6. ASSUME NEW i \in ImgIndex, Info(i) PROVE HostInv'
  BY <1>4, <1>6 DEF Info, FirstRequest
<1>7. ASSUME NEW i \in ImgIndex, Boot(i) PROVE HostInv'
  BY <1>4, <1>7 DEF Boot, FirstRequest
<1>8. ASSUME NEW i \in ImgIndex, Load(i) PROVE HostInv'
  <2>1. hop' = [img |-> "file", size |-> Len(file), offset |-> 0, bs |-> BlockSize]
    BY <1>8 DEF Load
  <2>2. Len(file) \in Nat
    BY FieldTypes DEF SafeInv, TypeInv
  <2>3. hop'.img = "file" /\ hop'.bs = BlockSize /\ hop'.offset = 0 /\ hop'.offset <= hop'.size
    BY <2>1, <2>2
  <2> QED
    BY <1>8, <2>3 DEF Load, Issue, HostInv, FirstRequest
<1>9. CASE UploadNotOpened \/ UploadNotRead \/ \E f \in Images : UploadOk(f)
  <2>1. cmd' = "prompt" /\ report' = "none" /\ slot' = slot
    BY <1>9 DEF UploadNotOpened, UploadNotRead, UploadOk, UploadLeaves
  <2> QED
    BY <1>2, <1>3, <2>1 DEF HostInv, Requests
<1> QED
  BY <1>3, <1>5, <1>6, <1>7, <1>8, <1>9 DEF Operator

\* The report of a command that is over is what HostInv says of it.
ReportTold ==
  /\ report' # "none" => cmd' = "prompt"
  /\ report' = "ok" => idx \in Parts /\ flash[idx] = file
  /\ report' = "booting" => bootSel = idx

\* An iteration that keeps the download record, or ends the load, keeps HostInv.
LEMMA HostStepSafe ==
  ASSUME SafeInv, HostStep, cmd' = cmd \/ cmd' = "prompt", slot' \notin Requests, ReportTold,
         cmd' = "load" => /\ hop'.img = "file" /\ hop'.bs = BlockSize
                          /\ hop'.offset <= hop'.size
  PROVE  HostInv'
<1>1. cmd # "crashed" /\ cmd \in Running /\ "PREPARE_DOWNLOAD" \in Requests
  BY DEF HostStep, Running, Requests
<1>2. idx' = idx /\ file' = file /\ flash' = flash /\ bootSel' = bootSel
  BY DEF HostStep, imageVars, epVars
<1>3. cmd' # "crashed"
  BY <1>1 DEF Running
<1> QED
  BY <1>1, <1>2, <1>3 DEF HostInv, ReportTold

\* The first request of a command is put on an empty line.
LEMMA RequestSafe ==
  ASSUME SafeInv, HostRequest
  PROVE  HostInv' /\ LineInv'
<1>1. /\ HostStep /\ slot \in Requests /\ cmd \in Running
      /\ toEp = <<>> /\ toHost = <<>> /\ toHost' = toHost /\ toEp' = toEp \o Sent(slot)
      /\ hop' = hop /\ report' = report /\ report = "none"
  BY QuietLine DEF HostRequest, HostStep, SafeInv, HostInv, Running
<1>2. ~LoopEnds(slot)
  BY <1>1 DEF LoopEnds, LoadEnds, Requests
<1>3. cmd' = cmd /\ slot' \notin Requests
  BY <1>1, <1>2, LoopBodyType DEF HostRequest
<1>4. HostInv'
  BY <1>1, <1>3, HostStepSafe DEF ReportTold, SafeInv, HostInv
<1>5. idx' = idx /\ file' = file /\ UNCHANGED epVars
  BY <1>1 DEF HostStep, imageVars
<1>6. toEp' = <<RequestFrame[slot]>> /\ toHost' = <<>>
  BY <1>1 DEF Sent
<1>7. PICK m \in Message : m = RequestFrame[slot]
  BY <1>1, FieldTypes, FrameType DEF RequestFrame, Requests, Command, SafeInv, TypeInv
<1>8. hop.img = "file" => hop.size = Len(file)
  BY DEF SafeInv, TypeInv
<1>9. ToDevice(m)'
  <2>1. <<cmd, slot>> \in FirstRequest
    BY <1>1 DEF SafeInv, HostInv
  <2>2. CASE cmd = "ident"
    BY <1>3, <1>7, <2>1, <2>2 DEF FirstRequest, RequestFrame, Req, ToDevice, IdentQueries
  <2>3. CASE cmd = "info"
    BY <1>3, <1>7, <2>1, <2>3 DEF FirstRequest, RequestFrame, Req, ToDevice
  <2>4. CASE cmd = "boot"
    BY <1>3, <1>5, <1>7, <2>1, <2>4 DEF FirstRequest, RequestFrame, Req, ToDevice
  <2>5. CASE cmd = "load"
    <3>1. hop.offset = 0 /\ hop.size = Len(file) /\ slot = "PREPARE_DOWNLOAD"
      BY <1>8, <2>1, <2>5 DEF FirstRequest, SafeInv, HostInv
    <3> QED
      BY <1>1, <1>3, <1>5, <1>7, <2>5, <3>1 DEF RequestFrame, Req, ToDevice
  <2> QED
    BY <1>1, <2>2, <2>3, <2>4, <2>5 DEF Running
<1>10. LineInv'
  BY <1>3, <1>6, <1>7, <1>9 DEF LineInv, Quiet
<1> QED
  BY <1>4, <1>10
\* A block request the host takes belongs to a load and was alone on the line.
LEMMA BlockRequested ==
  ASSUME SafeInv, HostTakes, IsGetBlock
  PROVE  /\ HostStep /\ cmd = "load" /\ BlockAsked(hostRx)
         /\ toEp = <<>> /\ toHost' = <<>>
         /\ hop.img = "file" /\ hop.bs = BlockSize /\ hop.size = Len(file)
         /\ report = "none"
<1>1. HostStep /\ toHost # <<>> /\ toHost' = Tail(toHost)
  BY DEF HostTakes
<1>2. toEp = <<>> /\ toHost' = <<>> /\ ToTheHost(hostRx)
  <2>1. ~ \E m \in Message, r \in CompCode :
            hostRx = Res("download", r) /\ Tail(toHost) = <<m>> /\ BlockAsked(m)
    BY DEF Res, IsGetBlock
  <2> QED
    BY <1>1, <2>1, HostFrames
<1>3. cmd = "load" /\ BlockAsked(hostRx)
  BY <1>2 DEF ToTheHost, IsGetBlock, BlockAsked
<1>4. report = "none"
  BY <1>3 DEF SafeInv, HostInv
<1> QED
  BY <1>1, <1>2, <1>3, <1>4 DEF SafeInv, HostInv, TypeInv

\* The answers of the host that end a load leave an empty line and tell the truth:
\* success only when the partition holds the image.
LEMMA LoadEndSafe ==
  ASSUME SafeInv, HostTakes, IsGetBlock, NEW action \in {"HOST_END_DOWNLOAD", "HOST_ERROR_DOWNLOAD"},
         LoopBody(action), report' = LoadReport(action), UNCHANGED toEp,
         action = "HOST_END_DOWNLOAD" => hostRx.arg = EndOfDownload
  PROVE  HostInv' /\ LineInv'
<1>1. /\ HostStep /\ cmd = "load" /\ cmd \in Running /\ BlockAsked(hostRx)
      /\ toEp = <<>> /\ toHost' = <<>> /\ report = "none"
  BY BlockRequested DEF Running
<1>2. LoopEnds(action)
  BY <1>1 DEF LoopEnds, LoadEnds
<1>3. cmd' = "prompt" /\ slot' \notin Requests
  BY <1>1, <1>2, LoopBodyType
<1>4. ReportTold
  BY <1>1, <1>3 DEF ReportTold, LoadReport, BlockAsked
<1>5. HostInv'
  BY <1>1, <1>3, <1>4, HostStepSafe
<1>6. LineInv'
  BY <1>1 DEF LineInv, Quiet
<1> QED
  BY <1>5, <1>6

\* The block that is served is the part of the image that follows what the device
\* has written.
LEMMA ServeSafe ==
  ASSUME SafeInv, TypeInv', HostServeBlock
  PROVE  HostInv' /\ LineInv'
<1>1. /\ HostTakes /\ LoopBody("WAIT_FOR_NEXT_BLOCK") /\ IsGetBlock /\ ~NothingLeft
      /\ hostRx.arg \notin {EndOfDownload, InvalidWrite} /\ hop.bs # 0 /\ report' = report
  BY DEF HostServeBlock, HostFrame, AsksBlock
<1>2. /\ HostStep /\ cmd = "load" /\ cmd \in Running /\ BlockAsked(hostRx)
      /\ toEp = <<>> /\ toHost' = <<>> /\ report = "none"
      /\ hop.img = "file" /\ hop.bs = BlockSize /\ hop.size = Len(file)
  BY <1>1, BlockRequested DEF Running
<1>3. cmd' = cmd /\ slot' \notin Requests
  <2>1. ~LoopEnds("WAIT_FOR_NEXT_BLOCK")
    BY <1>2 DEF LoopEnds, LoadEnds
  <2> QED
    BY <1>1, <1>2, <2>1, LoopBodyType
<1>4. PICK d \in BlockData : toEp' = Append(toEp, BlockRes(BlockNumber(hop), d))
  BY DEF HostServeBlock
<1>5. /\ d \in Seq(Byte) /\ BlockLength \in Nat /\ Len(d) = BlockLength
      /\ hop.offset + BlockLength <= hop.size
  BY <1>1, <1>2, BlockDataType DEF SafeInv, TypeInv
<1>6. d = SubSeq(file, hop.offset + 1, hop.offset + BlockLength)
  BY <1>2 DEF BlockData
<1>7. /\ hop'.img = "file" /\ hop'.bs = BlockSize /\ hop'.size = hop.size
      /\ hop'.offset = hop.offset + BlockLength
  <2>1. hop \in [img : {"null", "file", "stale"}, size : Nat, offset : Nat, bs : {0, BlockSize}]
    BY DEF SafeInv, TypeInv, TypeOK
  <2>2. hop' = [hop EXCEPT !.offset = hop.offset + BlockLength]
    BY DEF HostServeBlock
  <2> QED
    BY <1>2, <2>1, <2>2
<1>8. HostInv'
  <2>1. hop'.offset <= hop'.size
    BY <1>5, <1>7
  <2> QED
    BY <1>1, <1>2, <1>3, <1>7, <2>1, HostStepSafe DEF ReportTold
<1>9. PICK m : m = BlockRes(BlockNumber(hop), d)
  OBVIOUS
<1>10. toEp' = <<m>> /\ ~m.rq /\ m.cmd = "get_block" /\ m.data = d
  BY <1>2, <1>4, <1>9 DEF BlockRes
<1>11. m \in Message
  <2>1. toEp' \in Seq(Message)
    BY DEF TypeInv, TypeOK
  <2> QED
    BY <1>10, <2>1
<1>12. idx' = idx /\ file' = file /\ eop' = eop /\ flash' = flash
  BY <1>2 DEF HostStep, imageVars, epVars
<1>13. BlockSent(m)'
  <2>1. cmd' = "load" /\ InStep'
    BY <1>2, <1>3, <1>12 DEF BlockAsked, InStep
  <2>2. ASSUME eop.handle # NULL
        PROVE  /\ hop'.offset = eop.offset + Len(d)
               /\ d = SubSeq(file, eop.offset + 1, hop'.offset)
    <3>1. hop.offset = eop.offset
      BY <1>1, <1>2, <2>2 DEF BlockAsked
    <3> QED
      BY <1>5, <1>6, <1>7, <3>1
  <2> QED
    BY <1>10, <1>12, <2>1, <2>2 DEF BlockSent
<1>14. LineInv'
  BY <1>2, <1>3, <1>10, <1>11, <1>13 DEF LineInv, ToDevice
<1> QED
  BY <1>8, <1>14
\* A response moves a command on to its next request, ends it on an empty line, or
\* (a download response) leaves the request of the first block on the line.
LEMMA ResponseSafe ==
  ASSUME SafeInv, HostResponse
  PROVE  HostInv' /\ LineInv'
<1>1. /\ HostStep /\ LoopBody(ResponseAction) /\ ~hostRx.rq /\ toHost # <<>>
      /\ toHost' = Tail(toHost) /\ toEp' = toEp \o Sent(ResponseAction)
      /\ report' = ResponseReport /\ hop' = hop
  BY DEF HostResponse, HostFrame, HostTakes
<1>2. cmd \in Running /\ report = "none"
  BY <1>1 DEF HostStep, SafeInv, HostInv, Running
<1>3. /\ cmd' = cmd \/ cmd' = "prompt"
      /\ slot' \notin Requests
      /\ cmd' = cmd <=> ~LoopEnds(ResponseAction)
  BY <1>1, <1>2, LoopBodyType
<1>4. idx' = idx /\ file' = file /\ eop' = eop /\ flash' = flash
  BY <1>1 DEF HostStep, imageVars, epVars
<1>5. toEp = <<>> /\ hostRx \in Message
  BY <1>1, HostFrames
<1>6. cmd = "load" => hop.img = "file" /\ hop.bs = BlockSize /\ hop.offset <= hop.size
  BY DEF SafeInv, HostInv
<1>7. ASSUME ReportTold PROVE HostInv'
  BY <1>1, <1>3, <1>6, <1>7, HostStepSafe
<1>8. ASSUME ResponseAction \notin Requests PROVE toEp' = <<>>
  BY <1>1, <1>5, <1>8 DEF Sent
<1>9. CASE Tail(toHost) = <<>> /\ ToTheHost(hostRx)
  <2>1. CASE cmd = "ident" /\ hostRx.cmd \in IdentQueries /\ hostRx.cmd # "get_storage_info"
    <3>1. /\ ResponseAction \in {"IDENT_CAPABILITIES", "IDENT_STORAGE_INFO"}
          /\ ResponseReport = report
      BY <2>1 DEF ResponseAction, ResponseReport, IdentQueries
    <3>2. ~LoopEnds(ResponseAction)
      BY <2>1, <3>1 DEF LoopEnds
    <3>3. HostInv'
      BY <1>1, <1>2, <1>7, <3>1 DEF ReportTold
    <3>4. PICK m \in Message : m = RequestFrame[ResponseAction] /\ m.rq /\ m.cmd \in IdentQueries
      BY <3>1, FrameType DEF RequestFrame, Req, Command, IdentQueries
    <3>5. toEp' = <<m>>
      BY <1>1, <1>5, <3>1, <3>4 DEF Sent, Requests
    <3>6. ToDevice(m)'
      BY <1>3, <2>1, <3>2, <3>4 DEF ToDevice
    <3> QED
      BY <1>1, <1>3, <1>9, <3>3, <3>4, <3>5, <3>6 DEF LineInv
  <2>2. CASE ResponseAction = "NO_ACTION" /\ ReportTold
    BY <1>1, <1>7, <1>8, <1>9, <2>2 DEF LineInv, Quiet, Requests
  <2>3. CASE \/ cmd = "ident" /\ hostRx.cmd = "get_storage_info"
             \/ cmd = "info" /\ hostRx.cmd = "get_img_info"
    <3>1. ResponseAction = "NO_ACTION" /\ ResponseReport = report
      BY <2>3 DEF ResponseAction, ResponseReport
    <3> QED
      BY <1>1, <1>2, <2>2, <3>1 DEF ReportTold
  <2>4. CASE cmd = "boot" /\ hostRx.cmd = "boot_img" /\ (hostRx.res = "success" => bootSel = idx)
    <3>1. ResponseAction = "NO_ACTION"
      BY <2>4 DEF ResponseAction
    <3>2. cmd' = "prompt"
      BY <1>2, <1>3, <3>1 DEF LoopEnds, LoadEnds
    <3>3. ReportTold
      BY <1>1, <2>4, <3>2 DEF ReportTold, ResponseReport
    <3> QED
      BY <2>2, <3>1, <3>3
  <2>5. ~BlockAsked(hostRx)
    BY <1>1 DEF BlockAsked
  <2>6. CASE cmd = "ident" /\ hostRx.cmd \in IdentQueries
    BY <2>1, <2>3, <2>6
  <2> QED
    BY <1>9, <2>3, <2>4, <2>5, <2>6 DEF ToTheHost
<1>10. CASE \E m \in Message, r \in CompCode :
              hostRx = Res("download", r) /\ Tail(toHost) = <<m>> /\ BlockAsked(m)
  <2>1. PICK m \in Message, r \in CompCode :
               hostRx = Res("download", r) /\ Tail(toHost) = <<m>> /\ BlockAsked(m)
    BY <1>10
  <2>2. hostRx.cmd = "download" /\ cmd = "load"
    BY <2>1 DEF Res, BlockAsked
  <2>3. ResponseAction \in {"WAIT_FOR_NEXT_BLOCK", "NO_RESPONSE"} /\ ResponseReport = report
    BY <2>2 DEF ResponseAction, ResponseReport
  <2>4. ~LoopEnds(ResponseAction)
    BY <2>2, <2>3 DEF LoopEnds, LoadEnds
  <2>5. HostInv'
    BY <1>1, <1>2, <1>7, <2>3 DEF ReportTold
  <2>6. toEp' = <<>> /\ toHost' = <<m>>
    BY <1>1, <1>8, <2>1, <2>3 DEF Requests
  <2>7. BlockAsked(m)'
    BY <1>1, <1>3, <1>4, <2>1, <2>4 DEF BlockAsked, InStep
  <2> QED
    BY <1>3, <2>5, <2>6, <2>7 DEF LineInv, ToTheHost
<1> QED
  BY <1>1, <1>9, <1>10, HostFrames

\* Every iteration of a command loop preserves the invariant; the division by
\* block_size never traps, because a block is only asked for during a load.
LEMMA HostSafe ==
  ASSUME SafeInv, TypeInv', HostPolls
  PROVE  HostInv' /\ LineInv'
<1>1. CASE HostRequest
  BY <1>1, RequestSafe
<1>2. CASE HostEndOfDownload
  BY <1>2, LoadEndSafe DEF HostEndOfDownload, HostFrame
<1>3. CASE HostInvalidWrite
  BY <1>3, LoadEndSafe DEF HostInvalidWrite, HostFrame
<1>4. CASE HostDivideByZero
  BY <1>4, BlockRequested, SizeAssumption DEF HostDivideByZero, AsksBlock
<1>5. CASE HostWrongBlock
  BY <1>5, LoadEndSafe DEF HostWrongBlock, HostFrame, AsksBlock
<1>6. CASE HostNothingLeft
  BY <1>6, LoadEndSafe DEF HostNothingLeft, HostFrame, AsksBlock
<1>7. CASE HostServeBlock
  BY <1>7, ServeSafe
<1>8. CASE HostResponse
  BY <1>8, ResponseSafe
<1> QED
  BY <1>1, <1>2, <1>3, <1>4, <1>5, <1>6, <1>7, <1>8 DEF HostPolls, HostReceives
\* The device answers on an empty line: its one or two frames are the line.
LEMMA DeviceTurn ==
  ASSUME SafeInv, EpFrame
  PROVE  /\ toEp' = <<>> /\ toHost = <<>> /\ ToDevice(epRx) /\ epRx \in Message
         /\ slot' = slot /\ slot \notin Requests /\ cmd' = cmd /\ cmd \in Running
         /\ report' = report /\ report = "none"
         /\ idx' = idx /\ file' = file /\ hop' = hop
<1>1. toEp # <<>> /\ toEp' = Tail(toEp) /\ UNCHANGED <<hostVars, imageVars>>
  BY DEF EpFrame
<1>2. cmd \in Running => report = "none"
  BY DEF SafeInv, HostInv, Running
<1> QED
  BY <1>1, <1>2, DeviceFrame DEF hostVars, imageVars

\* Nothing the device does while a command runs concerns the host's own state.
LEMMA DeviceHostInv ==
  ASSUME SafeInv, EpFrame
  PROVE  HostInv'
BY DeviceTurn DEF SafeInv, HostInv, Running

\* A message on the line to the host, alone or behind a download response, is
\* accounted for.
LEMMA AnswerSafe ==
  ASSUME SafeInv, EpFrame, NEW m \in Message, toHost' = Append(toHost, m), ToTheHost(m)'
  PROVE  HostInv' /\ LineInv'
<1>1. toHost' = <<m>>
  BY DeviceTurn
<1> QED
  BY <1>1, DeviceTurn, DeviceHostInv DEF LineInv

\* A block request of the device, with the partition it leaves behind.
LEMMA RequestBlockSafe ==
  ASSUME SafeInv, EpFrame, NEW n \in Int, toHost' = Append(toHost, Req("get_block", n, 0)),
         cmd = "load", InStep',
         n = EndOfDownload => idx \in Parts /\ flash'[idx] = file,
         n \notin {EndOfDownload, InvalidWrite} /\ eop'.handle # NULL => hop.offset = eop'.offset
  PROVE  HostInv' /\ LineInv'
<1>1. PICK m : m = Req("get_block", n, 0)
  OBVIOUS
<1>2. m \in Message /\ m.rq /\ m.cmd = "get_block" /\ m.arg = n
  BY <1>1, FrameType DEF Req, Command
<1>3. ToTheHost(m)'
  BY <1>2, DeviceTurn DEF ToTheHost, BlockAsked
<1> QED
  BY <1>1, <1>2, <1>3, AnswerSafe

\* A download request opens the partition the operator named, or none.
LEMMA StartDownloadSafe ==
  ASSUME SafeInv, EpFrame, epRx.rq, epRx.cmd = "download",
         NEW code \in CompCode, NEW h \in {epRx.arg, NULL}, StartDownload(code, h),
         h # NULL => h \in Parts /\ flash'[h] = <<>>
  PROVE  HostInv' /\ LineInv'
<1>1. /\ cmd = "load" /\ epRx.arg = idx /\ epRx.size = Len(file) /\ hop.offset = 0
  BY DeviceTurn DEF ToDevice, BlockSent, IdentQueries
<1>2. /\ eop' = Prepared(h) /\ eop'.handle = h /\ eop'.size = Len(file) /\ eop'.offset = 0
      /\ Prepared(h).offset = 0 /\ Prepared(h).bs = BlockSize
  BY <1>1 DEF StartDownload, Prepared
<1>3. BlockNumber(Prepared(h)) = 0
  BY <1>2, BlockNumberType
<1>4. PICK m : m = Req("get_block", 0, 0)
  OBVIOUS
<1>5. m \in Message /\ m.rq /\ m.cmd = "get_block" /\ m.arg = 0
  BY <1>4, FrameType DEF Req, Command
<1>6. file \in Seq(Byte) /\ Len(file) \in Nat
  BY FieldTypes DEF SafeInv, TypeInv
<1>7. InStep'
  <2>1. ASSUME eop'.handle # NULL
        PROVE  /\ eop'.handle = idx /\ eop'.offset <= Len(file)
               /\ flash'[idx] = Prefix(file, eop'.offset)
    BY <1>1, <1>2, <1>6, <2>1, PrefixBounds
  <2> QED
    BY <1>2, <2>1, DeviceTurn DEF InStep
<1>8. 0 \notin {EndOfDownload, InvalidWrite}
  BY DEF EndOfDownload, InvalidWrite
<1>9. BlockAsked(m)'
  BY <1>1, <1>2, <1>5, <1>7, <1>8, DeviceTurn DEF BlockAsked
<1>10. toHost' = <<Res("download", code), m>>
  BY <1>3, <1>4, DeviceTurn DEF StartDownload
<1> QED
  BY <1>5, <1>9, <1>10, DeviceTurn, DeviceHostInv DEF LineInv
\* A block the device takes: what it carries follows what was written.
LEMMA BlockTaken ==
  ASSUME SafeInv, EpFrame, IsBlock
  PROVE  /\ cmd = "load" /\ InStep
         /\ eop.handle # NULL =>
              /\ hop.offset = eop.offset + Len(epRx.data)
              /\ epRx.data = SubSeq(file, eop.offset + 1, hop.offset)
         /\ file \in Seq(Byte) /\ Len(file) \in Nat /\ hop.offset \in Nat
         /\ hop.offset <= Len(file)
         /\ eop.offset \in Nat /\ eop.handle \in Parts \cup {NULL}
         /\ epRx.data \in Seq(Byte) /\ Len(epRx.data) \in Nat
<1>1. BlockSent(epRx)
  BY DeviceTurn DEF ToDevice, IsBlock
<1>2. file \in Seq(Byte) /\ Len(file) \in Nat /\ hop.offset \in Nat
  BY FieldTypes DEF SafeInv, TypeInv
<1>3. eop.offset \in Nat /\ eop.handle \in Parts \cup {NULL}
  BY FieldTypes DEF SafeInv, TypeInv
<1>4. hop.offset <= Len(file)
  BY <1>1 DEF BlockSent, SafeInv, TypeInv, HostInv
<1>5. epRx.data \in Seq(Byte)
  BY DeviceTurn DEF Message
<1>6. Len(epRx.data) \in Nat
  BY <1>5
<1> QED
  BY <1>1, <1>2, <1>3, <1>4, <1>5, <1>6 DEF BlockSent

\* A written block extends the prefix; the end is signalled when it is the image.
LEMMA WriteSafe ==
  ASSUME SafeInv, EpWriteBlock
  PROVE  HostInv' /\ LineInv'
<1>1. /\ EpFrame /\ IsBlock /\ eop.handle # NULL
      /\ flash' = [flash EXCEPT ![eop.handle] = flash[eop.handle] \o epRx.data]
      /\ eop' = Written /\ toHost' = Append(toHost, NextRequest(Written))
  BY DEF EpWriteBlock, CanWrite
<1>2. /\ cmd = "load" /\ eop.handle = idx /\ idx \in Parts
      /\ eop.size = Len(file) /\ eop.offset <= Len(file)
      /\ flash[idx] = Prefix(file, eop.offset)
      /\ hop.offset = eop.offset + Len(epRx.data)
      /\ epRx.data = SubSeq(file, eop.offset + 1, hop.offset)
      /\ file \in Seq(Byte) /\ Len(file) \in Nat /\ hop.offset \in Nat
      /\ hop.offset <= Len(file) /\ eop.offset \in Nat /\ Len(epRx.data) \in Nat
  BY <1>1, BlockTaken DEF InStep
<1>3. eop.offset <= hop.offset
  BY <1>2, SMTT(30)
<1>4. flash[idx] \o epRx.data = Prefix(file, hop.offset)
  BY <1>2, <1>3, PrefixGrows, ZenonT(40)
<1>5. flash \in [Parts -> Seq(Byte)] /\ eop.bs = BlockSize
  BY <1>1 DEF SafeInv, TypeInv, TypeOK
<1>6. flash'[idx] = Prefix(file, hop.offset)
  BY <1>1, <1>2, <1>4, <1>5
<1>7. /\ Written.handle = idx /\ Written.size = Len(file) /\ Written.bs = BlockSize
      /\ Written.offset = hop.offset
  <2>1. eop \in [handle : Parts \cup {NULL}, size : Nat, offset : Nat, bs : {0, BlockSize}]
    BY DEF SafeInv, TypeInv, TypeOK
  <2>2. Written = [eop EXCEPT !.offset = eop.offset + Len(epRx.data)]
    BY DEF Written
  <2> QED
    BY <1>2, <1>5, <2>1, <2>2
<1>8. /\ BlockNumber(Written) \in Nat
      /\ BlockNumber(Written) \notin {EndOfDownload, InvalidWrite}
  BY <1>2, <1>7, BlockNumberType
<1>9. PICK n : n = IF Written.offset = Written.size THEN EndOfDownload ELSE BlockNumber(Written)
  OBVIOUS
<1>10. n \in Int
  <2>1. EndOfDownload \in Int /\ BlockNumber(Written) \in Int
    BY <1>8 DEF EndOfDownload
  <2> QED
    BY <1>9, <2>1
<1>11. toHost' = Append(toHost, Req("get_block", n, 0))
  BY <1>1, <1>9 DEF NextRequest
<1>12. InStep'
  BY <1>1, <1>2, <1>6, <1>7, DeviceTurn DEF InStep
<1>13. n = EndOfDownload => idx \in Parts /\ flash'[idx] = file
  <2>1. ASSUME n = EndOfDownload PROVE hop.offset = Len(file)
    BY <1>7, <1>8, <1>9, <2>1
  <2> QED
    BY <1>2, <1>6, <2>1, PrefixBounds
<1> QED
  BY <1>1, <1>2, <1>7, <1>10, <1>11, <1>12, <1>13, RequestBlockSafe

\* Every call of ezm_pp_main() on the device preserves the invariant, provided a
\* partition open that fails leaves no handle.
LEMMA DeviceSafe ==
  ASSUME SettledLine, SafeInv, EpReceives
  PROVE  HostInv' /\ LineInv'
<1>1. CASE EpQuery
  <2>1. EpFrame /\ epRx.rq /\ epRx.cmd \in Queries /\ UNCHANGED epVars
    BY <1>1 DEF EpQuery
  <2>2. PICK m : m = Res(epRx.cmd, "success")
    OBVIOUS
  <2>3. m \in Message /\ ~m.rq /\ m.cmd = epRx.cmd
    BY <2>1, <2>2, FrameType DEF Queries, Command, CompCode, Res
  <2>4. ToTheHost(m)'
    BY <2>1, <2>3, DeviceTurn DEF ToDevice, ToTheHost, BlockSent, Queries, IdentQueries
  <2> QED
    BY <1>1, <2>1, <2>2, <2>3, <2>4, AnswerSafe DEF EpQuery
<1>2. CASE EpDownload
  <2>1. flash'[epRx.arg] = <<>> /\ epRx.arg \in Parts
    BY <1>2 DEF EpDownload, Opens, Erased, SafeInv, TypeInv, TypeOK
  <2> QED
    BY <1>2, <2>1, StartDownloadSafe DEF EpDownload, CompCode
<1>3. CASE EpRefuse
  <2>1. StartDownload("invalid_data", NULL)
    BY <1>3 DEF EpRefuse, SettledLine
  <2> QED
    BY <1>3, <2>1, StartDownloadSafe DEF EpRefuse, CompCode
<1>4. CASE EpWriteBlock
  BY <1>4, WriteSafe
<1>5. CASE EpInvalidWrite
  <2>1. EpFrame /\ IsBlock /\ UNCHANGED epVars
    BY <1>5 DEF EpInvalidWrite
  <2>2. cmd = "load" /\ InStep'
    BY <2>1, BlockTaken, DeviceTurn DEF InStep, epVars
  <2>3. InvalidWrite \in Int /\ InvalidWrite # EndOfDownload
    BY DEF InvalidWrite, EndOfDownload
  <2> QED
    BY <1>5, <2>1, <2>2, <2>3, RequestBlockSafe DEF EpInvalidWrite
<1>6. CASE EpDivideByZero
  BY <1>6, DeviceTurn, DeviceHostInv DEF EpDivideByZero, LineInv, Quiet
<1>7. ASSUME EpFrame, epRx.rq, epRx.cmd = "boot_img", NEW code \in CompCode,
             toHost' = Append(toHost, Res("boot_img", code)),
             code = "success" => bootSel' = epRx.arg
      PROVE  HostInv' /\ LineInv'
  <2>1. PICK m : m = Res("boot_img", code)
    OBVIOUS
  <2>2. m \in Message /\ ~m.rq /\ m.cmd = "boot_img" /\ m.res = code
    BY <2>1, FrameType DEF Command, Res
  <2>3. cmd = "boot" /\ epRx.arg = idx
    BY <1>7, DeviceTurn DEF ToDevice, BlockSent, IdentQueries
  <2>4. ToTheHost(m)'
    BY <1>7, <2>2, <2>3, DeviceTurn DEF ToTheHost
  <2> QED
    BY <1>7, <2>1, <2>2, <2>4, AnswerSafe
<1>8. CASE EpBoot
  BY <1>7, <1>8 DEF EpBoot, CompCode
<1>9. CASE EpBootFails
  BY <1>7, <1>9 DEF EpBootFails, CompCode
<1>10. CASE EpBootRefused
  BY <1>7, <1>10 DEF EpBootRefused, CompCode
<1> QED
  BY <1>1, <1>2, <1>3, <1>4, <1>5, <1>6, <1>8, <1>9, <1>10 DEF EpReceives
\* A frame lost on its way to the device leaves an empty line.
LEMMA FrameToDeviceLost ==
  ASSUME SafeInv, toEp # <<>>, toEp' = Tail(toEp),
         UNCHANGED <<hostVars, imageVars, epVars, toHost>>
  PROVE  HostInv' /\ LineInv'
BY DeviceFrame DEF SafeInv, HostInv, LineInv, Quiet, hostVars, imageVars, epVars

\* A reset of the device closes its handle: nothing is claimed of its partition.
LEMMA ResetSafe ==
  ASSUME SafeInv, EpReset
  PROVE  HostInv' /\ LineInv'
<1>1. /\ cmd' = cmd /\ slot' = slot /\ idx' = idx /\ report' = report /\ hop' = hop
      /\ file' = file /\ bootSel' = bootSel /\ flash' = flash
      /\ toEp' = toEp /\ toHost' = toHost /\ eop'.handle = NULL
  BY NoDownloadType DEF EpReset, hostVars, imageVars
<1>2. HostInv'
  BY <1>1 DEF SafeInv, HostInv
<1>3. ASSUME NEW m, ToDevice(m) PROVE ToDevice(m)'
  BY <1>1, <1>3 DEF ToDevice, BlockSent, InStep
<1>4. ASSUME NEW m, BlockAsked(m) PROVE BlockAsked(m)'
  BY <1>1, <1>4 DEF BlockAsked, InStep
<1>5. ASSUME NEW m, ToTheHost(m) PROVE ToTheHost(m)'
  BY <1>1, <1>4, <1>5 DEF ToTheHost
<1>6. LineInv'
  BY <1>1, <1>3, <1>4, <1>5 DEF SafeInv, LineInv, Quiet
<1> QED
  BY <1>2, <1>6

\* A frame lost on its way to the host leaves an empty line, or the request that
\* followed a download response.
LEMMA FrameToHostLost ==
  ASSUME SafeInv, LoseToHost
  PROVE  HostInv' /\ LineInv'
<1>1. /\ cmd' = cmd /\ slot' = slot /\ idx' = idx /\ report' = report /\ hop' = hop
      /\ file' = file /\ bootSel' = bootSel /\ flash' = flash /\ eop' = eop
      /\ toEp' = toEp /\ toHost' = Tail(toHost) /\ toHost # <<>>
  BY DEF LoseToHost, hostVars, imageVars, epVars
<1>2. HostInv'
  BY <1>1 DEF SafeInv, HostInv
<1>3. CASE Tail(toHost) = <<>>
  BY <1>1, <1>2, <1>3, HostFrames DEF LineInv, Quiet
<1>4. CASE \E m \in Message : Tail(toHost) = <<m>> /\ BlockAsked(m)
  <2>1. PICK m \in Message : Tail(toHost) = <<m>> /\ BlockAsked(m)
    BY <1>4
  <2>2. BlockAsked(m)'
    BY <1>1, <2>1 DEF BlockAsked, InStep
  <2> QED
    BY <1>1, <1>2, <2>1, <2>2, HostFrames DEF LineInv, ToTheHost
<1> QED
  BY <1>1, <1>3, <1>4, HostFrames

\* No fault breaks the invariant, provided the host is restarted on a settled line.
LEMMA EnvironmentSafe ==
  ASSUME SettledLine, SafeInv, Environment
  PROVE  HostInv' /\ LineInv'
<1>1. CASE EpIgnores \/ LoseToEp
  BY <1>1, FrameToDeviceLost DEF EpIgnores, LoseToEp
<1>2. CASE EpReset
  BY <1>2, ResetSafe
<1>3. CASE LoseToHost
  BY <1>3, FrameToHostLost
<1>4. CASE HostRestart
  <2>1. toEp' = <<>> /\ toHost' = <<>>
    <3>1. Len(toEp) <= 0 /\ toEp' = toEp /\ toHost' = <<>>
      BY <1>4 DEF HostRestart, SettledLine
    <3>2. toEp # <<>> => Len(toEp) = 1
      BY DeviceFrame
    <3> QED
      BY <3>1, <3>2
  <2>2. cmd' = "prompt" /\ slot' = "NO_ACTION" /\ report' = "none"
    BY <1>4 DEF HostRestart
  <2> QED
    BY <2>1, <2>2 DEF HostInv, LineInv, Quiet, Requests
<1> QED
  BY <1>1, <1>2, <1>3, <1>4 DEF Environment

\* A step that changes nothing.
LEMMA StutterSafe ==
  ASSUME SafeInv, UNCHANGED vars
  PROVE  HostInv' /\ LineInv'
<1>1. /\ cmd' = cmd /\ slot' = slot /\ idx' = idx /\ report' = report /\ hop' = hop
      /\ file' = file /\ bootSel' = bootSel /\ flash' = flash /\ eop' = eop
      /\ toEp' = toEp /\ toHost' = toHost
  BY DEF vars, hostVars, imageVars, epVars
<1> QED
  BY <1>1 DEF SafeInv, HostInv, LineInv, Quiet, ToDevice, ToTheHost, BlockSent, BlockAsked, InStep

\* SafeInv is inductive.
LEMMA SafeNext ==
  ASSUME SettledLine, SafeInv, [Next]_vars
  PROVE  SafeInv'
<1>1. TypeInv'
  BY TypeNext DEF SafeInv
<1>2. HostInv' /\ LineInv'
  BY <1>1, OperatorSafe, HostSafe, DeviceSafe, EnvironmentSafe, StutterSafe DEF Next
<1> QED
  BY <1>1, <1>2 DEF SafeInv

\* The programs start with an empty line and no download.
LEMMA SafeInit == Init => SafeInv
BY TypeInit DEF Init, SafeInv, HostInv, LineInv, Quiet, Requests

\* The invariant holds in every reachable state.
LEMMA Safe ==
  ASSUME SettledLine
  PROVE  Spec => []SafeInv
<1>1. SafeInv /\ [Next]_vars => SafeInv'
  BY SafeNext
<1> QED
  BY <1>1, SafeInit, PTL DEF Spec

----------------------------------------------------------------------------
(* The numbers of blocks *)

\* The host reads the image block by block.
Aligned ==
  hop.img = "file" => hop.offset = hop.size \/ \E k \in Nat : hop.offset = k * BlockSize

BlocksInv == Aligned /\ BlocksCarryImage

\* Rounding up the offset of a block gives its number.
LEMMA NumberOfBlock ==
  ASSUME NEW k \in Nat, NEW op, op.offset = k * BlockSize, op.bs = BlockSize
  PROVE  BlockNumber(op) = k
<1>1. BlockSize \in Nat \ {0}
  BY SizeAssumption
<1>2. (k * BlockSize + BlockSize - 1) \div BlockSize = k
  BY <1>1
<1> QED
  BY <1>2 DEF BlockNumber

\* A block that is served has the number of its bytes in the image.
LEMMA ServedBlock ==
  ASSUME SafeInv, SafeInv', Aligned, HostServeBlock
  PROVE  Aligned' /\ BlocksCarryImage'
<1>1. /\ HostTakes /\ IsGetBlock /\ ~NothingLeft
      /\ hop' = [hop EXCEPT !.offset = hop.offset + BlockLength]
  BY DEF HostServeBlock, HostFrame, AsksBlock
<1>2. /\ hop.img = "file" /\ hop.bs = BlockSize /\ hop.size = Len(file) /\ toEp = <<>>
      /\ file' = file
  BY <1>1, BlockRequested DEF HostStep, imageVars
<1>3. /\ BlockSize \in Nat \ {0} /\ Len(file) \in Nat /\ hop.offset \in Nat
      /\ hop.offset < Len(file)
  BY <1>1, <1>2, SizeAssumption, FieldTypes DEF SafeInv, TypeInv, NothingLeft
<1>4. PICK k \in Nat : hop.offset = k * BlockSize
  BY <1>2, <1>3 DEF Aligned
<1>5. BlockNumber(hop) = k
  BY <1>2, <1>4, NumberOfBlock
<1>6. (k + 1) * BlockSize = hop.offset + BlockSize
  BY <1>3, <1>4
<1>7. /\ hop.offset + BlockLength = Smaller((k + 1) * BlockSize, Len(file))
      /\ hop.offset + BlockLength \in {(k + 1) * BlockSize, Len(file)}
  BY <1>2, <1>3, <1>6 DEF BlockLength, Smaller
<1>8. Aligned'
  <2>1. hop \in [img : {"null", "file", "stale"}, size : Nat, offset : Nat, bs : {0, BlockSize}]
    BY DEF SafeInv, TypeInv, TypeOK
  <2>2. hop'.size = Len(file) /\ hop'.offset = hop.offset + BlockLength
    BY <1>1, <1>2, <2>1
  <2>3. k + 1 \in Nat
    OBVIOUS
  <2> QED
    BY <1>7, <2>2, <2>3 DEF Aligned
<1>9. PICK d \in BlockData : toEp' = Append(toEp, BlockRes(BlockNumber(hop), d))
  BY DEF HostServeBlock
<1>10. d = SubSeq(file, k * BlockSize + 1, Smaller((k + 1) * BlockSize, Len(file)))
  BY <1>2, <1>4, <1>7, <1>9 DEF BlockData
<1>11. PICK m : m = BlockRes(k, d)
  OBVIOUS
<1>12. m.arg = k /\ m.data = d
  BY <1>11 DEF BlockRes
<1>13. toEp' = <<m>>
  BY <1>2, <1>5, <1>9, <1>11
<1>14. \A j \in DOMAIN toEp' : toEp'[j] = m
  BY <1>13
<1>15. BlocksCarryImage'
  BY <1>2, <1>10, <1>12, <1>14 DEF BlocksCarryImage
<1> QED
  BY <1>8, <1>15

\* Any other step sends no block, and changes the image only on an empty line.
LEMMA BlocksNext ==
  ASSUME SettledLine, SafeInv, SafeInv', BlocksInv, [Next]_vars
  PROVE  BlocksInv'
<1> USE DEF BlocksInv
<1>1. ASSUME toEp' = <<>> PROVE BlocksCarryImage'
  BY <1>1 DEF BlocksCarryImage
<1>2. ASSUME UNCHANGED <<toEp, file>> PROVE BlocksCarryImage'
  BY <1>2 DEF BlocksCarryImage
<1>3. ASSUME NEW r \in Requests, toEp = <<>>, toEp' = toEp \o Sent(r) PROVE BlocksCarryImage'
  <2>1. toEp' = <<RequestFrame[r]>>
    BY <1>3 DEF Sent
  <2>2. RequestFrame[r].cmd # "get_block"
    BY DEF RequestFrame, Req, Requests
  <2>3. \A j \in DOMAIN toEp' : toEp'[j] = RequestFrame[r]
    BY <2>1
  <2> QED
    BY <2>2, <2>3 DEF BlocksCarryImage
<1>4. ASSUME UNCHANGED hop PROVE Aligned'
  BY <1>4 DEF Aligned
<1>5. ASSUME hop'.img # "file" PROVE Aligned'
  BY <1>5 DEF Aligned
<1>6. CASE Operator
  <2>1. cmd = "prompt" /\ toEp' = toEp
    BY <1>6 DEF Operator, Ident, Info, Load, Boot, Issue, UploadOk, UploadNotOpened,
                UploadNotRead, UploadLeaves
  <2>2. toEp' = <<>>
    BY <2>1, QuietLine DEF Running
  <2>3. ASSUME NEW i \in ImgIndex, Load(i) PROVE Aligned'
    <3>1. hop'.offset = 0 /\ 0 \in Nat
      BY <2>3 DEF Load
    <3>2. 0 * BlockSize = 0
      BY SizeAssumption
    <3> QED
      BY <3>1, <3>2 DEF Aligned
  <2>4. Detached(hop).img # "file"
    <3>1. hop \in [img : {"null", "file", "stale"}, size : Nat, offset : Nat, bs : {0, BlockSize}]
      BY DEF SafeInv, TypeInv, TypeOK
    <3> QED
      BY <3>1 DEF Detached
  <2>5. (\E i \in ImgIndex : Load(i)) \/ UNCHANGED hop \/ hop' = Detached(hop)
    BY <1>6 DEF Operator, Ident, Info, Boot, UploadOk, UploadNotOpened, UploadNotRead
  <2> QED
    BY <1>1, <1>4, <1>5, <2>2, <2>3, <2>4, <2>5
<1>7. CASE HostRequest
  BY <1>3, <1>4, <1>7, QuietLine DEF HostRequest
<1>8. CASE HostServeBlock
  BY <1>8, ServedBlock
<1>9. CASE HostResponse
  <2>1. toEp = <<>> /\ toEp' = toEp \o Sent(ResponseAction) /\ UNCHANGED hop
    BY <1>9, HostFrames DEF HostResponse, HostFrame, HostTakes
  <2>2. CASE ResponseAction \in Requests
    BY <1>3, <1>4, <2>1, <2>2
  <2>3. CASE ResponseAction \notin Requests
    BY <1>1, <1>4, <2>1, <2>3 DEF Sent
  <2> QED
    BY <2>2, <2>3
<1>10. CASE \/ HostEndOfDownload \/ HostInvalidWrite \/ HostDivideByZero
            \/ HostWrongBlock \/ HostNothingLeft
  <2>1. UNCHANGED <<toEp, file>> /\ (UNCHANGED hop \/ hop' = NoHostDownload)
    BY <1>10 DEF HostEndOfDownload, HostInvalidWrite, HostDivideByZero, HostWrongBlock,
                 HostNothingLeft, HostFrame, HostTakes, HostStep, imageVars
  <2> QED
    BY <1>2, <1>4, <1>5, <2>1, NoDownloadType
<1>11. CASE EpReceives \/ EpIgnores \/ LoseToEp
  <2>1. toEp # <<>> /\ toEp' = Tail(toEp) /\ UNCHANGED hop
    BY <1>11 DEF EpReceives, EpQuery, EpDownload, EpRefuse, EpWriteBlock, EpInvalidWrite,
                 EpDivideByZero, EpBoot, EpBootFails, EpBootRefused, EpFrame, EpIgnores,
                 LoseToEp, hostVars
  <2> QED
    BY <1>1, <1>4, <2>1, DeviceFrame
<1>12. CASE HostRestart
  <2>1. Len(toEp) <= 0 /\ toEp' = toEp /\ hop' = NoHostDownload
    BY <1>12 DEF HostRestart, SettledLine
  <2>2. toEp # <<>> => Len(toEp) = 1
    BY DeviceFrame
  <2> QED
    BY <1>1, <1>5, <2>1, <2>2, NoDownloadType
<1>13. CASE EpReset \/ LoseToHost \/ UNCHANGED vars
  BY <1>2, <1>4, <1>13 DEF EpReset, LoseToHost, vars, hostVars, imageVars
<1> QED
  BY <1>6, <1>7, <1>8, <1>9, <1>10, <1>11, <1>12, <1>13 DEF Next, HostPolls, HostReceives, Environment

----------------------------------------------------------------------------
(* Theorems *)

\* A command is typed, and its first request sent, on a line that carries no frame
\* of an earlier one: ezm_pp_drv_listen never overwrites the request in the mailbox.
THEOREM QuietLine_Correct ==
  ASSUME SettledLine
  PROVE  Spec => []QuietLineAtCommand
<1>1. SafeInv => QuietLineAtCommand
  BY QuietLine DEF QuietLineAtCommand, Running
<1> QED
  BY <1>1, Safe, PTL

\* The host never puts a second frame on the line to the device.
THEOREM OneFrame_Correct ==
  ASSUME SettledLine
  PROVE  Spec => []OneFrameToDevice
<1>1. SafeInv => OneFrameToDevice
  <2>1. ASSUME SafeInv PROVE toEp = <<>> \/ Len(toEp) = 1
    BY <2>1, DeviceFrame
  <2> QED
    BY <2>1 DEF OneFrameToDevice
<1> QED
  BY <1>1, Safe, PTL

\* The division in ezm_pp_ep_drv_get_download_block never traps.
THEOREM HostNeverFaults_Correct ==
  ASSUME SettledLine
  PROVE  Spec => []HostNeverFaults
<1>1. SafeInv => HostNeverFaults
  BY DEF SafeInv, HostInv, HostNeverFaults
<1> QED
  BY <1>1, Safe, PTL

\* A block on its way to the device carries the bytes its number names, of the image
\* that is uploaded now.
THEOREM BlocksCarryImage_Correct ==
  ASSUME SettledLine
  PROVE  Spec => []BlocksCarryImage
<1>1. Init => BlocksInv
  BY DEF Init, BlocksInv, Aligned, BlocksCarryImage, NoHostDownload
<1>2. SafeInv /\ SafeInv' /\ BlocksInv /\ [Next]_vars => BlocksInv'
  BY BlocksNext
<1>3. BlocksInv => BlocksCarryImage
  BY DEF BlocksInv
<1> QED
  BY <1>1, <1>2, <1>3, Safe, PTL DEF Spec

\* During a transfer the open partition is the one the operator named and holds the
\* first ez_img_offset bytes of the image.
THEOREM FlashHoldsPrefix_Correct ==
  ASSUME SettledLine
  PROVE  Spec => []FlashHoldsPrefix
<1>1. SafeInv /\ Transferring => InStep
  <2> SUFFICES ASSUME SafeInv, Transferring PROVE InStep
    OBVIOUS
  <2>1. CASE Quiet
    BY <2>1 DEF Transferring, Quiet
  <2>2. CASE \E m \in Message : toEp = <<m>> /\ toHost = <<>> /\ ToDevice(m)
    BY <2>2 DEF Transferring, ToDevice, BlockSent, IdentQueries
  <2>3. CASE \E m \in Message : toEp = <<>> /\ toHost = <<m>> /\ ToTheHost(m)
    BY <2>3 DEF Transferring, ToTheHost, BlockAsked, IdentQueries
  <2>4. CASE \E m \in Message, r \in CompCode :
               toEp = <<>> /\ toHost = <<Res("download", r), m>> /\ BlockAsked(m)
    BY <2>4 DEF BlockAsked
  <2> QED
    BY <2>1, <2>2, <2>3, <2>4 DEF SafeInv, LineInv
<1>2. SafeInv => FlashHoldsPrefix
  BY <1>1 DEF FlashHoldsPrefix, InStep
<1> QED
  BY <1>2, Safe, PTL

\* "Download succesful!" is printed only when the partition the operator named holds
\* the whole image.
THEOREM ReportedSuccess_Correct ==
  ASSUME SettledLine
  PROVE  Spec => []ReportedSuccessIsFlashed
<1>1. SafeInv => ReportedSuccessIsFlashed
  BY DEF SafeInv, HostInv, ReportedSuccessIsFlashed
<1> QED
  BY <1>1, Safe, PTL

\* A device that booted after it said it would booted what the operator selected.
THEOREM BootsSelected_Correct ==
  ASSUME SettledLine
  PROVE  Spec => []BootsSelected
<1>1. SafeInv => BootsSelected
  BY DEF SafeInv, HostInv, BootsSelected
<1> QED
  BY <1>1, Safe, PTL

\* Only the partition of the running load is ever written or erased.
THEOREM OnlyTargetChanges_Correct ==
  ASSUME SettledLine
  PROVE  Spec => OnlyTargetChanges
<1>1. ASSUME SafeInv, [Next]_vars, NEW p \in Parts, flash'[p] # flash[p]
      PROVE  cmd = "load" /\ p = idx
  <2>1. EpDownload \/ EpWriteBlock
    BY <1>1 DEF Next, Operator, Ident, Info, Load, Boot, Issue, UploadOk, UploadNotOpened,
                UploadNotRead, UploadLeaves, HostPolls, HostRequest, HostReceives,
                HostEndOfDownload, HostInvalidWrite, HostDivideByZero, HostWrongBlock,
                HostNothingLeft, HostServeBlock, HostResponse, HostFrame, HostTakes, HostStep,
                EpReceives, EpQuery, EpRefuse, EpInvalidWrite, EpDivideByZero, EpBoot,
                EpBootFails, EpBootRefused, Environment, EpIgnores, EpReset, LoseToEp,
                LoseToHost, HostRestart, vars, epVars
  <2>2. flash \in [Parts -> Seq(Byte)]
    BY <1>1 DEF SafeInv, TypeInv, TypeOK
  <2>3. CASE EpDownload
    <3>1. p = epRx.arg
      BY <1>1, <2>2, <2>3 DEF EpDownload
    <3>2. cmd = "load" /\ epRx.arg = idx
      BY <1>1, <2>3, DeviceTurn DEF EpDownload, ToDevice, BlockSent, IdentQueries
    <3> QED
      BY <3>1, <3>2
  <2>4. CASE EpWriteBlock
    <3>1. p = eop.handle
      BY <1>1, <2>2, <2>4 DEF EpWriteBlock
    <3>2. cmd = "load" /\ eop.handle = idx
      BY <1>1, <2>4, BlockTaken DEF EpWriteBlock, CanWrite, InStep
    <3> QED
      BY <3>1, <3>2
  <2> QED
    BY <2>1, <2>3, <2>4
<1>2. SafeInv /\ [Next]_vars =>
        [\A p \in Parts : flash'[p] # flash[p] => cmd = "load" /\ p = idx]_vars
  BY <1>1
<1> QED
  BY <1>2, Safe, PTL DEF Spec, OnlyTargetChanges

----------------------------------------------------------------------------
(* The abstract image transfer *)

\* What the operator and the flash see of a step that is none of the transfer.
LEMMA Unseen ==
  ASSUME UNCHANGED <<cmd, report, idx, file, flash>>
  PROVE  UNCHANGED Transfer!tvars
BY DEF Transfer!tvars, TransferJob

\* Before and between loads a command or an upload is a choice.
LEMMA Chosen ==
  ASSUME SafeInv, TypeInv', cmd' # "load", report' \notin {"ok", "error"}, flash' = flash
  PROVE  Transfer!Choose
<1>1. TransferJob' = "idle"
  BY DEF TransferJob
<1>2. idx' \in ImgIndex /\ file' \in Seq(Byte)
  BY DEF TypeInv, TypeOK
<1> QED
  BY <1>1, <1>2 DEF Transfer!Choose

\* The operator begins a transfer or chooses.
LEMMA OperatorStep ==
  ASSUME SafeInv, TypeInv', Operator
  PROVE  Transfer!Next
<1>1. cmd = "prompt" /\ report' = "none" /\ flash' = flash
  BY DEF Operator, Ident, Info, Load, Boot, Issue, UploadOk, UploadNotOpened,
         UploadNotRead, UploadLeaves, epVars
<1>2. CASE cmd' # "load"
  BY <1>1, <1>2, Chosen DEF Transfer!Next
<1>3. CASE cmd' = "load"
  <2>1. file' = file
    BY <1>1, <1>3 DEF Operator, Ident, Info, Load, Boot, Issue, UploadOk, UploadNotOpened,
                      UploadNotRead, UploadLeaves, imageVars
  <2>2. idx' \in ImgIndex
    BY DEF TypeInv, TypeOK
  <2>3. Transfer!Begin
    BY <1>1, <1>3, <2>1, <2>2 DEF Transfer!Begin, TransferJob
  <2> QED
    BY <2>3 DEF Transfer!Next
<1> QED
  BY <1>2, <1>3

\* The load ends with success or failure; other iterations are not seen.
LEMMA HostStepSeen ==
  ASSUME SafeInv, HostPolls
  PROVE  Transfer!Next \/ UNCHANGED Transfer!tvars
<1>1. HostStep /\ idx' = idx /\ file' = file /\ flash' = flash /\ cmd \in Running
  BY DEF HostPolls, HostRequest, HostReceives, HostEndOfDownload, HostInvalidWrite,
         HostDivideByZero, HostWrongBlock, HostNothingLeft, HostServeBlock, HostResponse,
         HostFrame, HostTakes, HostStep, imageVars, epVars
<1>2. report = "none"
  BY <1>1 DEF SafeInv, HostInv, Running
<1>3. CASE HostRequest
  <2>1. cmd' = cmd
    BY <1>1, <1>3, LoopBodyType DEF HostRequest, LoopEnds, LoadEnds, Requests
  <2> QED
    BY <1>1, <1>3, <2>1, Unseen DEF HostRequest
<1>4. ASSUME HostTakes, IsGetBlock, LoopBody("HOST_ERROR_DOWNLOAD"),
             report' = LoadReport("HOST_ERROR_DOWNLOAD")
      PROVE  Transfer!Next
  <2>1. cmd = "load"
    BY <1>4, BlockRequested
  <2>2. cmd' = "prompt" /\ report' = "error"
    BY <1>4, <2>1 DEF LoopBody, LoopEnds, LoadEnds, LoadReport
  <2>3. Transfer!Fail
    BY <1>1, <2>1, <2>2 DEF Transfer!Fail, TransferJob
  <2> QED
    BY <2>3 DEF Transfer!Next
<1>5. CASE HostEndOfDownload
  <2>1. cmd = "load" /\ BlockAsked(hostRx)
    BY <1>5, BlockRequested DEF HostEndOfDownload, HostFrame
  <2>2. idx \in Parts /\ flash[idx] = file
    BY <1>5, <2>1 DEF HostEndOfDownload, BlockAsked
  <2>3. cmd' = "prompt" /\ report' = "ok"
    BY <1>5, <2>1 DEF HostEndOfDownload, HostFrame, LoopBody, LoopEnds, LoadEnds, LoadReport
  <2>4. Transfer!Succeed
    BY <1>1, <2>1, <2>2, <2>3 DEF Transfer!Succeed, TransferJob
  <2> QED
    BY <2>4 DEF Transfer!Next
<1>6. CASE HostInvalidWrite
  BY <1>4, <1>6 DEF HostInvalidWrite, HostFrame
<1>7. CASE HostDivideByZero
  BY <1>7, BlockRequested, SizeAssumption DEF HostDivideByZero, AsksBlock
<1>8. CASE HostWrongBlock
  BY <1>4, <1>8 DEF HostWrongBlock, HostFrame, AsksBlock
<1>9. CASE HostNothingLeft
  BY <1>4, <1>9 DEF HostNothingLeft, HostFrame, AsksBlock
<1>10. CASE HostServeBlock
  <2>1. LoopBody("WAIT_FOR_NEXT_BLOCK") /\ report' = report
    BY <1>10 DEF HostServeBlock, HostFrame
  <2>2. cmd' = cmd
    BY <1>1, <2>1, LoopBodyType DEF LoopEnds, LoadEnds
  <2> QED
    BY <1>1, <2>1, <2>2, Unseen
<1>11. CASE HostResponse
  <2>1. LoopBody(ResponseAction) /\ toHost # <<>> /\ ~hostRx.rq /\ report' = ResponseReport
    BY <1>11 DEF HostResponse, HostFrame, HostTakes
  <2>2. report' \notin {"ok", "error"}
    BY <1>2, <2>1 DEF ResponseReport
  <2>3. cmd' = cmd \/ cmd' = "prompt"
    BY <1>1, <2>1, LoopBodyType
  <2>4. CASE cmd # "load"
    <3>1. TransferJob' = TransferJob
      BY <1>2, <2>2, <2>3, <2>4 DEF TransferJob
    <3> QED
      BY <1>1, <3>1 DEF Transfer!tvars
  <2>5. CASE cmd = "load"
    <3>1. hostRx.cmd = "download"
      BY <2>1, <2>5, HostFrames DEF ToTheHost, BlockAsked, Res
    <3>2. ~LoopEnds(ResponseAction) /\ report' = report
      BY <2>1, <2>5, <3>1 DEF ResponseAction, ResponseReport, LoopEnds, LoadEnds
    <3> QED
      BY <1>1, <2>1, <3>2, LoopBodyType, Unseen
  <2> QED
    BY <2>4, <2>5
<1> QED
  BY <1>3, <1>5, <1>6, <1>7, <1>8, <1>9, <1>10, <1>11 DEF HostPolls, HostReceives

\* A written block extends what the target holds.
LEMMA WriteSeen ==
  ASSUME SafeInv, EpWriteBlock
  PROVE  Transfer!Next \/ UNCHANGED Transfer!tvars
<1>1. /\ EpFrame /\ IsBlock /\ eop.handle # NULL
      /\ flash' = [flash EXCEPT ![eop.handle] = flash[eop.handle] \o epRx.data]
  BY DEF EpWriteBlock, CanWrite
<1>2. /\ cmd = "load" /\ eop.handle = idx /\ idx \in Parts /\ eop.offset <= Len(file)
      /\ flash[idx] = Prefix(file, eop.offset)
      /\ hop.offset = eop.offset + Len(epRx.data)
      /\ epRx.data = SubSeq(file, eop.offset + 1, hop.offset)
      /\ file \in Seq(Byte) /\ Len(file) \in Nat /\ hop.offset \in Nat
      /\ hop.offset <= Len(file) /\ eop.offset \in Nat /\ Len(epRx.data) \in Nat
      /\ epRx.data \in Seq(Byte)
  BY <1>1, BlockTaken DEF InStep
<1>3. eop.offset <= hop.offset
  BY <1>2
<1>4. flash[idx] \o epRx.data = Prefix(file, hop.offset)
  BY <1>2, <1>3, PrefixGrows, ZenonT(40)
<1>5. /\ cmd' = cmd /\ report' = report /\ idx' = idx /\ file' = file
      /\ flash \in [Parts -> Seq(Byte)]
  BY <1>1, DeviceTurn DEF SafeInv, TypeInv, TypeOK
<1>6. CASE Len(epRx.data) = 0
  <2>1. hop.offset = eop.offset
    BY <1>2, <1>6
  <2>2. flash' = flash
    BY <1>1, <1>2, <1>4, <1>5, <2>1
  <2> QED
    BY <1>5, <2>2, Unseen
<1>7. CASE Len(epRx.data) # 0
  <2>1. /\ eop.offset \in 0..Len(file) /\ Len(epRx.data) \in 1..Len(file)
        /\ eop.offset + Len(epRx.data) <= Len(file)
    <3>1. PICK k \in Nat : k = Len(epRx.data)
      BY <1>2
    <3>2. k # 0 /\ eop.offset + k <= Len(file)
      BY <1>2, <1>7, <3>1
    <3>3. PICK n \in Nat : n = Len(file)
      BY <1>2
    <3>4. eop.offset \in 0..n /\ k \in 1..n
      BY <1>2, <3>2, <3>3, SMTT(30)
    <3> QED
      BY <3>1, <3>2, <3>3, <3>4
  <2>2. flash' = [flash EXCEPT ![idx] = SubSeq(file, 1, eop.offset + Len(epRx.data))]
    BY <1>1, <1>2, <1>4 DEF Prefix
  <2>3. Transfer!Extend
    BY <1>2, <1>5, <2>1, <2>2 DEF Transfer!Extend, TransferJob, Prefix
  <2> QED
    BY <2>3 DEF Transfer!Next
<1> QED
  BY <1>6, <1>7

\* The device erases, extends, or is not seen.
LEMMA DeviceStepSeen ==
  ASSUME SafeInv, EpReceives
  PROVE  Transfer!Next \/ UNCHANGED Transfer!tvars
<1>1. EpFrame /\ cmd' = cmd /\ report' = report /\ idx' = idx /\ file' = file
  <2>1. EpFrame
    BY DEF EpReceives, EpQuery, EpDownload, EpRefuse, EpWriteBlock, EpInvalidWrite,
           EpDivideByZero, EpBoot, EpBootFails, EpBootRefused
  <2> QED
    BY <2>1, DeviceTurn
<1>2. CASE flash' = flash
  BY <1>1, <1>2, Unseen
<1>3. CASE EpDownload
  <2>1. epRx.arg \in Parts /\ flash' = [flash EXCEPT ![epRx.arg] = <<>>]
    BY <1>3 DEF EpDownload, Opens, Erased
  <2>2. cmd = "load" /\ epRx.arg = idx
    BY <1>1, <1>3, DeviceTurn DEF EpDownload, ToDevice, BlockSent, IdentQueries
  <2>3. Transfer!Erase
    BY <1>1, <2>1, <2>2 DEF Transfer!Erase, TransferJob
  <2> QED
    BY <2>3 DEF Transfer!Next
<1>4. CASE EpWriteBlock
  BY <1>4, WriteSeen
<1>5. EpDownload \/ EpWriteBlock \/ flash' = flash
  BY DEF EpReceives, EpQuery, EpRefuse, EpInvalidWrite, EpDivideByZero, EpBoot,
         EpBootFails, EpBootRefused, epVars
<1> QED
  BY <1>2, <1>3, <1>4, <1>5

\* A restart of the host is a choice; other faults are not seen.
LEMMA FaultSeen ==
  ASSUME SafeInv, TypeInv', Environment
  PROVE  Transfer!Next \/ UNCHANGED Transfer!tvars
<1>1. CASE HostRestart
  BY <1>1, Chosen DEF HostRestart, epVars, Transfer!Next
<1>2. CASE EpIgnores \/ EpReset \/ LoseToEp \/ LoseToHost
  BY <1>2, Unseen DEF EpIgnores, EpReset, LoseToEp, LoseToHost, hostVars, imageVars, epVars
<1> QED
  BY <1>1, <1>2 DEF Environment

\* A load copies the image into the partition the operator named front to back,
\* touches no other, and succeeds only when the partition holds the image.
THEOREM Transfer_Correct ==
  ASSUME SettledLine
  PROVE  Spec => ImplementsTransfer
<1>1. Init => Transfer!Init
  BY DEF Init, Transfer!Init, TransferJob, Erased
<1>2. ASSUME SafeInv, [Next]_vars PROVE Transfer!Next \/ UNCHANGED Transfer!tvars
  <2>1. TypeInv'
    BY <1>2, TypeNext DEF SafeInv
  <2>2. CASE Next
    BY <1>2, <2>1, <2>2, OperatorStep, HostStepSeen, DeviceStepSeen, FaultSeen DEF Next
  <2>3. CASE UNCHANGED vars
    BY <2>3, Unseen DEF vars, hostVars, imageVars, epVars
  <2> QED
    BY <1>2, <2>2, <2>3
<1>3. SafeInv /\ [Next]_vars => [Transfer!Next]_(Transfer!tvars)
  BY <1>2
<1> QED
  BY <1>1, <1>3, Safe, PTL DEF Spec, ImplementsTransfer, Transfer!Spec

============================================================================
