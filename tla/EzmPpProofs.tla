---------------------------- MODULE EzmPpProofs ----------------------------
(***************************************************************************)
(* Theorems about EzmPp, for any images, partitions and block size.        *)
(***************************************************************************)
EXTENDS EzmPp, SequenceTheorems, TLAPS

----------------------------------------------------------------------------
(* Lemmas about the operators *)

\* Dividing natural numbers, as C does for unsigned ones.
LEMMA DivisionType ==
  ASSUME NEW m \in Nat, NEW n \in Nat, n # 0
  PROVE  m \div n \in Nat /\ (m < n => m \div n = 0)
OBVIOUS

\* The number of a block is a natural number, 0 for the first one: it is never
\* mistaken for one of the two signals.
LEMMA BlockNumberType ==
  ASSUME NEW op, op.offset \in Nat, op.bs = BlockSize
  PROVE  /\ BlockNumber(op) \in Nat
         /\ BlockNumber(op) \notin {EndOfDownload, InvalidWrite}
         /\ op.offset = 0 => BlockNumber(op) = 0
<1>1. op.offset + op.bs - 1 \in Nat /\ op.bs \in Nat /\ op.bs # 0
  BY SizeAssumption
<1>2. BlockNumber(op) \in Nat
  BY <1>1, DivisionType DEF BlockNumber
<1>3. ASSUME op.offset = 0 PROVE BlockNumber(op) = 0
  BY <1>1, <1>3, DivisionType, SizeAssumption DEF BlockNumber
<1> QED
  BY <1>2, <1>3 DEF EndOfDownload, InvalidWrite

\* A part of a sequence of bytes is a sequence of bytes of the length it names.
LEMMA PartOfImage ==
  ASSUME NEW s \in Seq(Byte), NEW m \in Nat, NEW n \in Nat, m <= n, n <= Len(s)
  PROVE  /\ SubSeq(s, m + 1, n) \in Seq(Byte)
         /\ Len(SubSeq(s, m + 1, n)) = n - m
<1>1. \A i \in m + 1 .. n : s[i] \in Byte
  OBVIOUS
<1> QED
  BY <1>1, SubSeqProperties

\* A prefix grows by the part of the image that follows it.
LEMMA PrefixGrows ==
  ASSUME NEW s \in Seq(Byte), NEW m \in Nat, NEW n \in Nat, m <= n, n <= Len(s)
  PROVE  Prefix(s, m) \o SubSeq(s, m + 1, n) = Prefix(s, n)
BY ConcatAdjacentSubSeq DEF Prefix

\* The prefix as long as the image is the image; the empty prefix is empty.
LEMMA PrefixBounds ==
  ASSUME NEW s \in Seq(Byte)
  PROVE  Prefix(s, Len(s)) = s /\ Prefix(s, 0) = <<>>
BY SubSeqFull, SubSeqEmpty DEF Prefix

\* A FIFO of frames stays one when a frame leaves it or is put on it.
LEMMA LineType ==
  ASSUME NEW line \in Seq(Message)
  PROVE  /\ line # <<>> => Head(line) \in Message /\ Tail(line) \in Seq(Message)
         /\ \A m \in Message : Append(line, m) \in Seq(Message)
         /\ \A m, n \in Message : line \o <<m>> \in Seq(Message)
                                  /\ line \o <<m, n>> \in Seq(Message)
         /\ line \o <<>> \in Seq(Message)
OBVIOUS

\* What the constructors of frames build are frames.
LEMMA FrameType ==
  /\ \A c \in Command, x \in Int, s \in Nat : Req(c, x, s) \in Message
  /\ \A c \in Command, r \in CompCode : Res(c, r) \in Message
  /\ \A n \in Int, d \in Seq(Byte) : BlockRes(n, d) \in Message
BY DEF Req, Res, BlockRes, Message, Command, CompCode

\* The fields of the two download records and of the operator's index.
LEMMA FieldTypes ==
  ASSUME TypeOK
  PROVE  /\ idx \in Int
         /\ file \in Seq(Byte) /\ Len(file) \in Nat
         /\ hop.img \in {"null", "file", "stale"}
         /\ hop.size \in Nat /\ hop.offset \in Nat /\ hop.bs \in {0, BlockSize}
         /\ eop.handle \in Parts \cup {NULL}
         /\ eop.size \in Nat /\ eop.offset \in Nat /\ eop.bs \in {0, BlockSize}
<1>1. idx \in 0..255
  BY IndexAssumption DEF TypeOK
<1>2. hop \in [img : {"null", "file", "stale"}, size : Nat, offset : Nat, bs : {0, BlockSize}]
  BY DEF TypeOK
<1>3. eop \in [handle : Parts \cup {NULL}, size : Nat, offset : Nat, bs : {0, BlockSize}]
  BY DEF TypeOK
<1>4. file \in Seq(Byte)
  BY DEF TypeOK
<1> QED
  BY <1>1, <1>2, <1>3, <1>4

\* A request in the mailbox is sent as one frame; another action sends none.
LEMMA SentType ==
  ASSUME TypeOK, NEW action
  PROVE  /\ Sent(action) = <<>> \/ \E m \in Message : Sent(action) = <<m>>
         /\ toEp \o Sent(action) \in Seq(Message)
<1>1. idx \in Int /\ hop.size \in Nat
  BY FieldTypes
<1>2. \A r \in Requests : RequestFrame[r] \in Message
  BY <1>1, FrameType DEF Requests, RequestFrame, Command
<1>3. Sent(action) = <<>> \/ \E m \in Message : Sent(action) = <<m>>
  BY <1>2 DEF Sent
<1> QED
  BY <1>3, LineType DEF TypeOK

\* A block that is served is a sequence of bytes of the length BlockLength.
LEMMA BlockDataType ==
  ASSUME TypeOK, hop.bs # 0, ~NothingLeft, hop.img = "file" => hop.size = Len(file),
         NEW d \in BlockData
  PROVE  /\ d \in Seq(Byte) /\ BlockLength \in Nat /\ Len(d) = BlockLength
         /\ hop.offset + BlockLength <= hop.size
<1>1. /\ hop.offset \in Nat /\ hop.size \in Nat /\ hop.bs \in Nat
      /\ hop.offset < hop.size
  BY FieldTypes, SizeAssumption DEF NothingLeft
<1>2. BlockLength \in Nat /\ hop.offset + BlockLength <= hop.size
  BY <1>1 DEF BlockLength, Smaller
<1>3. CASE hop.img = "file"
  <2>1. d = SubSeq(file, hop.offset + 1, hop.offset + BlockLength)
    BY <1>3 DEF BlockData
  <2> QED
    <3>1. file \in Seq(Byte) /\ hop.offset + BlockLength <= Len(file)
      BY <1>2, <1>3 DEF TypeOK
    <3>2. hop.offset + BlockLength \in Nat /\ hop.offset <= hop.offset + BlockLength
      BY <1>1, <1>2
    <3> QED
      BY <1>1, <1>2, <2>1, <3>1, <3>2, PartOfImage, SMTT(30)
<1>4. CASE hop.img # "file"
  BY <1>2, <1>4 DEF BlockData
<1> QED
  BY <1>2, <1>3, <1>4

----------------------------------------------------------------------------
(* Type correctness *)

\* TypeOK is not inductive: the number of the next block is only a number when
\* block_size is not 0, and a served block is only as long as the code says when
\* ez_img_size is still the size of the uploaded image.
TypeInv ==
  /\ TypeOK
  /\ eop.handle # NULL => eop.bs = BlockSize
  /\ hop.img = "file" => hop.size = Len(file)

\* The operator's commands preserve the types.
LEMMA TypeOperator == TypeInv /\ Operator => TypeInv'
<1> SUFFICES ASSUME TypeInv, Operator PROVE TypeInv'
  OBVIOUS
<1>0. ASSUME UploadNotRead PROVE file' \in Seq(Byte)
  BY <1>0 DEF UploadNotRead
<1> USE DEF TypeInv, TypeOK
<1>1. ASSUME NEW c \in Running, NEW r \in Requests, Issue(c, r),
             idx' \in ImgIndex, hop' = hop
      PROVE  TypeInv'
  BY <1>1 DEF Issue, imageVars, epVars
<1>2. CASE Ident
  BY <1>1, <1>2 DEF Ident, Running, Requests, Issue
<1>3. ASSUME NEW i \in ImgIndex, Info(i) PROVE TypeInv'
  BY <1>1, <1>3 DEF Info, Running, Requests
<1>4. ASSUME NEW i \in ImgIndex, Boot(i) PROVE TypeInv'
  BY <1>1, <1>4 DEF Boot, Running, Requests
<1>5. ASSUME NEW i \in ImgIndex, Load(i) PROVE TypeInv'
  <2>0. Len(file) \in Nat /\ file' = file
    BY <1>5, FieldTypes DEF Load, Issue, imageVars
  <2>1. hop' = [img |-> "file", size |-> Len(file), offset |-> 0, bs |-> BlockSize]
    BY <1>5 DEF Load
  <2>2. hop' \in [img : {"null", "file", "stale"}, size : Nat, offset : Nat, bs : {0, BlockSize}]
    BY <2>0, <2>1
  <2>3. hop'.size = Len(file')
    BY <2>0, <2>1
  <2> QED
    BY <1>5, <2>2, <2>3 DEF Load, Issue, Running, Requests, imageVars, epVars
<1>6. /\ Detached(hop) \in [img : {"null", "file", "stale"}, size : Nat, offset : Nat, bs : {0, BlockSize}]
      /\ Detached(hop).img # "file"
  BY DEF Detached
<1>7. ASSUME NEW f \in Images, UploadOk(f) PROVE TypeInv'
  BY <1>6, <1>7, ImagesAssumption DEF UploadOk, UploadLeaves, epVars
<1>8. CASE UploadNotOpened
  BY <1>8, ZenonT(40) DEF UploadNotOpened, UploadLeaves, epVars
<1>9. CASE UploadNotRead
  <2>1. hop' \in [img : {"null", "file", "stale"}, size : Nat, offset : Nat, bs : {0, BlockSize}]
    BY <1>6, <1>9 DEF UploadNotRead
  <2>2. hop'.img # "file"
    BY <1>6, <1>9 DEF UploadNotRead
  <2> QED
    BY <1>0, <1>9, <2>1, <2>2 DEF UploadNotRead, UploadLeaves, epVars
<1> QED
  BY <1>2, <1>3, <1>4, <1>5, <1>7, <1>8, <1>9 DEF Operator

\* The end of an iteration keeps the loop running or returns to the prompt, and
\* leaves no request in the mailbox.
LEMMA LoopBodyType ==
  ASSUME NEW action, cmd \in Running, LoopBody(action)
  PROVE  /\ cmd' \in Running \cup {"prompt"} /\ (cmd' # cmd => cmd' = "prompt")
         /\ slot' \in {"NO_ACTION", "HOST_WAIT", "WAIT_FOR_NEXT_BLOCK"}
         /\ slot' \notin Requests
         /\ cmd' = cmd <=> ~LoopEnds(action)
<1>1. cmd' = cmd \/ cmd' = "prompt"
  BY DEF LoopBody
<1>2. slot' \in {"NO_ACTION", "HOST_WAIT", "WAIT_FOR_NEXT_BLOCK"}
  BY DEF LoopBody, NextSlot
<1>3. cmd' = cmd <=> ~LoopEnds(action)
  BY DEF LoopBody, Running
<1> QED
  BY <1>1, <1>2, <1>3 DEF Requests

\* The report is one of the five, whatever the iteration prints.
LEMMA ReportType ==
  ASSUME TypeOK, NEW action
  PROVE  /\ LoadReport(action) \in {"none", "ok", "error", "booting", "boot error"}
         /\ ResponseReport \in {"none", "ok", "error", "booting", "boot error"}
BY DEF TypeOK, LoadReport, ResponseReport

\* The record of no download has the type of download_op.
LEMMA NoDownloadType ==
  /\ NoHostDownload \in [img : {"null", "file", "stale"}, size : Nat, offset : Nat, bs : {0, BlockSize}]
  /\ NoHostDownload.img = "null" /\ NoHostDownload.bs = 0
  /\ NoEpDownload \in [handle : Parts \cup {NULL}, size : Nat, offset : Nat, bs : {0, BlockSize}]
  /\ NoEpDownload.handle = NULL
BY DEF NoHostDownload, NoEpDownload

\* A host iteration that types its new download, report and line is well typed.
LEMMA TypeHostStep ==
  ASSUME TypeInv, HostStep,
         cmd' \in Running \cup {"prompt", "crashed"},
         slot' \in {"NO_ACTION", "HOST_WAIT", "WAIT_FOR_NEXT_BLOCK"},
         report' \in {"none", "ok", "error", "booting", "boot error"},
         hop' \in [img : {"null", "file", "stale"}, size : Nat, offset : Nat, bs : {0, BlockSize}],
         hop'.img = "file" => hop'.size = Len(file),
         toEp' \in Seq(Message), toHost' \in Seq(Message)
  PROVE  TypeInv'
BY DEF HostStep, imageVars, epVars, TypeInv, TypeOK

\* The iterations of a command loop preserve the types.
LEMMA TypeHost == TypeInv /\ HostPolls => TypeInv'
<1> SUFFICES ASSUME TypeInv, HostPolls PROVE TypeInv'
  OBVIOUS
<1> DEFINE Reports == {"none", "ok", "error", "booting", "boot error"}
           Hop == [img : {"null", "file", "stale"}, size : Nat, offset : Nat, bs : {0, BlockSize}]
<1>t. /\ TypeOK /\ report \in Reports /\ hop \in Hop
      /\ hop.img = "file" => hop.size = Len(file)
      /\ toEp \in Seq(Message) /\ toHost \in Seq(Message)
  BY DEF TypeInv, TypeOK
<1>1. CASE HostRequest
  BY <1>1, <1>t, LoopBodyType, TypeHostStep, SentType DEF HostRequest, HostStep
<1>2. ASSUME HostTakes
      PROVE  HostStep /\ toHost' \in Seq(Message) /\ hostRx \in Message
  BY <1>2, <1>t, LineType DEF HostTakes, hostRx
<1>3. ASSUME NEW action, HostFrame(action)
      PROVE  /\ HostTakes /\ HostStep /\ toHost' \in Seq(Message) /\ hostRx \in Message
             /\ cmd' \in Running \cup {"prompt", "crashed"}
             /\ slot' \in {"NO_ACTION", "HOST_WAIT", "WAIT_FOR_NEXT_BLOCK"}
  BY <1>2, <1>3, LoopBodyType DEF HostFrame, HostStep
<1>4. CASE HostEndOfDownload
  <2>1. hop' \in Hop /\ hop'.img # "file"
    BY <1>4, NoDownloadType DEF HostEndOfDownload
  <2> QED
    BY <1>3, <1>4, <1>t, <2>1, ReportType, TypeHostStep DEF HostEndOfDownload
<1>5. CASE HostInvalidWrite
  <2>1. hop' \in Hop /\ hop'.img # "file"
    BY <1>5, NoDownloadType DEF HostInvalidWrite
  <2> QED
    BY <1>3, <1>5, <1>t, <2>1, ReportType, TypeHostStep DEF HostInvalidWrite
<1>6. CASE HostDivideByZero
  BY <1>2, <1>6, <1>t, TypeHostStep DEF HostDivideByZero
<1>7. CASE HostWrongBlock
  BY <1>3, <1>7, <1>t, ReportType, TypeHostStep DEF HostWrongBlock
<1>8. CASE HostNothingLeft
  BY <1>3, <1>8, <1>t, ReportType, TypeHostStep DEF HostNothingLeft
<1>9. CASE HostServeBlock
  <2>1. /\ hop.bs # 0 /\ hop.bs = BlockSize /\ ~NothingLeft
        /\ hop.offset \in Nat /\ hop.size \in Nat
    BY <1>9, <1>t, FieldTypes DEF HostServeBlock
  <2>2. PICK d \in BlockData : toEp' = Append(toEp, BlockRes(BlockNumber(hop), d))
    BY <1>9 DEF HostServeBlock
  <2>3. d \in Seq(Byte) /\ BlockLength \in Nat
    BY <1>t, <2>1, BlockDataType
  <2>4. BlockNumber(hop) \in Nat
    BY <2>1, BlockNumberType
  <2>5. toEp' \in Seq(Message)
    <3>1. BlockNumber(hop) \in Int
      BY <2>4
    <3>2. BlockRes(BlockNumber(hop), d) \in Message
      BY <2>3, <3>1, FrameType
    <3> QED
      BY <1>t, <2>2, <3>2, LineType
  <2>6. hop' = [hop EXCEPT !.offset = hop.offset + BlockLength]
    BY <1>9 DEF HostServeBlock
  <2>7. hop.offset + BlockLength \in Nat
    BY <2>1, <2>3
  <2>8. hop' \in Hop /\ hop'.img = hop.img /\ hop'.size = hop.size
    BY <1>t, <2>6, <2>7
  <2>9. report' \in Reports
    BY <1>9, <1>t DEF HostServeBlock
  <2> QED
    BY <1>3, <1>9, <1>t, <2>5, <2>8, <2>9, TypeHostStep DEF HostServeBlock
<1>10. CASE HostResponse
  BY <1>3, <1>10, <1>t, ReportType, SentType, TypeHostStep DEF HostResponse
<1> QED
  BY <1>1, <1>4, <1>5, <1>6, <1>7, <1>8, <1>9, <1>10 DEF HostPolls, HostReceives

\* A step of the device and the line types what it changes.
LEMMA TypeDeviceStep ==
  ASSUME TypeInv, UNCHANGED <<hostVars, imageVars>>,
         eop' \in [handle : Parts \cup {NULL}, size : Nat, offset : Nat, bs : {0, BlockSize}],
         eop'.handle # NULL => eop'.bs = BlockSize,
         ep' \in {"loader", "app", "fault"}, bootSel' \in Parts \cup {NULL},
         flash' \in [Parts -> Seq(Byte)],
         toEp' \in Seq(Message), toHost' \in Seq(Message)
  PROVE  TypeInv'
<1>1. /\ file' = file /\ hop' = hop /\ cmd' = cmd /\ slot' = slot /\ idx' = idx
      /\ report' = report /\ uploaded' = uploaded /\ allocated' = allocated
  BY DEF hostVars, imageVars
<1> QED
  BY <1>1, ZenonT(40) DEF TypeInv, TypeOK

\* The calls of ezm_pp_main() on the device preserve the types.
LEMMA TypeEp == TypeInv /\ EpReceives => TypeInv'
<1> SUFFICES ASSUME TypeInv, EpReceives PROVE TypeInv'
  OBVIOUS
<1> DEFINE Eop == [handle : Parts \cup {NULL}, size : Nat, offset : Nat, bs : {0, BlockSize}]
<1>t. /\ TypeOK /\ eop \in Eop /\ (eop.handle # NULL => eop.bs = BlockSize)
      /\ ep \in {"loader", "app", "fault"} /\ bootSel \in Parts \cup {NULL}
      /\ flash \in [Parts -> Seq(Byte)]
      /\ toEp \in Seq(Message) /\ toHost \in Seq(Message)
  BY DEF TypeInv, TypeOK
<1>1. ASSUME EpFrame
      PROVE  /\ toEp' \in Seq(Message) /\ UNCHANGED <<hostVars, imageVars>>
             /\ epRx \in Message
  BY <1>1, <1>t, LineType DEF EpFrame, epRx
<1>2. \A m \in Message : Append(toHost, m) \in Seq(Message)
  BY <1>t, LineType
<1>3. \A c \in Command, r \in CompCode : Append(toHost, Res(c, r)) \in Seq(Message)
  BY <1>2, FrameType
<1>4. \A n \in Int : Append(toHost, Req("get_block", n, 0)) \in Seq(Message)
  BY <1>2, FrameType DEF Command
<1>5. CASE EpQuery
  BY <1>1, <1>3, <1>5, <1>t, TypeDeviceStep DEF EpQuery, epVars, Queries, Command, CompCode
<1>6. ASSUME EpFrame, NEW code \in CompCode, NEW h \in Parts \cup {NULL}, StartDownload(code, h)
      PROVE  eop' \in Eop /\ eop'.bs = BlockSize /\ toHost' \in Seq(Message)
  <2>1. epRx.size \in Nat
    BY <1>1, <1>6 DEF Message
  <2>2. Prepared(h) \in Eop /\ Prepared(h).bs = BlockSize /\ Prepared(h).offset = 0
    BY <2>1 DEF Prepared
  <2>3. BlockNumber(Prepared(h)) \in Int
    <3>1. Prepared(h).offset \in Nat
      BY <2>2
    <3>2. BlockNumber(Prepared(h)) \in Nat
      BY <2>2, <3>1, BlockNumberType
    <3> QED
      BY <3>2
  <2>4. Res("download", code) \in Message /\ Req("get_block", BlockNumber(Prepared(h)), 0) \in Message
    BY <2>3, FrameType DEF Command
  <2> QED
    BY <1>6, <1>t, <2>2, <2>4, LineType DEF StartDownload
<1>7. CASE EpDownload
  <2>1. epRx.arg \in Parts \cup {NULL} /\ epRx.arg \in Parts /\ "success" \in CompCode
    BY <1>7 DEF EpDownload, Opens, CompCode
  <2>2. flash' \in [Parts -> Seq(Byte)]
    BY <1>7, <1>t, <2>1 DEF EpDownload, Erased
  <2> QED
    BY <1>1, <1>6, <1>7, <1>t, <2>1, <2>2, TypeDeviceStep DEF EpDownload
<1>8. CASE EpRefuse
  <2>1. PICK h \in {eop.handle, NULL} : StartDownload("invalid_data", h)
    BY <1>8 DEF EpRefuse
  <2>2. h \in Parts \cup {NULL} /\ "invalid_data" \in CompCode
    BY <1>t, <2>1 DEF CompCode
  <2> QED
    BY <1>1, <1>6, <1>8, <1>t, <2>1, <2>2, TypeDeviceStep DEF EpRefuse
<1>9. CASE EpWriteBlock
  <2>1. /\ eop.handle \in Parts /\ eop.offset \in Nat
        /\ epRx.data \in Seq(Byte) /\ eop.bs = BlockSize /\ eop.handle # NULL
    BY <1>1, <1>9, <1>t DEF EpWriteBlock, CanWrite, Message
  <2>2. Len(epRx.data) \in Nat
    BY <2>1
  <2>3. eop.offset + Len(epRx.data) \in Nat
    BY <2>1, <2>2
  <2>4. Written = [eop EXCEPT !.offset = eop.offset + Len(epRx.data)]
    BY DEF Written
  <2>5. /\ Written \in Eop /\ Written.bs = BlockSize /\ Written.offset \in Nat
        /\ Written.handle = eop.handle
    BY <1>t, <2>1, <2>3, <2>4
  <2>6. BlockNumber(Written) \in Int
    <3>1. BlockNumber(Written) \in Nat
      BY <2>5, BlockNumberType
    <3> QED
      BY <3>1
  <2>7. toHost' \in Seq(Message)
    BY <1>4, <1>9, <2>6 DEF EpWriteBlock, NextRequest, EndOfDownload
  <2>8. flash[eop.handle] \in Seq(Byte)
    BY <1>t, <2>1
  <2>9. flash[eop.handle] \o epRx.data \in Seq(Byte)
    BY <2>1, <2>8
  <2>10. flash' \in [Parts -> Seq(Byte)]
    BY <1>9, <1>t, <2>1, <2>9 DEF EpWriteBlock
  <2> QED
    BY <1>1, <1>9, <1>t, <2>5, <2>7, <2>10, TypeDeviceStep DEF EpWriteBlock
<1>10. CASE EpInvalidWrite
  BY <1>1, <1>4, <1>10, <1>t, TypeDeviceStep DEF EpInvalidWrite, epVars, InvalidWrite
<1>11. CASE EpDivideByZero
  BY <1>1, <1>11, <1>t, TypeDeviceStep DEF EpDivideByZero
<1>12. CASE EpBoot
  BY <1>1, <1>3, <1>12, <1>t, TypeDeviceStep DEF EpBoot, Command, CompCode
<1>13. CASE EpBootFails
  BY <1>1, <1>3, <1>13, <1>t, TypeDeviceStep DEF EpBootFails, Command, CompCode
<1>14. CASE EpBootRefused
  BY <1>1, <1>3, <1>14, <1>t, TypeDeviceStep DEF EpBootRefused, epVars, Command, CompCode
<1> QED
  BY <1>5, <1>7, <1>8, <1>9, <1>10, <1>11, <1>12, <1>13, <1>14 DEF EpReceives

\* A step that only takes frames from the line preserves the types.
LEMMA TypeLineStep ==
  ASSUME TypeInv, UNCHANGED <<hostVars, imageVars, epVars>>,
         toEp' \in Seq(Message), toHost' \in Seq(Message)
  PROVE  TypeInv'
<1>1. /\ eop' = eop /\ ep' = ep /\ bootSel' = bootSel /\ flash' = flash
  BY DEF epVars
<1>2. /\ eop' \in [handle : Parts \cup {NULL}, size : Nat, offset : Nat, bs : {0, BlockSize}]
      /\ eop'.handle # NULL => eop'.bs = BlockSize
      /\ ep' \in {"loader", "app", "fault"} /\ bootSel' \in Parts \cup {NULL}
      /\ flash' \in [Parts -> Seq(Byte)]
  BY <1>1 DEF TypeInv, TypeOK
<1> QED
  BY <1>2, TypeDeviceStep

\* Losses, resets and restarts preserve the types.
LEMMA TypeEnvironment == TypeInv /\ Environment => TypeInv'
<1> SUFFICES ASSUME TypeInv, Environment PROVE TypeInv'
  OBVIOUS
<1>1. /\ toEp \in Seq(Message) /\ (toEp # <<>> => Tail(toEp) \in Seq(Message))
      /\ toHost \in Seq(Message) /\ (toHost # <<>> => Tail(toHost) \in Seq(Message))
  BY LineType DEF TypeInv, TypeOK
<1>2. CASE EpIgnores \/ LoseToEp
  BY <1>1, <1>2, TypeLineStep DEF EpIgnores, LoseToEp
<1>3. CASE LoseToHost
  BY <1>1, <1>3, TypeLineStep DEF LoseToHost
<1>4. CASE EpReset
  <2>1. /\ eop' \in [handle : Parts \cup {NULL}, size : Nat, offset : Nat, bs : {0, BlockSize}]
        /\ eop'.handle = NULL
    BY <1>4, NoDownloadType DEF EpReset
  <2>2. flash' \in [Parts -> Seq(Byte)] /\ bootSel' \in Parts \cup {NULL}
    BY <1>4 DEF EpReset, TypeInv, TypeOK
  <2> QED
    BY <1>1, <1>4, <2>1, <2>2, TypeDeviceStep DEF EpReset
<1>5. CASE HostRestart
  <2>1. /\ hop' \in [img : {"null", "file", "stale"}, size : Nat, offset : Nat, bs : {0, BlockSize}]
        /\ hop'.img # "file"
    BY <1>5, NoDownloadType DEF HostRestart
  <2>2. file' \in Seq(Byte) /\ toHost' \in Seq(Message)
    BY <1>5 DEF HostRestart
  <2> QED
    BY <1>5, <2>1, <2>2 DEF HostRestart, TypeInv, TypeOK, epVars
<1> QED
  BY <1>2, <1>3, <1>4, <1>5 DEF Environment

\* The programs start in a typed state.
LEMMA TypeInit == Init => TypeInv
<1> SUFFICES ASSUME Init PROVE TypeInv
  OBVIOUS
<1>1. /\ hop \in [img : {"null", "file", "stale"}, size : Nat, offset : Nat, bs : {0, BlockSize}]
      /\ hop.img # "file"
      /\ eop \in [handle : Parts \cup {NULL}, size : Nat, offset : Nat, bs : {0, BlockSize}]
      /\ eop.handle = NULL
  BY NoDownloadType DEF Init
<1>2. /\ file \in Seq(Byte) /\ toEp \in Seq(Message) /\ toHost \in Seq(Message)
      /\ flash \in [Parts -> Seq(Byte)]
  BY DEF Init, Erased
<1> QED
  BY <1>1, <1>2 DEF Init, TypeInv, TypeOK

\* Every step preserves the types.
LEMMA TypeNext == TypeInv /\ [Next]_vars => TypeInv'
<1> SUFFICES ASSUME TypeInv, [Next]_vars PROVE TypeInv'
  OBVIOUS
<1>1. CASE Next
  BY <1>1, TypeOperator, TypeHost, TypeEp, TypeEnvironment DEF Next
<1>2. CASE UNCHANGED vars
  BY <1>2, TypeLineStep DEF vars, TypeInv, TypeOK
<1> QED
  BY <1>1, <1>2

\* In every reachable state of the two programs, whatever the faults, every
\* variable, frame and download record has its type.
THEOREM TypeCorrect == Spec => []TypeOK
<1>1. TypeInv => TypeOK
  BY DEF TypeInv
<1> QED
  BY <1>1, TypeInit, TypeNext, PTL DEF Spec

\* A step that leaves the device's record and flash keeps its account right.
LEMMA LedgerKept ==
  ASSUME EpLedger, eop' = eop, flash' = flash
  PROVE  EpLedger'
BY DEF EpLedger

\* A new download record with an erased partition, or with no handle.
LEMMA LedgerOpened ==
  ASSUME NEW code, NEW h, StartDownload(code, h), h # NULL => flash'[h] = <<>>
  PROVE  EpLedger'
BY DEF StartDownload, Prepared, EpLedger

\* Every step keeps the device's account of a download right.
LEMMA LedgerNext ==
  ASSUME "stale_handle" \notin Faults, TypeInv, EpLedger, [Next]_vars
  PROVE  EpLedger'
<1>t. /\ eop \in [handle : Parts \cup {NULL}, size : Nat, offset : Nat, bs : {0, BlockSize}]
      /\ flash \in [Parts -> Seq(Byte)] /\ toEp \in Seq(Message)
  BY DEF TypeInv, TypeOK
<1>1. CASE Operator \/ HostPolls
  <2>1. UNCHANGED epVars
    BY <1>1 DEF Operator, Ident, Info, Load, Boot, Issue, UploadOk, UploadNotOpened,
                UploadNotRead, UploadLeaves, HostPolls, HostRequest, HostReceives,
                HostEndOfDownload, HostInvalidWrite, HostDivideByZero, HostWrongBlock,
                HostNothingLeft, HostServeBlock, HostResponse, HostFrame, HostTakes, HostStep
  <2> QED
    BY <2>1, LedgerKept DEF epVars
<1>2. CASE EpDownload
  <2>1. flash'[epRx.arg] = <<>>
    BY <1>2, <1>t DEF EpDownload, Opens, Erased
  <2> QED
    BY <1>2, <2>1, LedgerOpened DEF EpDownload
<1>3. CASE EpRefuse
  BY <1>3, LedgerOpened DEF EpRefuse
<1>4. CASE EpWriteBlock
  <2>1. epRx \in Message
    BY <1>4, <1>t, LineType DEF EpWriteBlock, EpFrame, epRx
  <2>2. epRx.data \in Seq(Byte)
    BY <2>1 DEF Message
  <2>3. eop.handle \in Parts /\ eop.handle # NULL /\ eop.offset \in Nat
    BY <1>4, <1>t DEF EpWriteBlock, CanWrite
  <2>4. flash[eop.handle] \in Seq(Byte) /\ Len(flash[eop.handle]) = eop.offset
    BY <1>t, <2>3 DEF EpLedger
  <2>5. Len(flash[eop.handle] \o epRx.data) = eop.offset + Len(epRx.data)
    <3>1. ASSUME NEW s \in Seq(Byte), NEW t \in Seq(Byte) PROVE Len(s \o t) = Len(s) + Len(t)
      BY <3>1
    <3> QED
      BY <2>2, <2>4, <3>1
  <2>6. flash'[eop.handle] = flash[eop.handle] \o epRx.data
    BY <1>4, <1>t, <2>3 DEF EpWriteBlock
  <2>7. eop' = [eop EXCEPT !.offset = eop.offset + Len(epRx.data)]
    BY <1>4 DEF EpWriteBlock, Written
  <2>8. eop'.handle = eop.handle /\ eop'.offset = eop.offset + Len(epRx.data)
    BY <1>t, <2>7
  <2> QED
    BY <2>5, <2>6, <2>8 DEF EpLedger
<1>5. CASE EpQuery \/ EpInvalidWrite \/ EpDivideByZero \/ EpBoot \/ EpBootFails \/ EpBootRefused
  BY <1>5, LedgerKept DEF EpQuery, EpInvalidWrite, EpDivideByZero, EpBoot, EpBootFails,
                          EpBootRefused, epVars
<1>6. CASE EpReset
  BY <1>6, NoDownloadType DEF EpReset, EpLedger
<1>7. CASE EpIgnores \/ LoseToEp \/ LoseToHost \/ HostRestart \/ UNCHANGED vars
  BY <1>7, LedgerKept DEF EpIgnores, LoseToEp, LoseToHost, HostRestart, vars, epVars
<1> QED
  BY <1>1, <1>2, <1>3, <1>4, <1>5, <1>6, <1>7 DEF Next, EpReceives, Environment

\* However the host is restarted, and whatever is lost, ez_img_offset of the device is
\* the number of bytes written since the partition was opened, when an open that
\* fails leaves no handle.
THEOREM EpLedger_Correct ==
  ASSUME "stale_handle" \notin Faults
  PROVE  Spec => []EpLedger
<1>1. Init => EpLedger
  BY NoDownloadType DEF Init, EpLedger
<1>2. TypeInv /\ EpLedger /\ [Next]_vars => EpLedger'
  BY LedgerNext
<1> QED
  BY <1>1, <1>2, TypeInit, TypeNext, PTL DEF Spec

============================================================================
