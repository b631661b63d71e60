--------------------------- MODULE BootloaderHost ---------------------------
(***************************************************************************)
(* The earlier host, src/src/app_bootloader_host.c, with the commands of   *)
(* app_bootloader_command.c: it greets its client until the client says    *)
(* hello, then answers what the client asks for, repeats its last frame    *)
(* when it is asked to, and ends when the client does.                     *)
(*                                                                         *)
(* A step of the host is one round of its loop.  The client is not in the  *)
(* repository: its actions are what the host and the comments on the       *)
(* commands expect of one.  The port is a FIFO of frames each way.         *)
(***************************************************************************)
EXTENDS Integers, Sequences

CONSTANTS
  Byte,        \* the bytes files are made of
  Files,       \* the files -f may name, sequences of Byte
  BlockSizes,  \* the block sizes clients ask for
  Faults,      \* which faults happen, see FaultKinds
  MaxLine,     \* bound: the frames on their way when one more is sent unasked
  MaxLost      \* bound: how many frames the line loses

(***************************************************************************)
(* "hasty": the client asks for a retransmission although an answer is on  *)
(* its way.  "reset": the client resets and says hello again.  "error":    *)
(* the client reports an error.  "split": a read of the port returns while *)
(* a second frame is coming in.                                            *)
(***************************************************************************)
FaultKinds == {"hasty", "reset", "error", "split"}

ASSUME FilesAssumption == Files \subseteq Seq(Byte)
ASSUME BlockSizesAssumption == BlockSizes \subseteq Nat \ {0}
ASSUME LegacyBounds == MaxLine \in Nat /\ MaxLost \in Nat /\ Faults \subseteq FaultKinds

VARIABLES
  boot,      \* -b was given: boot a partition instead of downloading to it
  file,      \* the file, its length is total_size
  pos,       \* where fread continues in it
  state,     \* app_bootloader.state, or "crashed", or "hung" inside a read
  dl,        \* app_bootloader.dl_status
  digest,    \* build_digest.frame
  toHost, toClient,  \* frames on the line, oldest first
  client,    \* the client: what it waits for, and its download
  img,       \* the partition of the client
  lost,      \* how many frames the line has lost
  odd        \* history: what has happened that the protocol does not provide for

hostVars == <<boot, file, pos, state, dl, digest>>
clientVars == <<client, img>>
bvars == <<hostVars, toHost, toClient, clientVars, lost, odd>>

----------------------------------------------------------------------------
(* Frames: app_bootloader_command_build and the functions that call it *)

Cmd == {"HELLO", "HOST_HELLO", "DOWNLOAD_REQ", "DOWNLOAD_PARAM_REQ",
        "DOWNLOAD_PARAM_RES", "DOWNLOAD_BLOCK_REQ", "DOWNLOAD_BLOCK_RES",
        "END", "BOOT_APP", "ERROR", "RETRANSMIT"}

\* nbr is a block number or their count, size a number of bytes.
Frame == [cmd : Cmd \cup {"REST"}, nbr : Nat, size : Nat, data : Seq(Byte)]

Build(c, n, s, d) == [cmd |-> c, nbr |-> n, size |-> s, data |-> d]
Signal(c) == Build(c, 0, 0, <<>>)

NoFrame == [cmd |-> "NULL", nbr |-> 0, size |-> 0, data |-> <<>>]

HostHello == Signal("HOST_HELLO")
Hello == Signal("HELLO")
DlReq(total) == Build("DOWNLOAD_REQ", 0, total, <<>>)
ParamReq(bs) == Build("DOWNLOAD_PARAM_REQ", 0, bs, <<>>)
ParamRes(total, bs) == Build("DOWNLOAD_PARAM_RES", total, bs, <<>>)
BlockReq(n) == Build("DOWNLOAD_BLOCK_REQ", n, 0, <<>>)
BlockRes(n, d) == Build("DOWNLOAD_BLOCK_RES", n, Len(d), d)
End == Signal("END")
BootApp == Signal("BOOT_APP")
Error == Signal("ERROR")
Retransmit == Signal("RETRANSMIT")

\* The end of a frame whose beginning was read with the frame before it.
Rest == Signal("REST")

\* app_bootloader_command_check: what the host accepts from a client.
Accepted == {"RETRANSMIT", "HELLO", "DOWNLOAD_PARAM_REQ", "DOWNLOAD_BLOCK_REQ", "END"}

Smaller(a, b) == IF a < b THEN a ELSE b

----------------------------------------------------------------------------
(* The loop of main *)

Runs == state \in {"INIT", "READY"}

\* What a round in which nothing has arrived does: until the client has said hello it
\* is greeted, every 200 ms.
Greets ==
  /\ state = "INIT"
  /\ Len(toHost) + Len(toClient) < MaxLine
  /\ digest' = HostHello
  /\ toClient' = Append(toClient, HostHello)
  /\ UNCHANGED <<boot, file, pos, state, dl, toHost, clientVars, lost, odd>>

\* The greeting that a round in which a frame arrives begins with.
Greeting == IF state = "INIT" THEN <<HostHello>> ELSE <<>>

\* build_digest.frame after that.
Digest == IF state = "INIT" THEN HostHello ELSE digest

rx == Head(toHost)

\* Nobody notices that an END is missing: the client does not wait for an answer to it.
Without(frames) ==
  odd' = IF \E k \in DOMAIN frames : frames[k].cmd = "END" THEN odd \cup {"no end"} ELSE odd

\* bootloader_port_recv: one read takes the frames that have arrived; the one in front
\* is handled and the others are lost.
Reads(cmds) ==
  /\ Runs
  /\ toHost # <<>> /\ rx.cmd \in cmds
  /\ \E n \in DOMAIN toHost :
       \/ /\ toHost' = SubSeq(toHost, n + 1, Len(toHost))
          /\ Without(SubSeq(toHost, 2, n))
       \/ /\ "split" \in Faults /\ n < Len(toHost)
          /\ toHost' = <<Rest>> \o SubSeq(toHost, n + 2, Len(toHost))
          /\ odd' = odd \cup {"split"}
  /\ UNCHANGED <<boot, file, clientVars, lost>>

\* The frame the handler has built is sent, and kept to be sent again.
Answers(frame) ==
  /\ digest' = frame
  /\ toClient' = toClient \o Greeting \o (IF frame = NoFrame THEN <<>> ELSE <<frame>>)

HostOnHello ==
  /\ Reads({"HELLO"})
  /\ state' = "READY"
  /\ Answers(IF boot THEN BootApp ELSE DlReq(Len(file)))
  /\ UNCHANGED <<pos, dl>>

\* Seeded bug: a last block that is not full is not counted.
HostOnParamReqRoundsDown ==
  /\ Reads({"DOWNLOAD_PARAM_REQ"})
  /\ LET blocks == Len(file) \div rx.size IN
       /\ dl' = [total_block_nbr |-> blocks, actual_block_nbr |-> 0, block_size |-> rx.size]
       /\ Answers(ParamRes(blocks, rx.size))
  /\ UNCHANGED <<state, pos>>

\* The block counter starts again; the file does not.
HostOnParamReq ==
  /\ Reads({"DOWNLOAD_PARAM_REQ"})
  /\ LET blocks == (Len(file) + rx.size - 1) \div rx.size IN
       /\ dl' = [total_block_nbr |-> blocks, actual_block_nbr |-> 0, block_size |-> rx.size]
       /\ Answers(ParamRes(blocks, rx.size))
  /\ UNCHANGED <<state, pos>>

\* The number is not looked at once all blocks have been served.
Expected ==
  rx.nbr = dl.actual_block_nbr \/ dl.total_block_nbr = dl.actual_block_nbr

\* What fread returns for the block; actual_size is never advanced.
Block == SubSeq(file, pos + 1,
                Smaller(pos + Smaller(dl.block_size, Len(file)), Len(file)))

\* Seeded bug: the size asked for is counted, and not what was read.
HostOnBlockReqCountsAsked ==
  /\ Reads({"DOWNLOAD_BLOCK_REQ"})
  /\ Expected /\ Block # <<>>
  /\ Answers(BlockRes(dl.actual_block_nbr, Block))
  /\ dl' = [dl EXCEPT !.actual_block_nbr = @ + 1]
  /\ pos' = pos + dl.block_size
  /\ UNCHANGED <<state>>

HostOnBlockReq ==
  /\ Reads({"DOWNLOAD_BLOCK_REQ"})
  /\ Expected /\ Block # <<>>
  /\ Answers(BlockRes(dl.actual_block_nbr, Block))
  /\ dl' = [dl EXCEPT !.actual_block_nbr = @ + 1]
  /\ pos' = pos + Len(Block)
  /\ UNCHANGED <<state>>

\* Seeded bug: the file is read before the number is looked at.
HostRefusesBlockRead ==
  /\ Reads({"DOWNLOAD_BLOCK_REQ"})
  /\ ~Expected \/ Block = <<>>
  /\ Answers(NoFrame)
  /\ pos' = pos + Len(Block)
  /\ UNCHANGED <<state, dl>>

\* A wrong number, or nothing left in the file: the last answer is gone, and there is
\* no other.
HostRefusesBlock ==
  /\ Reads({"DOWNLOAD_BLOCK_REQ"})
  /\ ~Expected \/ Block = <<>>
  /\ Answers(NoFrame)
  /\ UNCHANGED <<state, dl, pos>>

\* Seeded bug: the last frame is freed first.
HostOnRetransmitFreed ==
  /\ Reads({"RETRANSMIT"})
  /\ Answers(NoFrame)
  /\ UNCHANGED <<state, dl, pos>>

HostOnRetransmit ==
  /\ Reads({"RETRANSMIT"})
  /\ Answers(Digest)
  /\ UNCHANGED <<state, dl, pos>>

HostOnEnd ==
  /\ Reads({"END"})
  /\ state' = "FINISH"
  /\ Answers(NoFrame)
  /\ UNCHANGED <<dl, pos>>

\* The check leaves command_digest NULL, and it is read all the same.
HostOnOther ==
  /\ Reads((Cmd \cup {"REST"}) \ Accepted)
  /\ state' = "crashed"
  /\ digest' = Digest /\ toClient' = toClient \o Greeting
  /\ UNCHANGED <<dl, pos>>

\* The rest of a frame is too short for a header, or what is taken for one announces
\* bytes that never come.
HostWaitsForRest ==
  /\ Reads({"REST"})
  /\ state' = "hung"
  /\ digest' = Digest /\ toClient' = toClient \o Greeting
  /\ UNCHANGED <<dl, pos>>

\* More bytes arrive in the read that waits.
HostOnMore ==
  /\ state = "hung" /\ toHost # <<>>
  /\ toHost' = <<>>
  /\ state' \in {"hung", "crashed"}
  /\ UNCHANGED <<boot, file, pos, dl, digest, toClient, clientVars, lost, odd>>

HostReceives ==
  \/ HostOnHello
  \/ HostOnParamReq
  \/ HostOnBlockReq
  \/ HostRefusesBlock
  \/ HostOnRetransmit
  \/ HostOnEnd
  \/ HostOnOther
  \/ HostWaitsForRest
  \/ HostOnMore

----------------------------------------------------------------------------
(* The client *)

\* What the client asks for in each state, "hello" included.
Request ==
  CASE client.st = "hello" -> Hello
    [] client.st = "param" -> ParamReq(client.bs)
    [] OTHER -> BlockReq(client.want)

crx == Head(toClient)

ClientTakes ==
  /\ toClient # <<>>
  /\ toClient' = Tail(toClient)
  /\ UNCHANGED <<hostVars, lost, odd>>

ClientSends(frames) == toHost' = toHost \o frames

\* A greeting is answered as long as nothing was asked for.
ClientOnHostHello ==
  /\ ClientTakes
  /\ crx.cmd = "HOST_HELLO" /\ client.st \in {"idle", "hello"}
  /\ client' = [client EXCEPT !.st = "hello", !.asked = FALSE]
  /\ ClientSends(<<Hello>>)
  /\ UNCHANGED img

ClientOnBootApp ==
  /\ ClientTakes
  /\ crx.cmd = "BOOT_APP" /\ client.st = "hello"
  /\ client' = [client EXCEPT !.st = "done"]
  /\ ClientSends(<<End>>)
  /\ UNCHANGED img

\* The partition is erased.
ClientOnDlReq ==
  /\ ClientTakes
  /\ crx.cmd = "DOWNLOAD_REQ" /\ client.st = "hello"
  /\ client' = [client EXCEPT !.st = "param", !.asked = FALSE]
  /\ img' = <<>>
  /\ ClientSends(<<ParamReq(client.bs)>>)

\* The next block is asked for, or the end is signalled.
NextOrEnd(n, blocks) == IF n = blocks THEN <<End>> ELSE <<BlockReq(n)>>

ClientContinues(n, blocks) ==
  /\ client' = [client EXCEPT !.st = IF n = blocks THEN "done" ELSE "block",
                              !.want = n, !.blocks = blocks, !.asked = FALSE]
  /\ ClientSends(NextOrEnd(n, blocks))

ClientOnParamRes ==
  /\ ClientTakes
  /\ crx.cmd = "DOWNLOAD_PARAM_RES" /\ client.st = "param"
  /\ ClientContinues(0, crx.nbr)
  /\ UNCHANGED img

ClientOnBlockRes ==
  /\ ClientTakes
  /\ crx.cmd = "DOWNLOAD_BLOCK_RES" /\ client.st = "block" /\ crx.nbr = client.want
  /\ ClientContinues(client.want + 1, client.blocks)
  /\ img' = img \o crx.data

\* The frame is the answer the client waits for.
Awaited ==
  \/ client.st \in {"idle", "hello"} /\ crx.cmd = "HOST_HELLO"
  \/ client.st = "hello" /\ crx.cmd \in {"BOOT_APP", "DOWNLOAD_REQ"}
  \/ client.st = "param" /\ crx.cmd = "DOWNLOAD_PARAM_RES"
  \/ client.st = "block" /\ crx.cmd = "DOWNLOAD_BLOCK_RES" /\ crx.nbr = client.want

\* An old frame that comes back when a retransmission was asked for shows that the
\* request was lost: it is repeated.  Any other is dropped.
ClientOnOld ==
  /\ ClientTakes
  /\ ~Awaited
  /\ ClientSends(IF client.asked THEN <<Request>> ELSE <<>>)
  /\ client' = [client EXCEPT !.asked = FALSE]
  /\ UNCHANGED img

ClientReceives ==
  \/ ClientOnHostHello
  \/ ClientOnBootApp
  \/ ClientOnDlReq
  \/ ClientOnParamRes
  \/ ClientOnBlockRes
  \/ ClientOnOld

\* Nothing has come for a while.
ClientTimesOut ==
  /\ client.st \in {"hello", "param", "block"}
  /\ ClientSends(<<Retransmit>>)
  /\ client' = [client EXCEPT !.asked = TRUE]
  /\ UNCHANGED <<hostVars, toClient, img, lost>>

QuietLine == toHost = <<>> /\ toClient = <<>>

ClientAsksAgain == ClientTimesOut /\ QuietLine /\ UNCHANGED odd

ClientIsHasty ==
  /\ "hasty" \in Faults
  /\ ClientTimesOut /\ ~QuietLine
  /\ Len(toHost) + Len(toClient) < MaxLine
  /\ odd' = odd \cup {"hasty"}

\* The RAM of the client is lost, its partition is not.  A client that has reached its
\* END has left the protocol: it comes back to another run of the host.
ClientResets ==
  /\ "reset" \in Faults /\ client.st \in {"hello", "param", "block"}
  /\ Len(toHost) + Len(toClient) < MaxLine
  /\ client' = [client EXCEPT !.st = "hello", !.want = 0, !.blocks = 0, !.asked = FALSE]
  /\ ClientSends(<<Hello>>)
  /\ odd' = odd \cup {"reset"}
  /\ UNCHANGED <<hostVars, toClient, img, lost>>

ClientFails ==
  /\ "error" \in Faults /\ client.st \in {"param", "block"}
  /\ Len(toHost) + Len(toClient) < MaxLine
  /\ client' = [client EXCEPT !.st = "done"]
  /\ ClientSends(<<Error>>)
  /\ odd' = odd \cup {"error"}
  /\ UNCHANGED <<hostVars, toClient, img, lost>>

----------------------------------------------------------------------------
(* The line *)

LoseToHost ==
  /\ lost < MaxLost /\ toHost # <<>>
  /\ toHost' = Tail(toHost)
  /\ lost' = lost + 1
  /\ Without(<<rx>>)
  /\ UNCHANGED <<hostVars, toClient, clientVars>>

LoseToClient ==
  /\ lost < MaxLost /\ toClient # <<>>
  /\ toClient' = Tail(toClient)
  /\ lost' = lost + 1
  /\ UNCHANGED <<hostVars, toHost, clientVars, odd>>

----------------------------------------------------------------------------
NoDownload == [total_block_nbr |-> 0, actual_block_nbr |-> 0, block_size |-> 0]

BInit ==
  /\ boot \in BOOLEAN
  /\ file \in IF boot THEN {<<>>} ELSE Files
  /\ pos = 0 /\ state = "INIT" /\ dl = NoDownload /\ digest = NoFrame
  /\ toHost = <<>> /\ toClient = <<>>
  /\ client \in [st : {"idle"}, want : {0}, blocks : {0}, bs : BlockSizes, asked : {FALSE}]
  /\ img = <<>> /\ lost = 0 /\ odd = {}

BNext ==
  \/ Greets \/ HostReceives
  \/ ClientReceives \/ ClientAsksAgain \/ ClientIsHasty
  \/ ClientResets \/ ClientFails
  \/ LoseToHost \/ LoseToClient

BSpec == BInit /\ [][BNext]_bvars

\* The host polls its port; the client takes what comes, and asks again.
BFairSpec ==
  /\ BSpec
  /\ WF_bvars(Greets) /\ WF_bvars(HostReceives)
  /\ WF_bvars(ClientReceives) /\ WF_bvars(ClientAsksAgain)

----------------------------------------------------------------------------
\* Every frame, counter and state has its type.
BTypeOK ==
  /\ boot \in BOOLEAN /\ file \in Seq(Byte) /\ pos \in 0..Len(file)
  /\ state \in {"INIT", "READY", "FINISH", "crashed", "hung"}
  /\ dl \in [total_block_nbr : Nat, actual_block_nbr : Nat, block_size : Nat]
  /\ digest \in Frame \cup {NoFrame}
  /\ toHost \in Seq(Frame) /\ toClient \in Seq(Frame)
  /\ client \in [st : {"idle", "hello", "param", "block", "done"}, want : Nat,
                 blocks : Nat, bs : BlockSizes, asked : BOOLEAN]
  /\ img \in Seq(Byte) /\ lost \in 0..MaxLost
  /\ odd \subseteq FaultKinds \cup {"no end"}

\* A block carries the bytes of the file that its number names, however often frames
\* are lost, asked for again or sent twice: the file and the block counter only part
\* when a client that was reset asks for the parameters of a second download.
BlockOfFile ==
  "reset" \notin odd =>
    \A k \in DOMAIN toClient : toClient[k].cmd = "DOWNLOAD_BLOCK_RES" =>
      LET n == toClient[k].nbr IN
      toClient[k].data = SubSeq(file, n * client.bs + 1,
                                Smaller((n + 1) * client.bs, Len(file)))

\* "Operation complete!" means that the client's partition holds the file, even when
\* the client was reset in the middle of it: the blocks the host then numbers anew run
\* out before the client has all it was told to ask for.
CompleteIsWhole ==
  [][state # "FINISH" /\ state' = "FINISH" /\ ~boot => img = file]_bvars

\* A client that asks for a retransmission only when nothing is on its way gets its
\* download, or its boot, to the end, whichever frames are lost, its END excepted.
OperationCompletes == <>(state = "FINISH" \/ odd # {})

\* An error the client reports is shown to the operator, and the host goes on: it is
\* not stopped by a frame it does not accept.
HostSurvives == state # "crashed"

=============================================================================
