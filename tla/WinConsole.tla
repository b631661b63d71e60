----------------------------- MODULE WinConsole -----------------------------
(***************************************************************************)
(* The receive path of the Windows host:                                   *)
(* libs/ezm_api_console/arch/os/win/ezm_console_arch_win.c.  uart_thread   *)
(* reads the port and pushes chunks into a ring; the parser thread takes   *)
(* bytes out of it, finds frames and offers one at a time in output_buf;   *)
(* the main thread collects it in ezm_console_arch_receive_async.          *)
(* A byte is named by its frame and its place in it; what the parser reads *)
(* in a byte is a function of that name.                                   *)
(***************************************************************************)
EXTENDS Integers, Sequences

CONSTANTS
  Size,       \* CONSOLE_ARCH_BUF_SIZE
  Chunk,      \* sizeof(temp), what one ReadFile returns at most
  Lengths,    \* the lengths of the frames the device sends
  Lookalikes, \* the places, after the first, that hold 0x55 in every frame
  MaxFrames,  \* bound: how many frames the device sends
  MaxLost     \* bound: how many bytes the line loses

ASSUME WinAssumption ==
  /\ Size \in Nat \ {0} /\ Chunk \in Nat \ {0}
  /\ Lengths \subseteq 6..(Size - 1)
  /\ Lookalikes \subseteq Nat \ (0..3)
  /\ MaxFrames \in Nat /\ MaxLost \in Nat

VARIABLES
  len,       \* the length of each frame sent
  line,      \* bytes sent that ReadFile has not returned
  lost,      \* history: the bytes the line lost
  temp,      \* bytes uart_thread has read and not yet pushed; it holds rx_lock
             \* as long as there are any
  rx_buf, rx_head, rx_tail,  \* the ring
  seen,      \* the parser found rx_head # rx_tail and is about to take a byte
  state,     \* the parser's state
  out,       \* output_buf up to output_index
  expected,  \* expected_len
  pending,   \* output_buf is offered to the main thread
  copy,      \* what memcpy took from it, until pending is cleared
  taken      \* history: the frames that passed the driver's validation

portVars == <<len, line, lost>>
ringVars == <<temp, rx_buf, rx_head, rx_tail>>
parserVars == <<seen, state, out, expected>>
mainVars == <<copy, taken>>
wvars == <<portVars, ringVars, parserVars, pending, mainVars>>

Byte(f, k) == [frame |-> f, at |-> k]
FrameBytes(f, n) == [k \in 1..n |-> Byte(f, k - 1)]
NoByte == Byte(0, 0)

IsSync(x) == x.at = 0 \/ x.at \in Lookalikes   \* the byte is 0x55

----------------------------------------------------------------------------
(* The device and the line *)

Unread == (rx_head - rx_tail) % Size

Outstanding == Unread + Len(temp) + Len(line)

\* A frame and the one before it differ in length, if there is more than one length,
\* as the response to a download request and the block request behind it do.
Alternate(n) == n \in Lengths /\ (Len(len) > 0 /\ len[Len(len)] = n => Lengths = {n})

\* The device waits for an answer after its frames: what is on its way fits the
\* ring, as these two short frames do.
DeviceSends(n) ==
  /\ Alternate(n)
  /\ Len(len) < MaxFrames
  /\ Outstanding + n < Size
  /\ len' = Append(len, n)
  /\ line' = line \o FrameBytes(Len(len) + 1, n)
  /\ UNCHANGED <<lost, ringVars, parserVars, pending, mainVars>>

LoseByte ==
  /\ line # <<>> /\ Len(lost) < MaxLost
  /\ lost' = Append(lost, Head(line))
  /\ line' = Tail(line)
  /\ UNCHANGED <<len, ringVars, parserVars, pending, mainVars>>

----------------------------------------------------------------------------
(* uart_thread *)

ReadFile ==
  /\ temp = <<>>
  /\ \E n \in 1..Chunk :
       /\ n <= Len(line)
       /\ temp' = SubSeq(line, 1, n)
       /\ line' = SubSeq(line, n + 1, Len(line))
  /\ UNCHANGED <<len, lost, rx_buf, rx_head, rx_tail, parserVars, pending, mainVars>>

Advanced(i) == (i + 1) % Size

\* One iteration of rx_push.  Nothing checks that rx_head does not reach rx_tail.
PushByte ==
  /\ temp # <<>>
  /\ rx_buf' = [rx_buf EXCEPT ![rx_head] = Head(temp)]
  /\ rx_head' = Advanced(rx_head)
  /\ temp' = Tail(temp)
  /\ UNCHANGED <<portVars, rx_tail, parserVars, pending, mainVars>>

----------------------------------------------------------------------------
(* parse_rx *)

\* Seeded bug: the parser does not ask whether there is a byte.
SeesByteUnchecked ==
  /\ ~seen /\ state # "OFFERED"
  /\ seen' = TRUE
  /\ UNCHANGED <<portVars, ringVars, state, out, expected, pending, mainVars>>

\* rx_head is read without the lock, in the middle of a push too.
SeesByte ==
  /\ ~seen /\ state # "OFFERED"
  /\ rx_head # rx_tail
  /\ seen' = TRUE
  /\ UNCHANGED <<portVars, ringVars, state, out, expected, pending, mainVars>>

rxByte == rx_buf[rx_tail]

\* EnterCriticalSection waits for the end of a push.  (What the parser does after
\* ReadFile returned and before the push locks, it can as well do before.)
TakesByte ==
  /\ seen /\ temp = <<>>
  /\ seen' = FALSE
  /\ rx_tail' = Advanced(rx_tail)
  /\ UNCHANGED <<portVars, temp, rx_buf, rx_head, mainVars>>

WaitSync ==
  /\ state = "WAIT_SYNC" /\ TakesByte
  /\ IF IsSync(rxByte)
       THEN out' = <<rxByte>> /\ state' = "WAIT_LEN"
       ELSE UNCHANGED <<out, state>>
  /\ UNCHANGED <<expected, pending>>

\* The length in bytes 2 and 3 of output_buf: of two bytes that are not the length
\* of one frame it may be anything.
LengthRead(o) ==
  IF \E f \in DOMAIN len : o[3] = Byte(f, 2) /\ o[4] = Byte(f, 3)
    THEN {len[o[3].frame]} ELSE 0..Size

WaitLen ==
  /\ state = "WAIT_LEN" /\ TakesByte
  /\ out' = Append(out, rxByte)
  /\ IF Len(out') > 4
       THEN state' = "WAIT_PAYLOAD" /\ expected' \in LengthRead(out')
       ELSE UNCHANGED <<state, expected>>
  /\ UNCHANGED pending

\* Seeded bug: the last byte is not waited for.
CompleteEarly(o) == Len(o) + 1 >= expected

Complete(o) == Len(o) >= expected

\* While output_buf is offered the parser sleeps and looks at pending again.
WaitPayload ==
  /\ state = "WAIT_PAYLOAD" /\ TakesByte
  /\ out' = Append(out, rxByte)
  /\ IF Complete(out')
       THEN pending' = TRUE /\ state' = "OFFERED"
       ELSE UNCHANGED <<pending, state>>
  /\ UNCHANGED expected

\* Seeded bug: the parser goes on after a while, though nobody took the frame.
ResumeUnasked ==
  /\ state = "OFFERED"
  /\ state' = "WAIT_SYNC"
  /\ UNCHANGED <<portVars, ringVars, seen, out, expected, pending, mainVars>>

Resume ==
  /\ state = "OFFERED" /\ ~pending
  /\ state' = "WAIT_SYNC"
  /\ UNCHANGED <<portVars, ringVars, seen, out, expected, pending, mainVars>>

Parser == SeesByte \/ WaitSync \/ WaitLen \/ WaitPayload \/ Resume

----------------------------------------------------------------------------
(* The main thread: ezm_console_arch_receive_async, then the driver *)

Copies ==
  /\ copy = <<>> /\ pending
  /\ copy' = out
  /\ UNCHANGED <<portVars, ringVars, parserVars, pending, taken>>

\* ezm_pp_uart_validate_frame: only a whole frame has its length and a CRC of 0.
Validated(o) ==
  {f \in DOMAIN len : o = FrameBytes(f, len[f])}

\* Seeded bug: the frame stays on offer.
ClearsNothing ==
  /\ copy # <<>>
  /\ taken' = IF Validated(copy) = {} THEN taken
              ELSE Append(taken, CHOOSE f \in Validated(copy) : TRUE)
  /\ copy' = <<>>
  /\ UNCHANGED <<portVars, ringVars, parserVars, pending>>

Clears ==
  /\ copy # <<>>
  /\ pending' = FALSE
  /\ taken' = IF Validated(copy) = {} THEN taken
              ELSE Append(taken, CHOOSE f \in Validated(copy) : TRUE)
  /\ copy' = <<>>
  /\ UNCHANGED <<portVars, ringVars, parserVars>>

Main == Copies \/ Clears

----------------------------------------------------------------------------
WInit ==
  /\ len = <<>> /\ line = <<>> /\ lost = <<>>
  /\ temp = <<>> /\ rx_buf = [i \in 0..(Size - 1) |-> NoByte]
  /\ rx_head = 0 /\ rx_tail = 0
  /\ seen = FALSE /\ state = "WAIT_SYNC" /\ out = <<>> /\ expected = 0
  /\ pending = FALSE /\ copy = <<>> /\ taken = <<>>

Uart == ReadFile \/ PushByte

WNext ==
  \/ \E n \in Lengths : DeviceSends(n)
  \/ LoseByte
  \/ Uart \/ Parser \/ Main

WSpec == WInit /\ [][WNext]_wvars

\* Three threads that the operating system schedules; the main thread polls as
\* long as a command runs.
WFairSpec ==
  WSpec /\ WF_wvars(Uart) /\ WF_wvars(Parser) /\ WF_wvars(Main)

----------------------------------------------------------------------------
\* The two receivers of a byte stream agree on where it is: the bytes between tail
\* and head, the chunk and the line are the newest bytes sent, in order.
Unparsed ==
  [i \in 1..Unread |-> rx_buf[(rx_tail + i - 1) % Size]]
    \o temp \o line

RingKeepsOrder ==
  \A i \in 1..(Len(Unparsed) - 1) :
    LET x == Unparsed[i]  y == Unparsed[i + 1] IN
    x.frame < y.frame \/ (x.frame = y.frame /\ x.at < y.at)

\* While the main thread copies a frame the parser leaves output_buf alone.
CopyIsStable == copy # <<>> => pending /\ out = copy

\* A payload byte lost on the line (no other byte being 0x55) costs its frame and at
\* most the next, as long as no more bytes are lost than the shortest frame has: the
\* parser is back in step for the frame after.
Missing == {f \in 1..(IF taken = <<>> THEN 0 ELSE taken[Len(taken)]) :
              \A i \in DOMAIN taken : taken[i] # f}

FewLost ==
  /\ Lookalikes = {} /\ \A n \in Lengths : Len(lost) <= n
  /\ \A i \in DOMAIN lost : lost[i].at >= 4

LossCostsTwoFrames ==
  FewLost => \A f \in Missing : \E i \in DOMAIN lost : f \in {lost[i].frame, lost[i].frame + 1}

\* The receive path of the host is a lossless line, or a lossy one if bytes are lost.
Line == INSTANCE FrameLine WITH
  Lossy <- MaxLost > 0, sent <- Len(len), taken <- taken

ImplementsLine == Line!Spec

\* As long as the line loses nothing every frame sent is handed over.
EveryFrameTaken ==
  \A n \in 1..MaxFrames : Len(len) = n ~> (Len(taken) >= n \/ lost # <<>>)

============================================================================
