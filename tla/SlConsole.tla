----------------------------- MODULE SlConsole -----------------------------
(***************************************************************************)
(* The receive path of the device:                                         *)
(* libs/ezm_api_console/src/ezm_api_console.c on top of                    *)
(* arch/sl/siwg917x/ezm_console_arch_siwg917x.c.  One byte is received at  *)
(* a time; its interrupt arms the next and restarts a 100 ms timeout, and  *)
(* ezm_console_recv_data, called by the main loop, takes the buffer when   *)
(* the timeout has passed.  The interrupt comes between any two steps of   *)
(* the main loop and is not interrupted itself.                            *)
(***************************************************************************)
EXTENDS Integers, Sequences

CONSTANTS
  Length,      \* how many bytes a frame has
  Fifo,        \* how many bytes the UART holds while no receive is armed
  MaxFrames,   \* bound: how many frames the host sends
  UartFails    \* whether the UART may refuse a receive or an abort

ASSUME SlAssumption ==
  /\ Length \in Nat \ {0} /\ Fifo \in Nat \ {0} /\ MaxFrames \in Nat
  /\ UartFails \in BOOLEAN

VARIABLES
  sent,     \* how many frames the host has begun to send
  left,     \* how many bytes of the last of them are still to come
  held,     \* bytes in the UART
  st,       \* console_state
  buf,      \* console_buffer.data up to index
  armed,    \* a receive of one byte, at the end of buf, is in progress
  tmo,      \* console_listen_tmo: "fresh" since a byte, "old", or "expired"
  pc,       \* where the main loop is inside ezm_console_recv_data
  given,    \* the buffer ezm_console_recv_data last handed over
  taken,    \* history: the frames that passed the driver's validation
  open      \* history: the console was listening when the frame began, and no receive
            \* was refused while the main loop looked at its window

lineVars == <<sent, left, held>>
svars == <<lineVars, st, buf, armed, tmo, pc, given, taken, open>>

Byte(f, k) == [frame |-> f, at |-> k]
Frame(f) == [k \in 1..Length |-> Byte(f, k)]

LastTaken == IF taken = <<>> THEN 0 ELSE taken[Len(taken)]

----------------------------------------------------------------------------
(* The host and the UART *)

\* The host sends one frame and waits: for the answer, or, when it gets none, for
\* its operator, who takes longer than the console needs to hand over what it has.
HostSends ==
  /\ sent < MaxFrames
  /\ left = 0 /\ held = <<>>
  /\ LastTaken = sent \/ (tmo = "expired" /\ buf = <<>>)
  /\ sent' = sent + 1 /\ left' = Length
  /\ UNCHANGED <<held, st, buf, armed, tmo, pc, given, taken, open>>

\* The console waits for a frame, and its window is not over.
Listening == st = "LISTEN" /\ armed /\ tmo # "expired" /\ pc # "abort"

\* A byte that finds the UART full is lost, which the interrupts are fast enough to
\* prevent while a receive is armed.
ByteArrives ==
  /\ left > 0
  /\ ~(armed /\ Len(held) = Fifo)
  /\ left' = left - 1
  /\ held' = IF Len(held) < Fifo THEN Append(held, Byte(sent, Length - left + 1)) ELSE held
  /\ open' = IF left = Length THEN Listening ELSE open
  /\ tmo' = IF tmo = "fresh" THEN "old" ELSE tmo
  /\ UNCHANGED <<sent, st, buf, armed, pc, given, taken>>

\* The bytes of a frame follow each other in less than 100 ms: the timeout passes
\* when it was not restarted for one of them, or between frames.
Expires ==
  /\ tmo = "old" \/ (tmo = "fresh" /\ (left \in {0, Length} \/ ~armed))
  /\ ~(armed /\ held # <<>>)
  /\ tmo' = "expired"
  /\ UNCHANGED <<lineVars, st, buf, armed, pc, given, taken, open>>

----------------------------------------------------------------------------
(* ezm_console_arch_isr_handler, RECEIVE_COMPLETE *)

Receives ==
  /\ armed /\ held # <<>>
  /\ held' = Tail(held)
  /\ buf' = Append(buf, Head(held))
  /\ UNCHANGED <<sent, left, pc, given, taken>>

\* The window was over: no other byte is waited for.
IsrCompletes ==
  /\ Receives
  /\ tmo = "expired"
  /\ armed' = FALSE /\ st' = "RECV_COMPLETE"
  /\ UNCHANGED <<tmo, open>>

\* Seeded bug: the timeout is not restarted.
IsrRearmsOnly ==
  /\ Receives
  /\ tmo # "expired"
  /\ UNCHANGED <<armed, tmo, st, open>>

IsrRearms ==
  /\ Receives
  /\ tmo # "expired"
  /\ tmo' = "fresh"
  /\ UNCHANGED <<armed, st, open>>

IsrFails ==
  /\ Receives
  /\ tmo # "expired" /\ UartFails
  /\ armed' = FALSE /\ st' = "ERROR"
  /\ open' = (open /\ pc # "window")
  /\ UNCHANGED tmo

Isr == IsrCompletes \/ IsrRearms \/ IsrFails

----------------------------------------------------------------------------
(* ezm_console_recv_data, which returns to "call" *)

\* The step of the main loop from p to q, in the middle of which nothing happens.
Step(p, q) == pc = p /\ pc' = q /\ UNCHANGED <<lineVars, open>>

\* Seeded bug: the buffer is not reset.
ResetsNothing ==
  /\ Step("call", "arm")
  /\ st \in {"INIT", "READY"}
  /\ UNCHANGED <<buf, st, armed, tmo, given, taken>>

\* default: ezm_console_reset_buffer, ...
Resets ==
  /\ Step("call", "arm")
  /\ st \in {"INIT", "READY"}
  /\ buf' = <<>>
  /\ UNCHANGED <<st, armed, tmo, given, taken>>

\* ... ezm_console_arch_receive_async, ...
Arms ==
  /\ Step("arm", "listen")
  /\ armed' = TRUE
  /\ UNCHANGED <<st, buf, tmo, given, taken>>

ArmFails ==
  /\ Step("arm", "call") /\ UartFails
  /\ UNCHANGED <<st, buf, armed, tmo, given, taken>>

\* ... console_state, ...
Listens ==
  /\ Step("listen", "timer")
  /\ st' = "LISTEN"
  /\ UNCHANGED <<buf, armed, tmo, given, taken>>

\* Seeded bug: the timeout of the last window is kept.
StartsNoTimer ==
  /\ Step("timer", "call")
  /\ UNCHANGED <<st, buf, armed, tmo, given, taken>>

\* ... and the timeout, last of all.
StartsTimer ==
  /\ Step("timer", "call")
  /\ tmo' = "fresh"
  /\ UNCHANGED <<st, buf, armed, given, taken>>

\* LISTEN: console_state was read, ...
SeesListening ==
  /\ Step("call", "window")
  /\ st = "LISTEN"
  /\ UNCHANGED <<st, buf, armed, tmo, given, taken>>

\* ... and then the timeout, whatever the state has become.
WindowOpen ==
  /\ Step("window", "call")
  /\ tmo # "expired"
  /\ UNCHANGED <<st, buf, armed, tmo, given, taken>>

WindowOver ==
  /\ Step("window", "abort")
  /\ tmo = "expired"
  /\ UNCHANGED <<st, buf, armed, tmo, given, taken>>

\* Seeded bug: the receive in progress is not aborted.
AbortsNothing ==
  /\ Step("abort", "get")
  /\ UNCHANGED <<st, buf, armed, tmo, given, taken>>

Aborts ==
  /\ Step("abort", "get")
  /\ armed' = FALSE
  /\ UNCHANGED <<st, buf, tmo, given, taken>>

\* The console stays in its state, and aborts again in the next round.
AbortFails ==
  /\ Step("abort", "call") /\ UartFails
  /\ UNCHANGED <<st, buf, armed, tmo, given, taken>>

ReceptionOver ==
  /\ Step("call", "get")
  /\ st = "RECV_COMPLETE"
  /\ UNCHANGED <<st, buf, armed, tmo, given, taken>>

\* The driver accepts the buffer if it is a frame.
Accepts(data) ==
  IF \E f \in 1..sent : data = Frame(f) THEN Append(taken, data[1].frame) ELSE taken

\* ezm_console_get_buffer_data
Gets ==
  /\ Step("get", "ready")
  /\ given' = buf /\ buf' = <<>>
  /\ taken' = Accepts(buf)
  /\ UNCHANGED <<st, armed, tmo>>

Readies ==
  /\ Step("ready", "call")
  /\ st' = "READY"
  /\ UNCHANGED <<buf, armed, tmo, given, taken>>

Main ==
  \/ Resets \/ Arms \/ ArmFails \/ Listens \/ StartsTimer
  \/ SeesListening \/ WindowOpen \/ WindowOver \/ Aborts \/ AbortFails
  \/ ReceptionOver \/ Gets \/ Readies

----------------------------------------------------------------------------
SInitLine ==
  /\ sent = 0 /\ left = 0 /\ held = <<>>
  /\ st = "INIT" /\ buf = <<>> /\ armed = FALSE
  /\ pc = "call" /\ given = <<>> /\ taken = <<>> /\ open = FALSE

\* ezm_console_init has run; the timeout was never started.
SInit == SInitLine /\ tmo = "expired"

SNext == HostSends \/ ByteArrives \/ Expires \/ Isr \/ Main

SSpec == SInit /\ [][SNext]_svars

\* Interrupts are served, the main loop goes round, time passes, and a UART that
\* refuses a receive or an abort does not do so for ever.
SFairSpec ==
  /\ SSpec
  /\ WF_svars(Isr) /\ WF_svars(Main) /\ WF_svars(Expires) /\ WF_svars(ByteArrives)
  /\ SF_svars(Arms) /\ SF_svars(Aborts)

----------------------------------------------------------------------------
(* What the receive path promises *)

\* While the main loop copies the buffer and sets its index to 0, and until it arms
\* the next receive, no receive is in progress: no interrupt writes into the buffer
\* or moves its index under ezm_console_get_buffer_data or ezm_console_reset_buffer,
\* which nothing protects from it.
CopyUndisturbed == pc \in {"get", "ready", "arm"} => ~armed

\* A frame whose first byte found the console listening is handed over whole and
\* alone, however its bytes, their interrupts, the main loop and the timeout
\* interleave: one byte after the other restarts the timeout in time.  (A receive that
\* is refused ends it in EZM_CONSOLE_STATE_ERROR, where nothing is handed over; only
\* when that comes between the main loop's reading of the state and of the timeout,
\* and the timeout passes there, a part is.)
WholeWhenListening ==
  \A k \in DOMAIN given : given[k].frame = sent /\ open => given = Frame(sent)

\* The console never stops listening for good, whatever came in, in part or not at
\* all, and though receives and aborts are refused now and then: it waits for a frame
\* again and again, unless an interrupt could not arm the next receive, which leaves
\* it in EZM_CONSOLE_STATE_ERROR.
ListensAgain == []<>Listening \/ <>[](st = "ERROR")

\* The receive path of a device is a lossy line: what the driver accepts are frames
\* that were sent, in their order, and none twice.
Line == INSTANCE FrameLine WITH Lossy <- TRUE

ImplementsLine == Line!Spec

\* A reception ends after a silence of 100 ms, as EZM_CONSOLE_LISTEN_TIMEOUT_MS is
\* documented: what is handed over is never the beginning of a frame whose bytes
\* are still coming in.  (The code ends it at once when a byte comes in between the
\* end of a window and its abort, or before the timeout of a new one is started.)
EndsInSilence == [][given' # given /\ given' # <<>> => left = 0]_svars

============================================================================
