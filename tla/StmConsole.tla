----------------------------- MODULE StmConsole -----------------------------
(***************************************************************************)
(* The receive path of a device with an STM32F4:                           *)
(* libs/ezm_api_console/arch/st/stm32f4xx/ezm_console_arch_stm32f4xx.c.    *)
(* The line and the steps that open a window and hand over the buffer are  *)
(* those of SlConsole.  The timeout is its own: it stops when it is read   *)
(* as reached, and reading it takes two steps, the tick and the start,     *)
(* between which the interrupt may start it again.                         *)
(***************************************************************************)
EXTENDS SlConsole

VARIABLE due  \* what the subtraction of start_time from the tick the main loop has
              \* read will say: "no", "yes", or "wrapped", when start_time has
              \* become later than that tick

tvars == <<svars, due>>

Passes(A) == A /\ UNCHANGED due

\* tmo is "stopped" when console_timeout.running is false.
----------------------------------------------------------------------------
(* HAL_UART_RxCpltCallback *)

StmIsrCompletes ==
  /\ Receives
  /\ tmo = "expired"
  /\ tmo' = "stopped"
  /\ armed' = FALSE /\ st' = "RECV_COMPLETE"
  /\ UNCHANGED <<open, due>>

\* Seeded bug: the timeout is not started again.
StmIsrRearmsOnly ==
  /\ Receives
  /\ tmo # "expired"
  /\ UNCHANGED <<armed, st, tmo, open, due>>

\* The timeout is started again, at the tick the main loop has read or at a later one.
StmIsrRearms ==
  /\ Receives
  /\ tmo # "expired"
  /\ tmo' = "fresh"
  /\ due' \in CASE pc # "tick" -> {due}
              [] due = "wrapped" -> {"wrapped"}
              [] OTHER -> {"no", "wrapped"}
  /\ UNCHANGED <<armed, st, open>>

StmIsrFails ==
  /\ Receives
  /\ tmo # "expired" /\ UartFails
  /\ armed' = FALSE /\ st' = "ERROR"
  /\ open' = (open /\ pc # "window")
  /\ UNCHANGED <<tmo, due>>

StmIsr == StmIsrCompletes \/ StmIsrRearms \/ StmIsrFails

----------------------------------------------------------------------------
(* ezm_console_arch_common_comm_channel_receive *)

\* LISTEN, as in SlConsole, and then ezm_console_timeout_read, whatever the state has
\* become: the timeout is not running, ...
NotRunning ==
  /\ Step("window", "call")
  /\ tmo = "stopped"
  /\ UNCHANGED <<st, buf, armed, tmo, given, taken, due>>

\* ... or HAL_GetTick is called, ...  (C lets the compiler read the start first, with
\* which no subtraction wraps: due is then never "wrapped".)
ReadsTick ==
  /\ Step("window", "tick")
  /\ tmo # "stopped"
  /\ due' = IF tmo = "expired" THEN "yes" ELSE "no"
  /\ UNCHANGED <<st, buf, armed, tmo, given, taken>>

\* ... and subtracts the start of the timeout as it is then.
NotReached ==
  /\ Step("tick", "call")
  /\ due = "no"
  /\ UNCHANGED <<st, buf, armed, tmo, given, taken, due>>

Reached ==
  /\ Step("tick", "abort")
  /\ due # "no"
  /\ tmo' = "stopped"
  /\ UNCHANGED <<st, buf, armed, given, taken, due>>

\* HAL_UART_AbortReceive_IT, whose result is not looked at.
StmAborts ==
  /\ Step("abort", "get")
  /\ armed' = FALSE
  /\ UNCHANGED <<st, buf, tmo, given, taken, due>>

\* ezm_console_copy_console_buffer_to_user_buffer leaves the index alone.
StmGets ==
  /\ Step("get", "ready")
  /\ given' = buf
  /\ taken' = Accepts(buf)
  /\ UNCHANGED <<st, buf, armed, tmo, due>>

\* default: as in ezm_console_recv_data; and RECV_COMPLETE.
StmOpens == Passes(Resets \/ Arms \/ ArmFails \/ Listens \/ StartsTimer)

StmHandsOver ==
  \/ Passes(ReceptionOver)
  \/ Readies /\ due' = "no"

StmMain ==
  \/ Passes(SeesListening) \/ NotRunning \/ ReadsTick \/ NotReached \/ Reached
  \/ StmAborts \/ StmGets \/ StmOpens \/ StmHandsOver

----------------------------------------------------------------------------
\* ezm_console_arch_common_comm_channel_init has run.
TInit == SInitLine /\ tmo = "stopped" /\ due = "no"

TNext ==
  \/ Passes(HostSends \/ ByteArrives \/ Expires)
  \/ StmIsr
  \/ StmMain

TSpec == TInit /\ [][TNext]_tvars

TFairSpec ==
  /\ TSpec
  /\ WF_tvars(StmIsr) /\ WF_tvars(StmMain)
  /\ WF_tvars(Passes(Expires)) /\ WF_tvars(Passes(ByteArrives))
  /\ SF_tvars(Passes(Arms))

----------------------------------------------------------------------------
\* A buffer with the beginning of a frame that found the console listening holds it
\* whole and alone, but for the subtraction that wraps and for the refused receive that
\* WholeWhenListening names: an interrupt that stops the
\* timeout, starts it again under a main loop that is about to abort, or meets a
\* window that is being opened, cuts none.
WholeUnlessWrapped ==
  pc = "ready" /\ due # "wrapped" /\ open /\ (\E k \in DOMAIN given : given[k] = Byte(sent, 1))
    => given = Frame(sent)

\* ezm_console_timeout_read promises "true: timeout reached": the main loop never
\* ends a reception whose timeout is running and has not been reached.  (The code
\* does when the interrupt restarts it between the two readings it subtracts.)
TrueWhenReached ==
  [][pc = "tick" /\ pc' = "abort" => tmo \in {"expired", "stopped"}]_tvars

============================================================================
