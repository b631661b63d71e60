----------------------------- MODULE MCConsole -----------------------------
(***************************************************************************)
(* The receive path of either device, SlConsole or StmConsole, for TLC:    *)
(* which of the two it is is chosen at the start.                          *)
(***************************************************************************)
EXTENDS StmConsole

VARIABLE hal  \* "sl" or "stm"

mcvars == <<tvars, hal>>

MCInit ==
  \/ SInit /\ due = "no" /\ hal = "sl"
  \/ TInit /\ hal = "stm"

Sl(A) == hal = "sl" /\ A /\ UNCHANGED <<due, hal>>
Stm(A) == hal = "stm" /\ A /\ UNCHANGED hal

\* SNext and TNext, spread out: TLC counts the steps of each action on its own.
SlNext ==
  \/ Sl(HostSends) \/ Sl(ByteArrives) \/ Sl(Expires)
  \/ Sl(IsrCompletes) \/ Sl(IsrRearms) \/ Sl(IsrFails)
  \/ Sl(Resets) \/ Sl(Arms) \/ Sl(ArmFails) \/ Sl(Listens) \/ Sl(StartsTimer)
  \/ Sl(SeesListening) \/ Sl(WindowOpen) \/ Sl(WindowOver) \/ Sl(Aborts) \/ Sl(AbortFails)
  \/ Sl(ReceptionOver) \/ Sl(Gets) \/ Sl(Readies)

StmNext ==
  \/ Stm(Passes(HostSends)) \/ Stm(Passes(ByteArrives)) \/ Stm(Passes(Expires))
  \/ Stm(StmIsrCompletes) \/ Stm(StmIsrRearms) \/ Stm(StmIsrFails)
  \/ Stm(Passes(SeesListening)) \/ Stm(NotRunning) \/ Stm(ReadsTick) \/ Stm(NotReached)
  \/ Stm(Reached) \/ Stm(StmAborts) \/ Stm(StmGets)
  \/ Stm(StmOpens) \/ Stm(StmHandsOver)

MCNext == SlNext \/ StmNext

MCSpec == MCInit /\ [][MCNext]_mcvars

\* The fairness of SFairSpec and of TFairSpec.
SlFair ==
  /\ WF_mcvars(Sl(Isr)) /\ WF_mcvars(Sl(Main))
  /\ WF_mcvars(Sl(Expires)) /\ WF_mcvars(Sl(ByteArrives))
  /\ SF_mcvars(Sl(Arms)) /\ SF_mcvars(Sl(Aborts))

StmFair ==
  /\ WF_mcvars(Stm(StmIsr)) /\ WF_mcvars(Stm(StmMain))
  /\ WF_mcvars(Stm(Passes(Expires))) /\ WF_mcvars(Stm(Passes(ByteArrives)))
  /\ SF_mcvars(Stm(Passes(Arms)))

MCFairSpec == MCSpec /\ SlFair /\ StmFair

\* On the SiWG917 a frame that found the console listening is handed over whole, with
\* no exception for the timing of interrupt, timeout and main loop.
SlWhole == hal = "sl" => WholeWhenListening

============================================================================
