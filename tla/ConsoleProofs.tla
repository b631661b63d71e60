---------------------------- MODULE ConsoleProofs ----------------------------
(***************************************************************************)
(* What the receive path of either device guarantees for every frame       *)
(* length, every UART, and any number of frames: nothing disturbs the copy *)
(* of the buffer, the path is a lossy line, and a frame that found the     *)
(* console listening is handed over whole.                                 *)
(*                                                                         *)
(* None of the three is inductive.  ControlInv says at which step of the   *)
(* main loop a receive may be in progress; OrderInv where the bytes of a   *)
(* frame may be; SlFate and StmFate what can become of a frame that found  *)
(* the console listening.                                                  *)
(***************************************************************************)
EXTENDS MCConsole, TLAPS

Bytes == [frame : Nat, at : Nat]

TypeInv ==
  /\ sent \in Nat /\ left \in 0..Length
  /\ held \in Seq(Bytes) /\ Len(held) <= Fifo
  /\ st \in {"INIT", "READY", "LISTEN", "RECV_COMPLETE", "ERROR"}
  /\ buf \in Seq(Bytes) /\ armed \in BOOLEAN
  /\ tmo \in {"fresh", "old", "expired", "stopped"}
  /\ pc \in {"call", "arm", "listen", "timer", "window", "tick", "abort", "get", "ready"}
  /\ given \in Seq(Bytes) /\ taken \in Seq(Nat) /\ open \in BOOLEAN
  /\ due \in {"no", "yes", "wrapped"} /\ hal \in {"sl", "stm"}

\* Where the main loop is, the console's state and the receive in progress.
ControlInv ==
  /\ CopyUndisturbed
  /\ st = "RECV_COMPLETE" => ~armed
  /\ pc = "call" /\ st \in {"INIT", "READY"} => ~armed
  /\ pc = "arm" => st \in {"INIT", "READY"}
  /\ pc = "listen" => st # "LISTEN"
  /\ pc \in {"timer", "window", "tick", "abort", "get"} => st \notin {"INIT", "READY"}

\* The buffer was handed over and is not yet reset.  (On the STM32F4 it keeps its
\* bytes for that long.)
Stale == pc = "ready" \/ (pc = "call" /\ st \in {"INIT", "READY"})

\* The bytes that are buffered, then the UART's, then those to come, follow each other
\* in the order they were sent in, and all are newer than the frame last taken.
OrderInv ==
  /\ \A k \in DOMAIN held : held[k].frame = sent /\ held[k].at \in 1..(Length - left)
  /\ \A i, j \in DOMAIN held : i < j => held[i].at < held[j].at
  /\ \A k \in DOMAIN buf :
       /\ buf[k].frame \in 1..sent
       /\ ~Stale => LastTaken < buf[k].frame
       /\ buf[k].frame = sent =>
            /\ buf[k].at \in 1..(Length - left)
            /\ \A j \in DOMAIN held : buf[k].at < held[j].at
  /\ LastTaken \in 0..sent
  /\ left > 0 \/ held # <<>> => LastTaken < sent
  /\ left = Length => held = <<>> /\ (~Stale => buf = <<>>)
  /\ pc = "arm" => buf = <<>>

----------------------------------------------------------------------------
\* A frame that found the console listening, of which a byte has arrived.
Begun == open /\ left < Length

\* Its bytes are all there, the first ones in the buffer and the others in the UART.
Received ==
  /\ Len(buf) + Len(held) = Length - left
  /\ \A k \in 1..Len(buf) : buf[k] = Byte(sent, k)
  /\ \A k \in 1..Len(held) : held[k] = Byte(sent, Len(buf) + k)

\* The console waits for more of it: the timeout has not passed, and when it is about
\* to, an interrupt that starts it again is pending.
Receiving ==
  /\ Received /\ st = "LISTEN" /\ armed
  /\ tmo # "expired" /\ (tmo = "old" => held # <<>>)

Whole == left = 0 /\ held = <<>> /\ buf = Frame(sent) /\ ~Stale

Dead == st = "ERROR" /\ ~armed /\ pc \in {"timer", "call", "tick"}

\* None of the bytes is of the last frame sent.
HasNone(data) == \A k \in DOMAIN data : data[k].frame < sent

\* The buffer handed over last.
GivenInv ==
  /\ \A k \in DOMAIN given : given[k].frame <= sent
  /\ left = Length => HasNone(given)

\* On the SiWG917 an interrupt that comes before an abort does not restart the timeout.
SlTmoInv ==
  hal = "sl" =>
    /\ due = "no" /\ pc # "tick" /\ tmo # "stopped"
    /\ pc = "abort" => tmo = "expired"

SlFate ==
  hal = "sl" /\ Begun =>
    \/ /\ HasNone(given)
       /\ (pc \in {"timer", "call", "window"} /\ Receiving) \/ Whole \/ Dead
    \/ left = 0 /\ held = <<>> /\ buf = <<>> /\ (HasNone(given) \/ given = Frame(sent))

\* On the STM32F4 the reading of the timeout may be under way.
StmTickInv ==
  hal = "stm" =>
    /\ pc = "tick" /\ due = "yes" => tmo = "expired" \/ ~armed
    /\ pc = "tick" /\ due = "wrapped" => buf # <<>>
    /\ pc \in {"call", "arm", "listen", "timer", "window"} => due # "wrapped"

HasNoFirst(data) == \A k \in DOMAIN data : data[k] # Byte(sent, 1)

StmReceiving ==
  Receiving /\ pc \in {"timer", "call", "window", "tick"} /\ (pc = "tick" => due = "no")
StmWhole == Whole /\ pc \in {"timer", "call", "window", "tick", "abort", "get"}
StmDead == Dead /\ (pc = "tick" => due = "no")
StmHandedOver == left = 0 /\ held = <<>> /\ pc = "ready" /\ given = Frame(sent)

\* The subtraction wrapped: the frame lost its first byte to a reception cut short.
StmCut ==
  /\ HasNoFirst(held)
  /\ \/ due = "wrapped"
     \/ (Stale \/ HasNoFirst(buf)) /\ (pc = "ready" => HasNoFirst(given))

StmFate ==
  hal = "stm" /\ Begun => StmReceiving \/ StmWhole \/ StmDead \/ StmHandedOver \/ StmCut

----------------------------------------------------------------------------
\* The steps of both devices, those they share first.
Shared ==
  HostSends \/ ByteArrives \/ Expires \/ Resets \/ Arms \/ ArmFails
    \/ Listens \/ StartsTimer \/ ReceptionOver \/ SeesListening

SlOnly ==
  IsrCompletes \/ IsrRearms \/ IsrFails \/ WindowOpen \/ WindowOver \/ Aborts \/ AbortFails
    \/ Gets \/ Readies

StmOnly ==
  StmIsrCompletes \/ StmIsrRearms \/ StmIsrFails \/ NotRunning \/ ReadsTick
    \/ NotReached \/ Reached \/ StmAborts \/ StmGets \/ (Readies /\ due' = "no")

\* A step is one both devices have, or one of the device's own.
LEMMA Steps ==
  ASSUME [MCNext]_mcvars
  PROVE  \/ Shared /\ UNCHANGED <<due, hal>>
         \/ hal = "sl" /\ SlOnly /\ UNCHANGED <<due, hal>>
         \/ hal = "stm" /\ StmOnly /\ UNCHANGED hal
         \/ UNCHANGED mcvars
BY DEF MCNext, SlNext, StmNext, Sl, Stm, Passes, StmOpens, StmHandsOver,
       Shared, SlOnly, StmOnly

\* The receive that is in progress.
LEMMA ControlNext ==
  ASSUME TypeInv, ControlInv, [MCNext]_mcvars
  PROVE  ControlInv'
<1> USE DEF TypeInv, ControlInv, CopyUndisturbed
<1>1. CASE Shared
  BY <1>1 DEF Shared, HostSends, ByteArrives, Expires, Resets, Arms, ArmFails, Listens,
              StartsTimer, ReceptionOver, SeesListening, Step, lineVars
<1>2. CASE SlOnly
  BY <1>2 DEF SlOnly, IsrCompletes, IsrRearms, IsrFails, WindowOpen, WindowOver, Aborts,
              AbortFails, Gets, Readies, Receives, Step, lineVars
<1>3. CASE StmOnly
  BY <1>3 DEF StmOnly, StmIsrCompletes, StmIsrRearms, StmIsrFails, NotRunning, ReadsTick,
              NotReached, Reached, StmAborts, StmGets, Readies, Receives, Step, lineVars
<1>4. CASE UNCHANGED mcvars
  BY <1>4 DEF mcvars, tvars, svars, lineVars
<1> QED
  BY <1>1, <1>2, <1>3, <1>4, Steps

\* What a byte that arrives does to the UART.
LEMMA HeldNext ==
  ASSUME TypeInv, ByteArrives
  PROVE  /\ held' \in Seq(Bytes) /\ Len(held') <= Fifo
         /\ left' = left - 1 /\ left' \in 0..Length
         /\ \/ Len(held) = Fifo /\ held' = held
            \/ held' = Append(held, Byte(sent, Length - left + 1))
<1>1. Byte(sent, Length - left + 1) \in Bytes
  BY SlAssumption DEF TypeInv, Byte, Bytes
<1> QED
  BY <1>1, SlAssumption DEF TypeInv, ByteArrives

\* What an interrupt does to the UART and to the buffer.
LEMMA ReceivesNext ==
  ASSUME TypeInv, Receives
  PROVE  /\ armed /\ held # <<>> /\ Head(held) = held[1]
         /\ held' \in Seq(Bytes) /\ Len(held) \in Nat \ {0} /\ Len(buf) \in Nat
         /\ Len(held') = Len(held) - 1 /\ Len(held') <= Fifo
         /\ \A k \in 1..Len(held') : held'[k] = held[k + 1]
         /\ buf' \in Seq(Bytes) /\ Len(buf') = Len(buf) + 1
         /\ \A k \in 1..Len(buf) : buf'[k] = buf[k]
         /\ buf'[Len(buf) + 1] = held[1]
<1>1. held # <<>> /\ held \in Seq(Bytes) /\ buf \in Seq(Bytes)
  BY DEF TypeInv, Receives
<1>2. Head(held) \in Bytes /\ Head(held) = held[1]
  BY <1>1
<1>3. /\ Len(held) \in Nat \ {0} /\ Len(buf) \in Nat
      /\ held' = Tail(held) /\ buf' = Append(buf, held[1]) /\ armed
  BY <1>1, <1>2 DEF Receives
<1>4. /\ held' \in Seq(Bytes) /\ Len(held') = Len(held) - 1
      /\ \A k \in 1..Len(held') : held'[k] = held[k + 1]
  BY <1>1, <1>3
<1>5. Len(held') <= Fifo
  BY <1>3, <1>4, SlAssumption DEF TypeInv
<1> QED
  BY <1>1, <1>2, <1>3, <1>4, <1>5

\* The start of the timeout is later than a tick only if one has been read.
LEMMA RearmDue ==
  ASSUME TypeInv, StmIsrRearms
  PROVE  \/ due' = due
         \/ pc = "tick" /\ due' \in {"no", "wrapped"} /\ due # "wrapped"
<1>1. CASE pc # "tick"
  BY <1>1 DEF StmIsrRearms
<1>2. CASE pc = "tick" /\ due = "wrapped"
  BY <1>2 DEF StmIsrRearms
<1>3. CASE pc = "tick" /\ due # "wrapped"
  BY <1>3 DEF StmIsrRearms
<1> QED
  BY <1>1, <1>2, <1>3

\* What the driver accepts is the oldest name of a frame the buffer holds.
LEMMA AcceptsNext ==
  ASSUME TypeInv
  PROVE  /\ Accepts(buf) \in Seq(Nat)
         /\ \/ Accepts(buf) = taken
            \/ \E f \in 1..sent : buf = Frame(f) /\ Accepts(buf) = Append(taken, f)
<1>1. CASE ~ \E f \in 1..sent : buf = Frame(f)
  BY <1>1 DEF Accepts, TypeInv
<1>2. CASE \E f \in 1..sent : buf = Frame(f)
  <2>1. PICK f \in 1..sent : buf = Frame(f)
    BY <1>2
  <2>2. buf[1].frame = f
    BY <2>1, SlAssumption DEF Frame, Byte
  <2>3. Accepts(buf) = Append(taken, f)
    BY <1>2, <2>2 DEF Accepts
  <2>4. f \in Nat /\ taken \in Seq(Nat)
    BY DEF TypeInv
  <2> QED
    BY <2>1, <2>3, <2>4
<1> QED
  BY <1>1, <1>2

\* Every variable keeps its type.
LEMMA TypeNext ==
  ASSUME TypeInv, [MCNext]_mcvars
  PROVE  TypeInv'
<1>1. CASE Shared /\ UNCHANGED <<due, hal>>
  <2>1. CASE HostSends
    BY <1>1, <2>1, SlAssumption DEF TypeInv, HostSends
  <2>2. CASE ByteArrives
    <3>1. open' \in BOOLEAN
      BY <2>2, Zenon DEF TypeInv, ByteArrives, Listening
    <3>2. tmo' \in {"fresh", "old", "expired", "stopped"}
      BY <2>2 DEF TypeInv, ByteArrives
    <3> QED
      BY <1>1, <2>2, <3>1, <3>2, HeldNext DEF TypeInv, ByteArrives
  <2>3. CASE Expires \/ Arms \/ ArmFails \/ Listens \/ StartsTimer \/ ReceptionOver
           \/ SeesListening
    BY <1>1, <2>3 DEF TypeInv, Expires, Arms, ArmFails, Listens, StartsTimer,
                      ReceptionOver, SeesListening, Step, lineVars
  <2>4. CASE Resets
    <3>1. buf' \in Seq(Bytes)
      BY <2>4 DEF Resets
    <3> QED
      BY <1>1, <2>4, <3>1 DEF TypeInv, Resets, Step, lineVars
  <2> QED
    BY <1>1, <2>1, <2>2, <2>3, <2>4 DEF Shared
<1>2. CASE hal = "sl" /\ SlOnly /\ UNCHANGED <<due, hal>>
  <2>1. CASE IsrCompletes \/ IsrRearms \/ IsrFails
    <3>1. Receives
      BY <2>1 DEF IsrCompletes, IsrRearms, IsrFails
    <3> QED
      BY <1>2, <2>1, <3>1, ReceivesNext, ZenonT(40)
      DEF TypeInv, IsrCompletes, IsrRearms, IsrFails, Receives
  <2>2. CASE Gets
    <3>1. taken' \in Seq(Nat)
      BY <2>2, AcceptsNext DEF TypeInv, Gets
    <3> QED
      BY <1>2, <2>2, <3>1 DEF TypeInv, Gets, Step, lineVars
  <2>3. CASE WindowOpen \/ WindowOver \/ Aborts \/ AbortFails \/ Readies
    BY <1>2, <2>3 DEF TypeInv, WindowOpen, WindowOver, Aborts, AbortFails, Readies, Step, lineVars
  <2> QED
    BY <1>2, <2>1, <2>2, <2>3 DEF SlOnly
<1>3. CASE hal = "stm" /\ StmOnly /\ UNCHANGED hal
  <2>1. CASE StmIsrCompletes \/ StmIsrRearms \/ StmIsrFails
    <3>1. Receives
      BY <2>1 DEF StmIsrCompletes, StmIsrRearms, StmIsrFails
    <3>2. due' \in {"no", "yes", "wrapped"}
      BY <2>1, RearmDue DEF TypeInv, StmIsrCompletes, StmIsrFails
    <3> QED
      BY <1>3, <2>1, <3>1, <3>2, ReceivesNext, ZenonT(40)
      DEF TypeInv, StmIsrCompletes, StmIsrRearms, StmIsrFails, Receives
  <2>2. CASE StmGets
    <3>1. taken' \in Seq(Nat)
      BY <2>2, AcceptsNext DEF TypeInv, StmGets
    <3> QED
      BY <1>3, <2>2, <3>1 DEF TypeInv, StmGets, Step, lineVars
  <2>3. CASE NotRunning \/ ReadsTick \/ NotReached \/ Reached \/ StmAborts
           \/ (Readies /\ due' = "no")
    BY <1>3, <2>3 DEF TypeInv, NotRunning, ReadsTick, NotReached, Reached, StmAborts, Readies,
                      Step, lineVars
  <2> QED
    BY <1>3, <2>1, <2>2, <2>3 DEF StmOnly
<1>4. CASE UNCHANGED mcvars
  BY <1>4 DEF TypeInv, mcvars, tvars, svars, lineVars
<1> QED
  BY <1>1, <1>2, <1>3, <1>4, Steps

----------------------------------------------------------------------------
\* The steps by their effect on the bytes: interrupts take one, the handover takes
\* the buffer, and the others move none.
AnyIsr ==
  IsrCompletes \/ IsrRearms \/ IsrFails \/ StmIsrCompletes \/ StmIsrRearms \/ StmIsrFails

Moves ==
  Expires \/ Arms \/ ArmFails \/ Listens \/ StartsTimer \/ ReceptionOver \/ SeesListening
    \/ WindowOpen \/ WindowOver \/ Aborts \/ AbortFails \/ Readies
    \/ NotRunning \/ ReadsTick \/ NotReached \/ Reached \/ StmAborts

\* Every step is one of these.
LEMMA ByteSteps ==
  ASSUME [MCNext]_mcvars
  PROVE  HostSends \/ ByteArrives \/ AnyIsr \/ Moves \/ Resets \/ Gets \/ StmGets
           \/ UNCHANGED mcvars
BY Steps DEF Shared, SlOnly, StmOnly, AnyIsr, Moves

\* An interrupt finds a buffer that was not handed over.
LEMMA IsrNotStale ==
  ASSUME TypeInv, ControlInv, AnyIsr
  PROVE  /\ Receives /\ ~Stale /\ pc # "arm"
         /\ UNCHANGED <<sent, left, pc, given, taken>> /\ (open' => open)
<1>1. Receives
  BY DEF AnyIsr, IsrCompletes, IsrRearms, IsrFails, StmIsrCompletes, StmIsrRearms,
         StmIsrFails
<1>2. open' => open
  BY DEF AnyIsr, IsrCompletes, IsrRearms, IsrFails, StmIsrCompletes, StmIsrRearms,
         StmIsrFails, TypeInv
<1>3. ~Stale /\ pc # "arm" /\ UNCHANGED <<sent, left, pc, given, taken>>
  BY <1>1 DEF Receives, TypeInv, ControlInv, CopyUndisturbed, Stale
<1> QED
  BY <1>1, <1>2, <1>3

\* A step that moves no byte forgets nothing about the buffer.
LEMMA MovesNext ==
  ASSUME TypeInv, ControlInv, Moves
  PROVE  /\ UNCHANGED <<sent, left, held, buf, given, taken, open>>
         /\ Stale => Stale'
         /\ Stale' => Stale \/ pc = "arm"
         /\ pc' = "arm" => pc = "arm"
BY DEF Moves, Expires, Arms, ArmFails, Listens, StartsTimer, ReceptionOver, SeesListening,
       WindowOpen, WindowOver, Aborts, AbortFails, Readies, NotRunning, ReadsTick, NotReached, Reached, StmAborts,
       Step, lineVars, TypeInv, ControlInv, CopyUndisturbed, Stale

\* The name of the frame taken last.
LEMMA LastTakenNext ==
  ASSUME TypeInv
  PROVE  /\ taken' = taken => LastTaken' = LastTaken
         /\ \A f \in Nat : taken' = Append(taken, f) => LastTaken' = f
BY DEF LastTaken, TypeInv

\* The bytes of a frame stay in order, and none that is older than the last frame
\* taken is left.
LEMMA OrderNext ==
  ASSUME TypeInv, ControlInv, OrderInv, [MCNext]_mcvars
  PROVE  OrderInv'
<1> USE DEF OrderInv
<1>1. CASE HostSends
  <2>1. LastTaken' = LastTaken /\ (Stale <=> Stale')
    BY <1>1, LastTakenNext DEF HostSends, Stale
  <2>2. ~Stale => buf = <<>>
    BY <1>1 DEF HostSends, TypeInv
  <2> QED
    BY <1>1, <2>1, <2>2, SlAssumption DEF HostSends, TypeInv
<1>2. CASE ByteArrives
  <2>1. /\ LastTaken' = LastTaken /\ (Stale <=> Stale')
        /\ UNCHANGED <<sent, buf, pc>>
    BY <1>2, LastTakenNext DEF ByteArrives, Stale
  <2>2. left > 0 /\ left' = left - 1
    BY <1>2 DEF ByteArrives
  <2>3. CASE held' = held
    BY <2>1, <2>2, <2>3, SlAssumption DEF TypeInv
  <2>4. CASE held' = Append(held, Byte(sent, Length - left + 1))
    <3>1. /\ Len(held') = Len(held) + 1
          /\ \A k \in 1..Len(held) : held'[k] = held[k]
          /\ held'[Len(held) + 1] = [frame |-> sent, at |-> Length - left + 1]
      BY <2>4 DEF TypeInv, Byte
    <3>2. DOMAIN held' = 1..(Len(held) + 1) /\ DOMAIN held = 1..Len(held)
      BY <3>1, HeldNext, <1>2 DEF TypeInv
    <3>3. /\ left \in 1..Length /\ Length \in Nat /\ sent \in Nat
          /\ Len(held) \in Nat /\ DOMAIN buf = 1..Len(buf)
      BY <2>2, SlAssumption DEF TypeInv
    <3>4. \A k \in DOMAIN held' :
            held'[k].frame = sent /\ held'[k].at \in 1..(Length - left')
      <4> SUFFICES ASSUME NEW k \in DOMAIN held'
                   PROVE  held'[k].frame = sent /\ held'[k].at \in 1..(Length - left')
        OBVIOUS
      <4>1. CASE k \in DOMAIN held
        BY <2>2, <3>1, <3>2, <3>3, <4>1
      <4>2. CASE k = Len(held) + 1
        BY <2>2, <3>1, <3>3, <4>2
      <4> QED
        BY <3>2, <3>3, <4>1, <4>2
    <3>5. \A m, n \in DOMAIN held' : m < n => held'[m].at < held'[n].at
      <4> SUFFICES ASSUME NEW m \in DOMAIN held', NEW n \in DOMAIN held', m < n
                   PROVE  held'[m].at < held'[n].at
        OBVIOUS
      <4>1. m \in DOMAIN held /\ held'[m].at \in 1..(Length - left)
        BY <3>1, <3>2, <3>3
      <4>2. CASE n \in DOMAIN held
        BY <3>1, <3>2, <4>1, <4>2
      <4>3. CASE n = Len(held) + 1
        BY <3>1, <3>3, <4>1, <4>3
      <4> QED
        BY <3>2, <3>3, <4>2, <4>3
    <3>6. \A k \in DOMAIN buf :
            buf[k].frame = sent =>
              /\ buf[k].at \in 1..(Length - left')
              /\ \A j \in DOMAIN held' : buf[k].at < held'[j].at
      <4> SUFFICES ASSUME NEW k \in DOMAIN buf, buf[k].frame = sent,
                          NEW j \in DOMAIN held'
                   PROVE  buf[k].at \in 1..(Length - left') /\ buf[k].at < held'[j].at
        BY <3>1, <3>2, <3>3
      <4>1. buf[k].at \in 1..(Length - left)
        OBVIOUS
      <4>2. CASE j \in DOMAIN held
        BY <2>2, <3>1, <3>2, <3>3, <4>1, <4>2
      <4>3. CASE j = Len(held) + 1
        BY <2>2, <3>1, <3>3, <4>1, <4>3
      <4> QED
        BY <3>2, <3>3, <4>2, <4>3
    <3> QED
      BY <2>1, <2>2, <3>3, <3>4, <3>5, <3>6
  <2> QED
    BY <1>2, <2>3, <2>4, HeldNext
<1>3. CASE AnyIsr
  <2>1. /\ LastTaken' = LastTaken /\ ~Stale /\ pc' # "arm"
        /\ UNCHANGED <<sent, left, pc>>
    BY <1>3, IsrNotStale, LastTakenNext
  <2>2. Receives
    BY <1>3, IsrNotStale
  <2>3. /\ held # <<>> /\ Len(held') = Len(held) - 1 /\ Len(buf') = Len(buf) + 1
        /\ \A k \in 1..Len(held') : held'[k] = held[k + 1]
        /\ \A k \in 1..Len(buf) : buf'[k] = buf[k]
        /\ buf'[Len(buf) + 1] = held[1]
    BY <2>2, ReceivesNext
  <2>4. /\ DOMAIN held = 1..Len(held) /\ DOMAIN buf = 1..Len(buf)
        /\ DOMAIN held' = 1..(Len(held) - 1) /\ DOMAIN buf' = 1..(Len(buf) + 1)
        /\ Len(held) \in Nat \ {0} /\ Len(buf) \in Nat /\ sent \in Nat
    BY <2>2, <2>3, ReceivesNext DEF TypeInv
  <2>5. /\ held[1].frame = sent /\ held[1].at \in 1..(Length - left)
        /\ \A k \in DOMAIN held' : held[1].at < held'[k].at
    <3>1. 1 \in DOMAIN held
      BY <2>4
    <3>2. \A k \in DOMAIN held' : k + 1 \in DOMAIN held /\ 1 < k + 1 /\ held'[k] = held[k + 1]
      BY <2>3, <2>4
    <3>3. \A k \in DOMAIN held' : held[1].at < held[k + 1].at
      BY <3>1, <3>2
    <3> QED
      BY <3>1, <3>2, <3>3
  <2>6. /\ \A k \in DOMAIN held' : held'[k].frame = sent /\ held'[k].at \in 1..(Length - left)
        /\ \A m, n \in DOMAIN held' : m < n => held'[m].at < held'[n].at
    <3>1. \A k \in DOMAIN held' : held'[k] = held[k + 1] /\ k + 1 \in DOMAIN held
      BY <2>3, <2>4
    <3>2. \A m, n \in DOMAIN held' : m < n => m + 1 < n + 1
      BY <2>4
    <3> QED
      BY <3>1, <3>2
  <2>7. ASSUME NEW k \in DOMAIN buf'
        PROVE  /\ buf'[k].frame \in 1..sent /\ LastTaken < buf'[k].frame
               /\ buf'[k].frame = sent =>
                    /\ buf'[k].at \in 1..(Length - left)
                    /\ \A j \in DOMAIN held' : buf'[k].at < held'[j].at
    <3>1. CASE k \in DOMAIN buf
      <4>1. buf'[k] = buf[k]
        BY <2>3, <2>4, <3>1
      <4>2. \A j \in DOMAIN held' : held'[j] = held[j + 1] /\ j + 1 \in DOMAIN held
        BY <2>3, <2>4
      <4> QED
        BY <2>1, <3>1, <4>1, <4>2
    <3>2. CASE k = Len(buf) + 1
      BY <2>1, <2>3, <2>4, <2>5, <3>2
    <3> QED
      BY <2>4, <3>1, <3>2
  <2>8. left # Length
    BY <2>3
  <2> QED
    BY <2>1, <2>3, <2>6, <2>7, <2>8
<1>4. CASE Moves
  <2>1. LastTaken' = LastTaken
    BY <1>4, MovesNext, LastTakenNext
  <2> QED
    BY <1>4, <2>1, MovesNext
<1>5. CASE Resets
  <2>1. LastTaken' = LastTaken /\ UNCHANGED <<sent, left, held>> /\ buf' = <<>>
    BY <1>5, LastTakenNext DEF Resets, Step, lineVars
  <2> QED
    BY <2>1
<1>6. CASE Gets \/ StmGets
  <2>1. /\ UNCHANGED <<sent, left, held>> /\ Stale' /\ ~Stale /\ pc' = "ready"
        /\ buf' \in {<<>>, buf} /\ taken' = Accepts(buf)
    BY <1>6 DEF Gets, StmGets, Step, lineVars, Stale
  <2>2. CASE taken' = taken
    <3>1. LastTaken' = LastTaken
      BY <2>2, LastTakenNext
    <3> QED
      BY <2>1, <3>1
  <2>3. CASE \E f \in 1..sent : buf = Frame(f) /\ taken' = Append(taken, f)
    <3>1. PICK f \in 1..sent : buf = Frame(f) /\ taken' = Append(taken, f)
      BY <2>3
    <3>2. LastTaken' = f
      BY <3>1, LastTakenNext DEF TypeInv
    <3>3. Length \in DOMAIN buf /\ buf[Length].frame = f /\ buf[Length].at = Length
      BY <3>1, SlAssumption DEF Frame, Byte
    <3>4. ASSUME f = sent PROVE left = 0 /\ held = <<>>
      <4>1. Length <= Length - left /\ left \in Nat /\ Length \in Nat
        BY <3>3, <3>4, SlAssumption DEF TypeInv
      <4>2. held # <<>> => 1 \in DOMAIN held
        BY DEF TypeInv
      <4>3. \A j \in DOMAIN held : Length < held[j].at /\ held[j].at <= Length - left
        BY <3>3, <3>4, <4>1
      <4> QED
        BY <4>1, <4>2, <4>3
    <3> QED
      BY <2>1, <3>2, <3>4 DEF TypeInv
  <2> QED
    BY <2>1, <2>2, <2>3, AcceptsNext
<1>7. CASE UNCHANGED mcvars
  BY <1>7 DEF mcvars, tvars, svars, lineVars, LastTaken, Stale
<1> QED
  BY <1>1, <1>2, <1>3, <1>4, <1>5, <1>6, <1>7, ByteSteps

----------------------------------------------------------------------------
(* A frame that found the console listening *)

\* While a receive is armed no byte that arrives is lost.
LEMMA ReceivingArrives ==
  ASSUME TypeInv, ByteArrives, Received, st = "LISTEN", armed, tmo # "expired"
  PROVE  Receiving' /\ left' < Length
<1>1. /\ UNCHANGED <<sent, buf, st, armed>>
      /\ left \in 1..Length /\ left' = left - 1
  BY SlAssumption DEF ByteArrives, TypeInv
<1>0. tmo' \in {"old", "stopped"}
  BY DEF ByteArrives, TypeInv
<1>2. /\ held' = Append(held, Byte(sent, Length - left + 1))
      /\ Byte(sent, Length - left + 1) \in Bytes
  BY <1>1, SlAssumption, HeldNext DEF ByteArrives, TypeInv, Byte, Bytes
<1>3. /\ Len(held) \in Nat /\ Len(buf) \in Nat
      /\ held' # <<>> /\ Len(held') = Len(held) + 1
      /\ \A k \in 1..Len(held) : held'[k] = held[k]
      /\ held'[Len(held) + 1] = Byte(sent, Length - left + 1)
  <2>1. held \in Seq(Bytes) /\ buf \in Seq(Bytes)
    BY DEF TypeInv
  <2> QED
    BY <1>2, <2>1
<1>4. Len(buf) + Len(held) = Length - left
  BY DEF Received
<1>5. \A k \in 1..Len(held') : held'[k] = Byte(sent, Len(buf) + k)
  <2> SUFFICES ASSUME NEW k \in 1..Len(held')
               PROVE  held'[k] = Byte(sent, Len(buf) + k)
    OBVIOUS
  <2>1. CASE k \in 1..Len(held)
    BY <1>3, <2>1 DEF Received
  <2>2. CASE k = Len(held) + 1
    <3>1. Length - left + 1 = Len(buf) + k
      BY <1>1, <1>3, <1>4, <2>2, SlAssumption
    <3> QED
      BY <1>3, <2>2, <3>1
  <2> QED
    BY <1>3, <2>1, <2>2
<1>6. Len(buf) + Len(held') = Length - left'
  BY <1>1, <1>3, <1>4, SlAssumption
<1>7. Received'
  BY <1>1, <1>3, <1>5, <1>6 DEF Received, Byte
<1> QED
  BY <1>0, <1>1, <1>3, <1>7, SlAssumption DEF Receiving

\* An interrupt moves a byte of the frame from the UART to the buffer.
LEMMA ReceivedIsr ==
  ASSUME TypeInv, Received, Receives, UNCHANGED <<sent, left>>
  PROVE  Received'
<1>1. /\ Len(held) \in Nat \ {0} /\ Len(buf) \in Nat
      /\ Len(held') = Len(held) - 1 /\ Len(buf') = Len(buf) + 1
      /\ \A k \in 1..Len(held') : held'[k] = held[k + 1]
      /\ \A k \in 1..Len(buf) : buf'[k] = buf[k]
      /\ buf'[Len(buf) + 1] = held[1]
  BY ReceivesNext
<1>2. \A k \in 1..Len(buf') : buf'[k] = Byte(sent, k)
  <2> SUFFICES ASSUME NEW k \in 1..Len(buf')
               PROVE  buf'[k] = Byte(sent, k)
    OBVIOUS
  <2>1. CASE k \in 1..Len(buf)
    BY <1>1, <2>1 DEF Received
  <2>2. CASE k = Len(buf) + 1
    BY <1>1, <2>2 DEF Received
  <2> QED
    BY <1>1, <2>1, <2>2
<1>3. \A k \in 1..Len(held') : held'[k] = Byte(sent, Len(buf') + k)
  <2> SUFFICES ASSUME NEW k \in 1..Len(held')
               PROVE  held'[k] = Byte(sent, Len(buf') + k)
    OBVIOUS
  <2>1. held'[k] = held[k + 1] /\ k + 1 \in 1..Len(held)
    BY <1>1
  <2>2. Len(buf') + k = Len(buf) + (k + 1)
    BY <1>1
  <2> QED
    BY <2>1, <2>2 DEF Received
<1>4. Len(buf') + Len(held') = Length - left
  <2>1. Len(buf) + Len(held) = Length - left
    BY DEF Received
  <2>2. Len(buf') = Len(buf) + 1 /\ Len(held') = Len(held) - 1
    BY <1>1
  <2>3. Len(buf) \in Nat /\ Len(held) \in Nat
    BY <1>1
  <2> QED
    BY <2>1, <2>2, <2>3
<1> QED
  BY <1>2, <1>3, <1>4 DEF Received, Byte

\* The timeout passes only after all bytes have come in.
LEMMA ReceivingExpires ==
  ASSUME TypeInv, Receiving, Expires, left < Length
  PROVE  left = 0 /\ held = <<>> /\ buf = Frame(sent)
<1>1. held = <<>> /\ left = 0
  BY DEF TypeInv, Receiving, Expires
<1>2. Len(buf) = Length /\ \A k \in 1..Length : buf[k] = Byte(sent, k)
  BY <1>1, SlAssumption DEF Receiving, Received, TypeInv
<1>3. buf = [k \in 1..Length |-> buf[k]]
  BY <1>2 DEF TypeInv
<1> QED
  BY <1>1, <1>2, <1>3 DEF Frame

\* The first byte of a frame that finds the console listening is the first of all.
LEMMA FirstByte ==
  ASSUME TypeInv, ControlInv, OrderInv, ByteArrives, left = Length, open'
  PROVE  /\ Receiving' /\ left' < Length /\ pc' = pc /\ buf = <<>> /\ ~Stale
         /\ pc \in {"call", "timer", "window", "tick"} /\ armed /\ tmo # "expired"
<1>1. Listening
  BY DEF ByteArrives
<1>2. ~Stale /\ pc \in {"call", "timer", "window", "tick"}
  BY <1>1 DEF Listening, Stale, TypeInv, ControlInv, CopyUndisturbed
<1>3. buf = <<>> /\ held = <<>>
  BY <1>2 DEF OrderInv
<1>4. Received
  BY <1>3, SlAssumption DEF Received
<1>5. st = "LISTEN" /\ armed /\ tmo # "expired"
  BY <1>1 DEF Listening
<1> QED
  BY <1>2, <1>3, <1>4, <1>5, ReceivingArrives DEF ByteArrives

----------------------------------------------------------------------------
(* The SiWG917 *)

\* The timeout that was found to be over stays so until the abort.
LEMMA SlTmoNext ==
  ASSUME TypeInv, SlTmoInv, [MCNext]_mcvars
  PROVE  SlTmoInv'
<1> USE DEF TypeInv, SlTmoInv
<1>1. CASE Shared /\ UNCHANGED <<due, hal>>
  BY <1>1 DEF Shared, HostSends, ByteArrives, Expires, Resets, Arms, ArmFails, Listens,
              StartsTimer, ReceptionOver, SeesListening, Step, lineVars
<1>2. CASE hal = "sl" /\ SlOnly /\ UNCHANGED <<due, hal>>
  BY <1>2 DEF SlOnly, IsrCompletes, IsrRearms, IsrFails, WindowOpen, WindowOver, Aborts,
              AbortFails, Gets, Readies, Receives, Step, lineVars
<1>3. CASE UNCHANGED mcvars
  BY <1>3 DEF mcvars, tvars, svars, lineVars
<1> QED
  BY <1>1, <1>2, <1>3, Steps

SlMoves ==
  Expires \/ Arms \/ ArmFails \/ Listens \/ StartsTimer \/ ReceptionOver \/ SeesListening
    \/ WindowOpen \/ WindowOver \/ Aborts \/ AbortFails \/ Readies

\* Every step of this device is one of these.
LEMMA SlSteps ==
  ASSUME [MCNext]_mcvars, hal = "sl"
  PROVE  /\ hal' = "sl"
         /\ HostSends \/ ByteArrives \/ (IsrCompletes \/ IsrRearms \/ IsrFails)
              \/ SlMoves \/ Resets \/ Gets \/ UNCHANGED mcvars
BY Steps DEF Shared, SlOnly, SlMoves, mcvars

\* What was handed over is not of a frame yet to come.
LEMMA GivenNext ==
  ASSUME TypeInv, ControlInv, OrderInv, GivenInv, [MCNext]_mcvars
  PROVE  GivenInv'
<1> USE DEF GivenInv, HasNone
<1>1. CASE HostSends
  <2>1. sent' = sent + 1 /\ left' = Length /\ given' = given /\ sent \in Nat
    BY <1>1 DEF HostSends, TypeInv
  <2>2. \A k \in DOMAIN given : given[k].frame \in Nat /\ given[k].frame <= sent
    <3>1. \A k \in DOMAIN given : given[k] \in Bytes
      BY DEF TypeInv
    <3> QED
      BY <3>1 DEF Bytes
  <2> QED
    BY <2>1, <2>2
<1>2. CASE ByteArrives
  <2>1. UNCHANGED <<sent, given>> /\ left' # Length
    BY <1>2, SlAssumption DEF ByteArrives, TypeInv
  <2> QED
    BY <2>1
<1>3. CASE AnyIsr \/ Moves \/ Resets
  <2>1. UNCHANGED <<sent, left, given>>
    BY <1>3, IsrNotStale, MovesNext DEF Resets, Step, lineVars
  <2> QED
    BY <2>1
<1>4. CASE Gets \/ StmGets
  <2>1. UNCHANGED <<sent, left>> /\ given' = buf /\ ~Stale
    BY <1>4 DEF Gets, StmGets, Step, lineVars, Stale
  <2>2. \A k \in DOMAIN buf : buf[k].frame <= sent
    BY DEF OrderInv, TypeInv
  <2>3. left = Length => buf = <<>>
    BY <2>1 DEF OrderInv
  <2> QED
    BY <2>1, <2>2, <2>3
<1>5. CASE UNCHANGED mcvars
  BY <1>5 DEF mcvars, tvars, svars, lineVars
<1> QED
  BY <1>1, <1>2, <1>3, <1>4, <1>5, ByteSteps

\* What can become of a frame that found the console listening.
LEMMA SlFateNext ==
  ASSUME TypeInv, ControlInv, OrderInv, GivenInv, SlTmoInv, SlFate, [MCNext]_mcvars
  PROVE  SlFate'
<1> SUFFICES ASSUME hal = "sl" PROVE SlFate'
  BY Steps DEF SlFate, mcvars
<1>0. hal' = "sl"
  BY SlSteps
<1> USE DEF SlFate, Begun, HasNone
<1>1. CASE HostSends
  BY <1>1, SlAssumption DEF HostSends
<1>2. CASE ByteArrives
  <2>1. /\ UNCHANGED <<sent, buf, st, armed, pc, given>> /\ left > 0
        /\ left' = left - 1 /\ (left # Length => open' = open)
        /\ left' < Length /\ Length \in Nat \ {0} /\ left \in Nat
    BY <1>2, SlAssumption DEF ByteArrives, TypeInv
  <2>2. CASE left = Length
    BY <1>0, <1>2, <2>1, <2>2, FirstByte DEF SlTmoInv, GivenInv
  <2>3. CASE left # Length /\ open
    <3>1. HasNone(given) /\ ((pc \in {"timer", "call", "window"} /\ Receiving) \/ Dead)
      BY <2>1, <2>3 DEF Whole, TypeInv
    <3>2. CASE Receiving
      BY <1>0, <1>2, <2>1, <3>1, <3>2, ReceivingArrives DEF Receiving, Dead
    <3>3. CASE Dead
      BY <2>1, <3>1, <3>3 DEF Dead
    <3> QED
      BY <3>1, <3>2, <3>3
  <2>4. CASE left # Length /\ ~open
    BY <2>1, <2>4
  <2> QED
    BY <2>2, <2>3, <2>4
<1>3. CASE IsrCompletes \/ IsrRearms \/ IsrFails
  <2>1. /\ Receives /\ armed /\ held # <<>> /\ UNCHANGED <<sent, left, pc, given>>
        /\ (open' => open)
    <3>1. Receives /\ (open' => open)
      BY <1>3 DEF IsrCompletes, IsrRearms, IsrFails, TypeInv
    <3> QED
      BY <3>1 DEF Receives
  <2>2. CASE ~Begun
    BY <2>1, <2>2
  <2>3. CASE Begun
    <3>1. HasNone(given) /\ pc \in {"timer", "call", "window"} /\ Receiving
      BY <2>1, <2>3 DEF Whole, Dead
    <3>2. Received'
      BY <2>1, <3>1, ReceivedIsr DEF Receiving
    <3>3. CASE IsrRearms
      <4>1. Receiving'
        BY <3>1, <3>2, <3>3 DEF Receiving, IsrRearms
      <4> QED
        BY <2>1, <3>1, <4>1
    <3>4. CASE IsrFails
      <4>1. open' => Dead'
        BY <2>1, <3>1, <3>4 DEF Dead, IsrFails
      <4> QED
        BY <2>1, <3>1, <4>1
    <3>5. ~IsrCompletes
      BY <3>1 DEF IsrCompletes, Receiving
    <3> QED
      BY <1>3, <3>3, <3>4, <3>5
  <2> QED
    BY <2>2, <2>3
<1>4. CASE SlMoves
  <2>1. UNCHANGED <<sent, left, held, buf, given, open>> /\ (Stale' => Stale \/ pc = "arm")
    BY <1>4, MovesNext DEF SlMoves, Moves
  <2>2. CASE ~Begun
    BY <2>1, <2>2
  <2>3. CASE Begun /\ Receiving /\ HasNone(given) /\ pc \in {"timer", "call", "window"}
    <3>1. CASE Expires
      <4>1. left = 0 /\ held = <<>> /\ buf = Frame(sent)
        BY <2>3, <3>1, ReceivingExpires
      <4>2. ~Stale'
        BY <2>3, <3>1 DEF Expires, Stale, Receiving
      <4>3. Whole'
        BY <2>1, <4>1, <4>2 DEF Whole, Frame, Byte
      <4> QED
        BY <2>1, <2>3, <4>3
    <3>2. CASE ~Expires
      <4>1. StartsTimer \/ SeesListening \/ WindowOpen
        BY <1>4, <2>3, <3>2 DEF SlMoves, Arms, ArmFails, Listens, ReceptionOver, WindowOver,
                                Aborts, AbortFails, Readies, Step, Receiving
      <4>2. Receiving' /\ pc' \in {"call", "window"}
        BY <2>1, <2>3, <4>1 DEF StartsTimer, SeesListening, WindowOpen, Step, Receiving, Received, Byte
      <4> QED
        BY <2>1, <2>3, <4>2
    <3> QED
      BY <3>1, <3>2
  <2>4. CASE Begun /\ Whole /\ HasNone(given)
    <3>1. pc # "arm"
      <4>1. buf = Frame(sent)
        BY <2>4 DEF Whole
      <4>2. Frame(sent) # <<>>
        BY SlAssumption DEF Frame
      <4> QED
        BY <4>1, <4>2 DEF OrderInv
    <3>2. Whole'
      BY <2>1, <2>4, <3>1 DEF Whole, Frame, Byte
    <3> QED
      BY <2>1, <2>4, <3>2
  <2>5. CASE Begun /\ Dead /\ HasNone(given)
    <3>1. Expires \/ StartsTimer
      BY <1>4, <2>5 DEF SlMoves, Arms, ArmFails, Listens, ReceptionOver, SeesListening,
                        WindowOpen, WindowOver, Aborts, AbortFails, Readies, Step, Dead
    <3>2. Dead'
      <4>1. st' = st /\ armed' = armed /\ pc' \in {pc, "call"}
        BY <3>1 DEF Expires, StartsTimer, Step
      <4>2. st = "ERROR" /\ ~armed /\ pc \in {"timer", "call", "tick"}
        BY <2>5 DEF Dead
      <4>3. pc' \in {"timer", "call", "tick"}
        BY <4>1, <4>2
      <4> QED
        BY <4>1, <4>2, <4>3 DEF Dead
    <3> QED
      BY <2>1, <2>5, <3>2
  <2>6. CASE Begun /\ left = 0 /\ held = <<>> /\ buf = <<>>
               /\ (HasNone(given) \/ given = Frame(sent))
    BY <2>1, <2>6 DEF Frame, Byte
  <2> QED
    BY <2>2, <2>3, <2>4, <2>5, <2>6
<1>5. CASE Resets
  <2>1. /\ UNCHANGED <<sent, left, held, given, open>> /\ buf' = <<>>
        /\ pc = "call" /\ st \in {"INIT", "READY"}
    BY <1>5 DEF Resets, Step, lineVars
  <2>2. Begun => left = 0 /\ held = <<>> /\ (HasNone(given) \/ given = Frame(sent))
    BY <2>1 DEF Receiving, Whole, Dead, Stale
  <2> QED
    BY <2>1, <2>2 DEF Frame, Byte
<1>6. CASE Gets
  <2>1. /\ UNCHANGED <<sent, left, held, open>> /\ given' = buf /\ buf' = <<>>
        /\ pc = "get" /\ ~Stale
    BY <1>6 DEF Gets, Step, lineVars, Stale
  <2>2. Begun => left = 0 /\ held = <<>> /\ (buf = <<>> \/ buf = Frame(sent))
    BY <2>1 DEF Whole, Dead
  <2> QED
    BY <2>1, <2>2 DEF Frame, Byte
<1>7. CASE UNCHANGED mcvars
  BY <1>7 DEF mcvars, tvars, svars, lineVars, Whole, Dead, Receiving, Received, Stale, Byte, Frame
<1> QED
  BY <1>1, <1>2, <1>3, <1>4, <1>5, <1>6, <1>7, SlSteps

----------------------------------------------------------------------------
(* The STM32F4 *)

StmMoves ==
  Expires \/ Arms \/ ArmFails \/ Listens \/ StartsTimer \/ ReceptionOver \/ SeesListening
    \/ (Readies /\ due' = "no") \/ NotRunning \/ ReadsTick \/ NotReached \/ Reached \/ StmAborts

\* Every step of this device is one of these.
LEMMA StmSteps ==
  ASSUME [MCNext]_mcvars, hal = "stm"
  PROVE  /\ hal' = "stm"
         /\ \/ (HostSends \/ ByteArrives \/ Resets) /\ due' = due
            \/ StmIsrCompletes \/ StmIsrRearms \/ StmIsrFails
            \/ StmMoves /\ (due' = due \/ Readies \/ ReadsTick)
            \/ StmGets
            \/ UNCHANGED mcvars
BY Steps DEF Shared, StmOnly, StmMoves, mcvars, NotRunning, NotReached, Reached, StmAborts

\* What the subtraction will say is true of the timeout, unless it wraps.
LEMMA StmTickNext ==
  ASSUME TypeInv, ControlInv, StmTickInv, [MCNext]_mcvars
  PROVE  StmTickInv'
<1> SUFFICES ASSUME hal = "stm" PROVE StmTickInv'
  BY Steps DEF StmTickInv, mcvars
<1> USE DEF StmTickInv, TypeInv
<1>0. hal' = "stm"
  BY StmSteps
<1>1. CASE (HostSends \/ ByteArrives \/ Resets) /\ due' = due
  BY <1>0, <1>1 DEF HostSends, ByteArrives, Resets, Step
<1>2. CASE StmIsrCompletes \/ StmIsrFails
  BY <1>0, <1>2, ReceivesNext, SMTT(30) DEF StmIsrCompletes, StmIsrFails, Receives
<1>3. CASE StmIsrRearms
  <2>1. Receives /\ armed /\ pc' = pc /\ tmo # "expired" /\ armed' = armed
    BY <1>3 DEF StmIsrRearms, Receives
  <2>2. buf' # <<>>
    BY <2>1, ReceivesNext
  <2> QED
    BY <1>0, <1>3, <2>1, <2>2, RearmDue
<1>4. CASE StmMoves /\ (due' = due \/ Readies \/ ReadsTick)
  BY <1>0, <1>4 DEF StmMoves, Expires, Arms, ArmFails, Listens, StartsTimer, ReceptionOver,
       SeesListening, Readies, NotRunning, ReadsTick, NotReached, Reached, StmAborts, Step, lineVars
<1>5. CASE StmGets
  BY <1>0, <1>5 DEF StmGets, Step
<1>6. CASE UNCHANGED mcvars
  BY <1>6 DEF mcvars, tvars, svars
<1> QED
  BY <1>1, <1>2, <1>3, <1>4, <1>5, <1>6, StmSteps

\* Whatever an interrupt does, a frame that is coming in keeps its fate.
LEMMA StmIsrFate ==
  ASSUME TypeInv, ControlInv, StmTickInv, StmFate, hal = "stm", Begun, Begun',
         StmIsrCompletes \/ StmIsrRearms \/ StmIsrFails
  PROVE  StmReceiving' \/ StmDead' \/ StmCut'
<1>1. /\ Receives /\ ~Stale /\ armed /\ held # <<>> /\ pc # "ready"
      /\ UNCHANGED <<sent, left, pc, given>>
  BY IsrNotStale DEF AnyIsr, Receives, Stale
<1>2. /\ Len(held) \in Nat \ {0} /\ Len(buf) \in Nat
      /\ held \in Seq(Bytes) /\ held' \in Seq(Bytes) /\ buf' \in Seq(Bytes)
      /\ Len(held') = Len(held) - 1 /\ Len(buf') = Len(buf) + 1
      /\ \A k \in 1..Len(held') : held'[k] = held[k + 1]
      /\ \A k \in 1..Len(buf) : buf'[k] = buf[k]
      /\ buf'[Len(buf) + 1] = held[1]
  BY <1>1, ReceivesNext DEF TypeInv
<1>3. CASE StmReceiving
  <2>1. Received'
    BY <1>1, <1>3, ReceivedIsr DEF StmReceiving, Receiving
  <2>2. CASE StmIsrRearms /\ (pc = "tick" => due' = "no")
    <3>1. Receiving'
      BY <1>3, <2>1, <2>2 DEF StmReceiving, Receiving, StmIsrRearms
    <3> QED
      BY <1>1, <1>3, <2>2, <3>1 DEF StmReceiving
  <2>3. CASE StmIsrRearms /\ pc = "tick" /\ due' # "no"
    <3>1. due' = "wrapped"
      BY <1>3, <2>3, RearmDue DEF StmReceiving
    <3>2. \A k \in DOMAIN held' : held'[k] # Byte(sent, 1)
      <4> SUFFICES ASSUME NEW k \in DOMAIN held' PROVE held'[k] # Byte(sent, 1)
        OBVIOUS
      <4>1. held'[k].at = Len(buf') + k /\ k \in Nat \ {0}
        <5>1. k \in 1..Len(held')
          BY <1>2
        <5>2. held'[k] = [frame |-> sent', at |-> Len(buf') + k]
          BY <2>1, <5>1 DEF Received, Byte
        <5> QED
          BY <5>1, <5>2
      <4> QED
        BY <1>2, <4>1 DEF Byte
    <3>3. HasNoFirst(held)'
      BY <1>1, <3>2 DEF HasNoFirst, Byte
    <3> QED
      BY <3>1, <3>3 DEF StmCut
  <2>4. CASE StmIsrFails
    BY <1>1, <1>3, <2>4 DEF StmReceiving, StmDead, Dead, StmIsrFails, Begun
  <2>5. ~StmIsrCompletes
    BY <1>3 DEF StmReceiving, Receiving, StmIsrCompletes
  <2> QED
    BY <2>2, <2>3, <2>4, <2>5
<1>4. CASE StmCut
  <2>1. DOMAIN held = 1..Len(held) /\ DOMAIN held' = 1..Len(held') /\ DOMAIN buf' = 1..Len(buf')
    BY <1>2
  <2>2. DOMAIN buf = 1..Len(buf)
    BY DEF TypeInv
  <2>3. \A k \in DOMAIN held : held[k] # Byte(sent, 1)
    BY <1>4 DEF StmCut, HasNoFirst
  <2>4. \A k \in DOMAIN held' : held'[k] = held[k + 1] /\ k + 1 \in DOMAIN held
    BY <1>2, <2>1
  <2>5. HasNoFirst(held)'
    BY <1>1, <2>3, <2>4 DEF HasNoFirst, Byte
  <2>6. CASE due' = "wrapped"
    BY <2>5, <2>6 DEF StmCut
  <2>7. CASE due' # "wrapped"
    <3>1. due # "wrapped"
      BY <2>7, RearmDue DEF StmIsrCompletes, StmIsrFails
    <3>2. \A k \in DOMAIN buf : buf[k] # Byte(sent, 1)
      BY <1>1, <1>4, <3>1 DEF StmCut, HasNoFirst
    <3>3. \A k \in DOMAIN buf' : buf'[k] # Byte(sent, 1)
      <4> SUFFICES ASSUME NEW k \in DOMAIN buf' PROVE buf'[k] # Byte(sent, 1)
        OBVIOUS
      <4>1. CASE k \in DOMAIN buf
        BY <1>2, <2>2, <3>2, <4>1
      <4>2. CASE k = Len(buf) + 1
        BY <1>2, <2>1, <2>3, <4>2
      <4> QED
        BY <1>2, <2>1, <2>2, <4>1, <4>2
    <3>4. HasNoFirst(buf)'
      BY <1>1, <3>3 DEF HasNoFirst, Byte
    <3> QED
      BY <1>1, <2>5, <3>4 DEF StmCut
  <2> QED
    BY <2>6, <2>7
<1>5. ~StmWhole /\ ~StmDead /\ ~StmHandedOver
  BY <1>1 DEF StmWhole, Whole, StmDead, Dead, StmHandedOver
<1> QED
  BY <1>3, <1>4, <1>5 DEF StmFate

\* What can become of a frame that found the console listening.
LEMMA StmFateNext ==
  ASSUME TypeInv, ControlInv, OrderInv, GivenInv, StmTickInv, StmFate, [MCNext]_mcvars
  PROVE  StmFate'
<1> SUFFICES ASSUME hal = "stm" PROVE Begun' => StmReceiving' \/ StmWhole' \/ StmDead'
                                                 \/ StmHandedOver' \/ StmCut'
  BY Steps DEF StmFate, mcvars
<1>1. CASE HostSends
  BY <1>1, SlAssumption DEF HostSends, Begun
<1>2. CASE ByteArrives /\ due' = due
  <2>1. /\ UNCHANGED <<sent, buf, st, armed, pc, given>> /\ left > 0
        /\ left' = left - 1 /\ (left # Length => open' = open)
        /\ left' < Length /\ Length \in Nat \ {0} /\ left \in 0..Length
    BY <1>2, SlAssumption DEF ByteArrives, TypeInv
  <2>2. CASE left = Length /\ open'
    <3>1. /\ Receiving' /\ buf = <<>> /\ pc \in {"call", "timer", "window", "tick"}
          /\ armed /\ tmo # "expired"
      BY <1>2, <2>2, FirstByte
    <3>2. pc = "tick" => due = "no"
      BY <3>1 DEF StmTickInv, TypeInv
    <3> QED
      BY <1>2, <2>1, <3>1, <3>2 DEF StmReceiving
  <2>3. CASE left # Length /\ open
    <3>1. StmReceiving \/ StmDead \/ StmCut
      BY <2>1, <2>3 DEF StmFate, Begun, StmWhole, Whole, StmHandedOver
    <3>2. CASE StmReceiving
      BY <1>2, <2>1, <3>2, ReceivingArrives DEF StmReceiving, Receiving
    <3>3. CASE StmDead
      BY <1>2, <2>1, <3>3 DEF StmDead, Dead
    <3>4. CASE StmCut
      <4>1. held' = held \/ held' = Append(held, Byte(sent, Length - left + 1))
        BY <1>2, HeldNext
      <4>2. Byte(sent, Length - left + 1) # Byte(sent, 1)
        BY <2>1, <2>3 DEF Byte
      <4>3. \A k \in DOMAIN held : held[k] # Byte(sent, 1)
        BY <3>4 DEF StmCut, HasNoFirst
      <4>4. \A k \in DOMAIN held' : held'[k] # Byte(sent, 1)
        <5>1. held \in Seq(Bytes) /\ Len(held) \in Nat
          BY DEF TypeInv
        <5>2. \A k \in DOMAIN held' :
                \/ k \in DOMAIN held /\ held'[k] = held[k]
                \/ held'[k] = Byte(sent, Length - left + 1)
          BY <4>1, <5>1
        <5> QED
          BY <4>2, <4>3, <5>2
      <4>5. HasNoFirst(held)' /\ (Stale' <=> Stale)
        BY <2>1, <4>4 DEF HasNoFirst, Byte, Stale
      <4> QED
        BY <1>2, <2>1, <3>4, <4>5 DEF StmCut, HasNoFirst, Byte
    <3> QED
      BY <3>1, <3>2, <3>3, <3>4
  <2>4. left # Length => open' = open
    BY <2>1
  <2> QED
    BY <2>2, <2>3, <2>4 DEF Begun
<1>3. CASE StmIsrCompletes \/ StmIsrRearms \/ StmIsrFails
  <2>1. Begun' => Begun
    BY <1>3, IsrNotStale DEF AnyIsr, Begun
  <2> QED
    BY <1>3, <2>1, StmIsrFate
<1>4. CASE StmMoves /\ (due' = due \/ Readies \/ ReadsTick)
  <2>1. UNCHANGED <<sent, left, held, buf, given, open>>
    BY <1>4, MovesNext DEF StmMoves, Moves
  <2>2. (Stale' => Stale \/ pc = "arm") /\ (Stale => Stale')
    BY <1>4, MovesNext DEF StmMoves, Moves
  <2> SUFFICES ASSUME Begun
               PROVE  StmReceiving' \/ StmWhole' \/ StmHandedOver' \/ StmDead' \/ StmCut'
    BY <2>1 DEF Begun
  <2>3. CASE StmReceiving
    <3>1. CASE Expires
      <4>1. left = 0 /\ held = <<>> /\ buf = Frame(sent)
        BY <2>3, <3>1, ReceivingExpires DEF StmReceiving, Begun
      <4>2. ~Stale' /\ pc' = pc
        BY <2>3, <3>1 DEF Expires, Stale, StmReceiving, Receiving
      <4>3. Whole'
        BY <2>1, <4>1, <4>2 DEF Whole, Frame, Byte
      <4> QED
        BY <2>3, <4>2, <4>3 DEF StmWhole, StmReceiving
    <3>2. CASE ~Expires
      <4>1. StartsTimer \/ SeesListening \/ NotRunning \/ ReadsTick \/ NotReached
        BY <1>4, <2>3, <3>2 DEF StmMoves, Arms, ArmFails, Listens, ReceptionOver, Readies,
                                Reached, StmAborts, Step, StmReceiving, Receiving
      <4>2. /\ pc' \in {"call", "window", "tick"} /\ (pc' = "tick" => due' = "no")
            /\ UNCHANGED <<st, armed>> /\ tmo' \in {tmo, "fresh"}
        BY <2>3, <4>1 DEF StartsTimer, SeesListening, NotRunning, ReadsTick, NotReached, Step,
                          StmReceiving, Receiving
      <4>3. Received'
        BY <2>1, <2>3 DEF StmReceiving, Receiving, Received, Byte
      <4>4. Receiving'
        BY <2>1, <2>3, <4>2, <4>3 DEF StmReceiving, Receiving
      <4> QED
        BY <4>2, <4>4 DEF StmReceiving
    <3> QED
      BY <3>1, <3>2
  <2>4. CASE StmWhole
    <3>1. Whole'
      BY <2>1, <2>2, <2>4 DEF StmWhole, Whole, Frame, Byte
    <3>2. pc' \in {"timer", "call", "window", "tick", "abort", "get"}
      BY <1>4, <2>4 DEF StmWhole, StmMoves, Expires, Arms, ArmFails, Listens, StartsTimer,
           ReceptionOver, SeesListening, Readies, NotRunning, ReadsTick, NotReached, Reached,
           StmAborts, Step
    <3> QED
      BY <3>1, <3>2 DEF StmWhole
  <2>5. CASE StmDead
    <3>1. st = "ERROR" /\ ~armed /\ pc \in {"timer", "call", "tick"} /\ (pc = "tick" => due = "no")
      BY <2>5 DEF StmDead, Dead
    <3>2. Expires \/ StartsTimer \/ NotReached
      BY <1>4, <3>1 DEF StmMoves, Arms, ArmFails, Listens, ReceptionOver, SeesListening,
                        Readies, NotRunning, ReadsTick, Reached, StmAborts, Step
    <3>3. st' = st /\ armed' = armed /\ (pc' = "call" \/ (pc' = pc /\ due' = due))
      BY <1>4, <3>1, <3>2 DEF Expires, StartsTimer, NotReached, Step, Readies, ReadsTick
    <3>4. pc' \in {"timer", "call", "tick"} /\ (pc' = "tick" => due' = "no")
      BY <3>1, <3>3
    <3> QED
      BY <3>1, <3>3, <3>4 DEF StmDead, Dead
  <2>6. CASE StmHandedOver
    <3>1. Expires \/ Readies
      BY <1>4, <2>6 DEF StmHandedOver, StmMoves, Arms, ArmFails, Listens, StartsTimer,
           ReceptionOver, SeesListening, NotRunning, ReadsTick, NotReached, Reached,
           StmAborts, Step
    <3>2. CASE Expires
      BY <2>1, <2>6, <3>2 DEF StmHandedOver, Expires, Frame, Byte
    <3>3. CASE Readies
      BY <2>1, <2>6, <3>3 DEF StmHandedOver, Readies, Step, StmCut, Stale, HasNoFirst
    <3> QED
      BY <3>1, <3>2, <3>3
  <2>7. CASE StmCut
    <3>1. HasNoFirst(held)' /\ (HasNoFirst(buf) => HasNoFirst(buf)')
          /\ (HasNoFirst(given) => HasNoFirst(given)')
      BY <2>1, <2>7 DEF StmCut, HasNoFirst, Byte
    <3>2. CASE due = "wrapped" /\ due' = due
      BY <3>1, <3>2 DEF StmCut
    <3>3. CASE due = "wrapped" /\ ~Readies /\ due' # due
      BY <1>4, <3>3 DEF ReadsTick, Step, StmTickInv
    <3>4. CASE Readies
      BY <3>1, <3>4 DEF Readies, Step, StmCut, Stale
    <3>5. CASE due # "wrapped" /\ ~Readies
      <4>1. pc' = "ready" => pc = "ready"
        BY <1>4, <3>5 DEF StmMoves, Expires, Arms, ArmFails, Listens, StartsTimer,
             ReceptionOver, SeesListening, NotRunning, ReadsTick, NotReached, Reached,
             StmAborts, Step
      <4> QED
        BY <2>2, <2>7, <3>1, <3>5, <4>1 DEF StmCut
    <3> QED
      BY <3>2, <3>3, <3>4, <3>5
  <2> QED
    BY <2>3, <2>4, <2>5, <2>6, <2>7 DEF StmFate
<1>5. CASE Resets /\ due' = due
  <2>1. /\ UNCHANGED <<sent, left, held, given, open>> /\ buf' = <<>>
        /\ pc = "call" /\ st \in {"INIT", "READY"} /\ pc' = "arm"
    BY <1>5 DEF Resets, Step, lineVars
  <2>2. Begun' => StmCut
    BY <2>1 DEF StmFate, Begun, StmReceiving, Receiving, StmWhole, Whole, StmDead, Dead,
                StmHandedOver, Stale
  <2>3. StmCut => HasNoFirst(held)'
    BY <2>1 DEF StmCut, HasNoFirst, Byte
  <2> QED
    BY <1>5, <2>1, <2>2, <2>3 DEF StmCut, HasNoFirst
<1>6. CASE StmGets
  <2>1. /\ UNCHANGED <<sent, left, held, buf, open, due>> /\ given' = buf
        /\ pc = "get" /\ pc' = "ready" /\ ~Stale /\ Stale'
    BY <1>6 DEF StmGets, Step, lineVars, Stale
  <2>2. Begun' => StmWhole \/ StmCut
    BY <2>1 DEF StmFate, Begun, StmReceiving, StmDead, Dead, StmHandedOver
  <2>3. StmWhole => StmHandedOver'
    BY <2>1 DEF StmWhole, Whole, StmHandedOver, Frame, Byte
  <2>4. StmCut => StmCut'
    BY <2>1 DEF StmCut, HasNoFirst, Byte
  <2> QED
    BY <2>2, <2>3, <2>4
<1>7. CASE UNCHANGED mcvars
  BY <1>7 DEF mcvars, tvars, svars, lineVars, StmFate, Begun, StmReceiving, StmWhole, StmDead,
       StmHandedOver, StmCut, HasNoFirst, Whole, Dead, Receiving, Received, Stale, Byte, Frame
<1> QED
  BY <1>1, <1>2, <1>3, <1>4, <1>5, <1>6, <1>7, StmSteps

----------------------------------------------------------------------------
ConsoleInv ==
  /\ TypeInv /\ ControlInv /\ OrderInv /\ GivenInv
  /\ SlTmoInv /\ SlFate /\ StmTickInv /\ StmFate

\* No byte was sent yet.
LEMMA ConsoleInit == MCInit => ConsoleInv
<1> SUFFICES ASSUME MCInit PROVE ConsoleInv
  OBVIOUS
<1>1. /\ sent = 0 /\ left = 0 /\ held = <<>> /\ st = "INIT" /\ buf = <<>> /\ armed = FALSE
      /\ pc = "call" /\ given = <<>> /\ taken = <<>> /\ open = FALSE /\ due = "no"
      /\ \/ hal = "sl" /\ tmo = "expired"
         \/ hal = "stm" /\ tmo = "stopped"
  BY DEF MCInit, SInit, TInit, SInitLine
<1>2. TypeInv
  <2>1. <<>> \in Seq(Bytes) /\ <<>> \in Seq(Nat) /\ Len(<<>>) = 0
    OBVIOUS
  <2>2. Len(held) <= Fifo /\ left \in 0..Length
    BY <1>1, <2>1, SlAssumption
  <2> QED
    BY <1>1, <2>1, <2>2 DEF TypeInv
<1>3. ControlInv /\ SlTmoInv /\ StmTickInv
  BY <1>1 DEF ControlInv, CopyUndisturbed, SlTmoInv, StmTickInv
<1>4. OrderInv /\ GivenInv
  BY <1>1, SlAssumption DEF OrderInv, LastTaken, GivenInv
<1>5. SlFate /\ StmFate
  BY <1>1 DEF SlFate, StmFate, Begun
<1> QED
  BY <1>2, <1>3, <1>4, <1>5 DEF ConsoleInv

\* The invariant of the receive path holds in every reachable state.
THEOREM ConsoleInvariant == MCSpec => []ConsoleInv
<1>1. ConsoleInv /\ [MCNext]_mcvars => ConsoleInv'
  BY TypeNext, ControlNext, OrderNext, GivenNext, SlTmoNext, SlFateNext, StmTickNext, StmFateNext
  DEF ConsoleInv
<1> QED
  BY <1>1, ConsoleInit, PTL DEF MCSpec

\* Whatever the UART does and refuses, no interrupt writes into the buffer or moves
\* its index while the main loop copies it, resets it and arms the next receive.
THEOREM CopyUndisturbed_Correct == MCSpec => []CopyUndisturbed
<1>1. ConsoleInv => CopyUndisturbed
  BY DEF ConsoleInv, ControlInv
<1> QED
  BY <1>1, ConsoleInvariant, PTL

\* Frames of any length that find a SiWG917 listening are handed over whole and alone,
\* but for the refused receive that WholeWhenListening names.
THEOREM SlWhole_Correct == MCSpec => []SlWhole
<1>1. ConsoleInv => SlWhole
  <2> SUFFICES ASSUME ConsoleInv, hal = "sl", open,
                      NEW k \in DOMAIN given, given[k].frame = sent
               PROVE  given = Frame(sent)
    BY DEF SlWhole, WholeWhenListening
  <2>1. given[k] \in Bytes /\ sent \in Nat
    BY DEF ConsoleInv, TypeInv
  <2>2. ~HasNone(given)
    BY <2>1 DEF HasNone
  <2>3. Begun
    BY <2>2, SlAssumption DEF ConsoleInv, GivenInv, Begun, TypeInv
  <2> QED
    BY <2>2, <2>3 DEF ConsoleInv, SlFate
<1> QED
  BY <1>1, ConsoleInvariant, PTL

\* On an STM32F4, with the same exception, the subtraction that wraps is the only way to
\* cut such a frame.
THEOREM Whole_Correct == MCSpec => []WholeUnlessWrapped
<1>1. ConsoleInv => WholeUnlessWrapped
  <2> SUFFICES ASSUME ConsoleInv, pc = "ready", due # "wrapped", open,
                      NEW k \in DOMAIN given, given[k] = Byte(sent, 1)
               PROVE  given = Frame(sent)
    BY DEF WholeUnlessWrapped
  <2>1. given[k].frame = sent /\ sent \in Nat
    BY DEF Byte, ConsoleInv, TypeInv
  <2>2. ~HasNone(given) /\ ~HasNoFirst(given)
    BY <2>1 DEF HasNone, HasNoFirst
  <2>3. Begun
    BY <2>2, SlAssumption DEF ConsoleInv, GivenInv, Begun, TypeInv
  <2>4. CASE hal = "sl"
    BY <2>2, <2>3, <2>4 DEF ConsoleInv, SlFate
  <2>5. CASE hal = "stm"
    BY <2>2, <2>3, <2>5 DEF ConsoleInv, StmFate, StmReceiving, StmWhole, StmDead, Dead,
                            StmHandedOver, StmCut
  <2> QED
    BY <2>4, <2>5 DEF ConsoleInv, TypeInv
<1> QED
  BY <1>1, ConsoleInvariant, PTL

\* A step of the receive path sends a frame, takes one that is newer than the last, or
\* leaves the line as it is.
LEMMA LineStep ==
  ASSUME ConsoleInv, [MCNext]_mcvars
  PROVE  [Line!Next]_(Line!lvars)
<1> USE DEF ConsoleInv
<1>1. CASE HostSends
  BY <1>1 DEF HostSends, Line!Next, Line!Send
<1>2. CASE ByteArrives \/ AnyIsr \/ Moves \/ Resets
  BY <1>2, IsrNotStale, MovesNext DEF ByteArrives, Resets, Step, lineVars, Moves, Line!lvars
<1>3. CASE Gets \/ StmGets
  <2>1. sent' = sent /\ taken' = Accepts(buf) /\ ~Stale
    BY <1>3 DEF Gets, StmGets, Step, lineVars, Stale
  <2>2. CASE \E f \in 1..sent : buf = Frame(f) /\ taken' = Append(taken, f)
    <3>1. PICK f \in 1..sent : buf = Frame(f) /\ taken' = Append(taken, f)
      BY <2>2
    <3>2. LastTaken < buf[1].frame /\ buf[1].frame = f
      BY <2>1, <3>1, SlAssumption DEF OrderInv, Frame, Byte
    <3>3. LastTaken = Line!Last /\ LastTaken \in Nat
      BY DEF LastTaken, Line!Last, OrderInv, TypeInv
    <3>4. f \in (Line!Last + 1)..sent
      BY <3>2, <3>3 DEF TypeInv
    <3> QED
      BY <2>1, <3>1, <3>4 DEF Line!Next, Line!Take
  <2> QED
    BY <2>1, <2>2, AcceptsNext DEF Line!lvars
<1>4. CASE UNCHANGED mcvars
  BY <1>4 DEF mcvars, tvars, svars, lineVars, Line!lvars
<1> QED
  BY <1>1, <1>2, <1>3, <1>4, ByteSteps

\* The receive path of either device implements a lossy line: what the driver accepts
\* are frames that were sent, whole, in their order, and none twice.
THEOREM Line_Correct == MCSpec => ImplementsLine
<1>1. MCInit => Line!Init
  BY DEF MCInit, SInit, TInit, SInitLine, Line!Init
<1>2. ConsoleInv /\ [MCNext]_mcvars => [Line!Next]_(Line!lvars)
  BY LineStep
<1> QED
  BY <1>1, <1>2, ConsoleInvariant, PTL DEF MCSpec, ImplementsLine, Line!Spec

============================================================================
