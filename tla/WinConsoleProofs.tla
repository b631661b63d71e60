--------------------------- MODULE WinConsoleProofs ---------------------------
(***************************************************************************)
(* What the receive path of the Windows host guarantees for every size of  *)
(* the ring and of the chunk, for frames of any lengths and contents, and  *)
(* however many bytes the line loses.                                      *)
(***************************************************************************)
EXTENDS WinConsole, TLAPS

Bytes == [frame : Nat, at : Nat]

TypeInv ==
  /\ len \in Seq(Lengths) /\ line \in Seq(Bytes) /\ lost \in Seq(Bytes)
  /\ temp \in Seq(Bytes) /\ rx_buf \in [0..(Size - 1) -> Bytes]
  /\ rx_head \in 0..(Size - 1) /\ rx_tail \in 0..(Size - 1)
  /\ seen \in BOOLEAN /\ state \in {"WAIT_SYNC", "WAIT_LEN", "WAIT_PAYLOAD", "OFFERED"}
  /\ out \in Seq(Bytes) /\ expected \in Nat /\ pending \in BOOLEAN
  /\ copy \in Seq(Bytes) /\ taken \in Seq(Nat)

\* A push never fills the ring, and the parser takes a byte only from one that has some.
RoomInv ==
  /\ Outstanding < Size
  /\ seen => rx_head # rx_tail

\* The frame on offer is the main thread's.
OfferInv ==
  /\ pending => state = "OFFERED"
  /\ CopyIsStable

\* The bytes between rx_tail and rx_head.
Ring == [i \in 1..Unread |-> rx_buf[(rx_tail + i - 1) % Size]]

\* The part of output_buf that was not handed over.
Live == IF state \in {"WAIT_LEN", "WAIT_PAYLOAD"} \/ pending THEN out ELSE <<>>

\* The bytes the line did not lose, from the first that may still be handed over.
Stream == Live \o Unparsed

Before(x, y) == x.frame < y.frame \/ (x.frame = y.frame /\ x.at < y.at)

\* They are in order, and none is of a frame as old as the last one taken.
OrderInv ==
  /\ \A i, j \in DOMAIN Stream : i < j => Before(Stream[i], Stream[j])
  /\ \A i \in DOMAIN Stream :
       /\ Stream[i].frame \in (Line!Last + 1)..Len(len)
       /\ Stream[i].at < len[Stream[i].frame]
  /\ Line!Last \in 0..Len(len)

\* Where frame f begins in them, when none was lost: they are whole frames, one behind
\* the other, from the one after the last taken to the one sent last.
Offsets == [(Line!Last + 1)..(Len(len) + 1) -> 0..Len(Stream)]

AreFrames(off) ==
  /\ off[Line!Last + 1] = 0 /\ off[Len(len) + 1] = Len(Stream)
  /\ \A f, g \in (Line!Last + 1)..(Len(len) + 1) : f <= g => off[f] <= off[g]
  /\ \A f \in (Line!Last + 1)..Len(len) :
       /\ off[f + 1] = off[f] + len[f]
       /\ \A k \in 1..len[f] : Stream[off[f] + k] = Byte(f, k - 1)

\* The parser is in step with them.
InStep ==
  /\ state = "WAIT_LEN" => Len(out) \in 1..4
  /\ state = "WAIT_PAYLOAD" =>
       /\ Line!Last < Len(len) /\ expected = len[Line!Last + 1]
       /\ Len(out) >= 5 /\ Len(out) < expected
  /\ pending => Line!Last < Len(len) /\ Len(out) = len[Line!Last + 1]

LosslessInv == MaxLost = 0 => InStep /\ lost = <<>> /\ \E off \in Offsets : AreFrames(off)

----------------------------------------------------------------------------

\* A sequence is the function of its elements.
LEMMA SeqIsFunction ==
  ASSUME NEW S, NEW s \in Seq(S)
  PROVE  s = [i \in 1..Len(s) |-> s[i]]
OBVIOUS

\* A sequence is determined by its length and its elements.
LEMMA SeqEqual ==
  ASSUME NEW S, NEW s \in Seq(S), NEW t \in Seq(S), Len(s) = Len(t),
         \A i \in 1..Len(s) : s[i] = t[i]
  PROVE  s = t
<1>1. s = [i \in 1..Len(s) |-> s[i]] /\ t = [i \in 1..Len(s) |-> t[i]]
  BY SeqIsFunction
<1>2. [i \in 1..Len(s) |-> s[i]] = [i \in 1..Len(s) |-> t[i]]
  OBVIOUS
<1> QED
  BY <1>1, <1>2

\* The number of bytes in the ring, and where they are.
LEMMA RingType ==
  ASSUME TypeInv
  PROVE  /\ Size \in Nat \ {0} /\ Unread \in 0..(Size - 1)
         /\ Unread = 0 <=> rx_head = rx_tail
         /\ Ring \in Seq(Bytes) /\ Len(Ring) = Unread
         /\ Unparsed = (Ring \o temp) \o line
         /\ Unparsed \in Seq(Bytes)
<1>1. Size \in Nat \ {0} /\ rx_head \in 0..(Size - 1) /\ rx_tail \in 0..(Size - 1)
  BY WinAssumption DEF TypeInv
<1>2. rx_head - rx_tail \in 0..(Size - 1) => Unread = rx_head - rx_tail
  BY <1>1 DEF Unread
<1>3. rx_head - rx_tail \in (-Size)..(-1) => Unread = rx_head - rx_tail + Size
  BY <1>1 DEF Unread
<1>4. Unread \in 0..(Size - 1) /\ (Unread = 0 <=> rx_head = rx_tail)
  BY <1>1, <1>2, <1>3
<1>5. \A i \in 1..Unread : (rx_tail + i - 1) % Size \in 0..(Size - 1)
  BY <1>1, <1>4
<1>6. \A i \in 1..Unread : rx_buf[(rx_tail + i - 1) % Size] \in Bytes
  BY <1>5 DEF TypeInv
<1>7. Ring \in Seq(Bytes) /\ Len(Ring) = Unread
  BY <1>4, <1>6 DEF Ring
<1>8. Unparsed = (Ring \o temp) \o line
  BY DEF Unparsed, Ring
<1> QED
  BY <1>1, <1>4, <1>7, <1>8 DEF TypeInv

\* A byte is pushed behind those in the ring.
LEMMA RingPush ==
  ASSUME TypeInv, RoomInv, PushByte
  PROVE  /\ Unread' = Unread + 1 /\ rx_head' # rx_tail'
         /\ Ring' = Append(Ring, temp[1])
         /\ rx_head' \in 0..(Size - 1) /\ rx_buf' \in [0..(Size - 1) -> Bytes]
<1>1. /\ Size \in Nat \ {0} /\ rx_head \in 0..(Size - 1) /\ rx_tail \in 0..(Size - 1)
      /\ Unread \in 0..(Size - 1) /\ temp \in Seq(Bytes) /\ temp # <<>>
      /\ rx_tail' = rx_tail
  BY RingType DEF TypeInv, PushByte
<1>2. Unread + 1 < Size
  BY <1>1 DEF RoomInv, Outstanding, TypeInv
<1>3. rx_head' = IF rx_head + 1 = Size THEN 0 ELSE rx_head + 1
  BY <1>1 DEF PushByte, Advanced
<1>4. /\ rx_head - rx_tail \in 0..(Size - 1) => Unread = rx_head - rx_tail
      /\ rx_head - rx_tail \in (-Size)..(-1) => Unread = rx_head - rx_tail + Size
  BY <1>1 DEF Unread
<1>5. /\ rx_head' - rx_tail \in 0..(Size - 1) => Unread' = rx_head' - rx_tail
      /\ rx_head' - rx_tail \in (-Size)..(-1) => Unread' = rx_head' - rx_tail + Size
  BY <1>1, <1>3 DEF Unread
<1>6. Unread' = Unread + 1
  BY <1>1, <1>2, <1>3, <1>4, <1>5
<1>7. temp[1] \in Bytes /\ Head(temp) = temp[1]
  BY <1>1
<1>8. rx_buf' = [rx_buf EXCEPT ![rx_head] = temp[1]]
  BY <1>7 DEF PushByte
<1>9. (rx_tail + Unread) % Size = rx_head
  <2>1. CASE rx_tail + Unread \in 0..(Size - 1)
    BY <1>1, <1>4, <2>1
  <2>2. CASE rx_tail + Unread \in Size..(2 * Size - 1)
    BY <1>1, <1>4, <2>2
  <2> QED
    BY <1>1, <2>1, <2>2
<1>10. \A i \in 1..Unread : (rx_tail + i - 1) % Size # rx_head
  <2> SUFFICES ASSUME NEW i \in 1..Unread PROVE (rx_tail + i - 1) % Size # rx_head
    OBVIOUS
  <2>1. CASE rx_tail + i - 1 \in 0..(Size - 1)
    <3>1. (rx_tail + i - 1) % Size = rx_tail + i - 1
      BY <1>1, <2>1
    <3> QED
      BY <1>1, <1>4, <2>1, <3>1
  <2>2. CASE rx_tail + i - 1 \in Size..(2 * Size - 1)
    <3>1. (rx_tail + i - 1) % Size = rx_tail + i - 1 - Size
      BY <1>1, <2>2
    <3> QED
      BY <1>1, <1>4, <2>2, <3>1
  <2> QED
    BY <1>1, <2>1, <2>2
<1>11. \A i \in 1..Unread :
         rx_buf'[(rx_tail + i - 1) % Size] = rx_buf[(rx_tail + i - 1) % Size]
  <2>1. \A i \in 1..Unread : (rx_tail + i - 1) % Size \in 0..(Size - 1)
    BY <1>1
  <2> QED
    BY <1>8, <1>10, <2>1 DEF TypeInv
<1>12. rx_buf'[(rx_tail + (Unread + 1) - 1) % Size] = temp[1]
  <2>1. rx_tail + (Unread + 1) - 1 = rx_tail + Unread
    BY <1>1
  <2> QED
    BY <1>1, <1>8, <1>9, <2>1 DEF TypeInv
<1>13. Ring' = [i \in 1..(Unread + 1) |-> rx_buf'[(rx_tail + i - 1) % Size]]
  BY <1>1, <1>6 DEF Ring
<1>14. Ring \in Seq(Bytes) /\ Len(Ring) = Unread
  BY RingType
<1>15. Append(Ring, temp[1]) = [i \in 1..(Unread + 1) |-> IF i = Unread + 1 THEN temp[1] ELSE Ring[i]]
  BY <1>1, <1>7, <1>14
<1>16. \A i \in 1..(Unread + 1) :
         rx_buf'[(rx_tail + i - 1) % Size] = IF i = Unread + 1 THEN temp[1] ELSE Ring[i]
  <2> SUFFICES ASSUME NEW i \in 1..(Unread + 1)
               PROVE  rx_buf'[(rx_tail + i - 1) % Size] = IF i = Unread + 1 THEN temp[1] ELSE Ring[i]
    OBVIOUS
  <2>1. CASE i = Unread + 1
    BY <1>12, <2>1
  <2>2. CASE i # Unread + 1
    <3>1. i \in 1..Unread
      BY <1>1, <2>2
    <3> QED
      BY <1>11, <2>2, <3>1 DEF Ring
  <2> QED
    BY <2>1, <2>2
<1>17. Ring' = Append(Ring, temp[1])
  BY <1>13, <1>15, <1>16
<1>18. rx_head' # rx_tail' /\ rx_head' \in 0..(Size - 1)
  BY <1>1, <1>2, <1>3, <1>4
<1> QED
  BY <1>6, <1>7, <1>8, <1>17, <1>18 DEF TypeInv

\* The oldest byte of the ring is taken.
LEMMA RingTake ==
  ASSUME TypeInv, RoomInv, TakesByte
  PROVE  /\ Unread > 0 /\ Unread' = Unread - 1
         /\ Ring # <<>> /\ rxByte = Head(Ring) /\ Ring' = Tail(Ring)
         /\ rx_tail' \in 0..(Size - 1)
<1>1. /\ Size \in Nat \ {0} /\ rx_head \in 0..(Size - 1) /\ rx_tail \in 0..(Size - 1)
      /\ Unread \in 1..(Size - 1)
      /\ rx_head' = rx_head /\ rx_buf' = rx_buf
  BY RingType, SMTT(30) DEF TypeInv, TakesByte, RoomInv
<1>2. rx_tail' = IF rx_tail + 1 = Size THEN 0 ELSE rx_tail + 1
  BY <1>1 DEF TakesByte, Advanced
<1>3. /\ rx_head - rx_tail \in 0..(Size - 1) => Unread = rx_head - rx_tail
      /\ rx_head - rx_tail \in (-Size)..(-1) => Unread = rx_head - rx_tail + Size
  BY <1>1 DEF Unread
<1>4. /\ rx_head - rx_tail' \in 0..(Size - 1) => Unread' = rx_head - rx_tail'
      /\ rx_head - rx_tail' \in (-Size)..(-1) => Unread' = rx_head - rx_tail' + Size
  BY <1>1, <1>2 DEF Unread
<1>5. Unread' = Unread - 1
  BY <1>1, <1>2, <1>3, <1>4
<1>6. Ring \in Seq(Bytes) /\ Len(Ring) = Unread /\ Ring # <<>>
  BY <1>1, RingType
<1>7. rxByte = Ring[1] /\ Head(Ring) = Ring[1]
  <2>1. (rx_tail + 1 - 1) % Size = rx_tail
    BY <1>1
  <2> QED
    BY <1>1, <1>6, <2>1 DEF Ring, rxByte
<1>8. \A i \in 1..(Unread - 1) : (rx_tail' + i - 1) % Size = (rx_tail + (i + 1) - 1) % Size
  <2> SUFFICES ASSUME NEW i \in 1..(Unread - 1)
               PROVE  (rx_tail' + i - 1) % Size = (rx_tail + (i + 1) - 1) % Size
    OBVIOUS
  <2>1. CASE rx_tail + 1 # Size
    BY <1>1, <1>2, <2>1
  <2>2. CASE rx_tail + 1 = Size
    <3>1. rx_tail' + i - 1 = i - 1 /\ rx_tail + (i + 1) - 1 = Size + i - 1
      BY <1>1, <1>2, <2>2
    <3>2. (i - 1) % Size = i - 1 /\ (Size + i - 1) % Size = i - 1
      BY <1>1
    <3> QED
      BY <3>1, <3>2
  <2> QED
    BY <2>1, <2>2
<1>9. Ring' = [i \in 1..(Unread - 1) |-> rx_buf[(rx_tail' + i - 1) % Size]]
  BY <1>1, <1>5 DEF Ring
<1>10. Tail(Ring) = [i \in 1..(Unread - 1) |-> Ring[i + 1]]
  <2>1. /\ Tail(Ring) \in Seq(Bytes) /\ Len(Tail(Ring)) = Unread - 1
        /\ \A i \in 1..(Unread - 1) : Tail(Ring)[i] = Ring[i + 1]
    BY <1>1, <1>6
  <2>2. Tail(Ring) = [i \in 1..(Unread - 1) |-> Tail(Ring)[i]]
    BY <2>1, SeqIsFunction
  <2> QED
    BY <2>1, <2>2
<1>11. \A i \in 1..(Unread - 1) : Ring[i + 1] = rx_buf[(rx_tail + (i + 1) - 1) % Size]
  BY <1>1 DEF Ring
<1>12. Ring' = Tail(Ring)
  BY <1>8, <1>9, <1>10, <1>11
<1> QED
  BY <1>1, <1>2, <1>5, <1>6, <1>7, <1>12

----------------------------------------------------------------------------
(* Types, and room in the ring *)

\* The bytes of a frame.
LEMMA FrameType ==
  ASSUME NEW f \in Nat, NEW n \in Lengths
  PROVE  /\ n \in Nat /\ n >= 6 /\ n < Size
         /\ FrameBytes(f, n) \in Seq(Bytes) /\ Len(FrameBytes(f, n)) = n
         /\ \A k \in 1..n : FrameBytes(f, n)[k] = [frame |-> f, at |-> k - 1]
<1>1. n \in Nat /\ n >= 6 /\ n < Size
  BY WinAssumption
<1>2. \A k \in 1..n : Byte(f, k - 1) \in Bytes
  BY <1>1 DEF Byte, Bytes
<1> QED
  BY <1>1, <1>2 DEF FrameBytes, Byte

\* A push ends before the ring is full, and the parser does not take what is not there.
LEMMA RoomNext ==
  ASSUME TypeInv, RoomInv, [WNext]_wvars
  PROVE  RoomInv'
<1>0. /\ Unread \in Nat /\ Len(temp) \in Nat /\ Len(line) \in Nat /\ Size \in Nat
      /\ Unread + Len(temp) + Len(line) < Size
  BY RingType, SMTT(30) DEF TypeInv, RoomInv, Outstanding
<1>1. ASSUME NEW n \in Lengths, DeviceSends(n) PROVE RoomInv'
  <2>1. /\ Outstanding + n < Size /\ line' = line \o FrameBytes(Len(len) + 1, n)
        /\ UNCHANGED <<temp, rx_head, rx_tail, seen>>
    BY <1>1 DEF DeviceSends, ringVars, parserVars
  <2>2. Len(line') = Len(line) + n /\ n \in Nat
    BY <2>1, FrameType, SMTT(30) DEF TypeInv
  <2>3. Unread' = Unread
    BY <2>1 DEF Unread
  <2> QED
    BY <1>0, <2>1, <2>2, <2>3 DEF RoomInv, Outstanding
<1>2. CASE LoseByte
  <2>1. Len(line') = Len(line) - 1 /\ UNCHANGED <<temp, rx_head, rx_tail, seen>>
    BY <1>2 DEF LoseByte, ringVars, parserVars, TypeInv
  <2>2. Unread' = Unread
    BY <2>1 DEF Unread
  <2> QED
    BY <1>0, <2>1, <2>2 DEF RoomInv, Outstanding
<1>3. CASE ReadFile
  <2>1. Len(temp') + Len(line') = Len(temp) + Len(line) /\ UNCHANGED <<rx_head, rx_tail, seen>>
    BY <1>3, WinAssumption DEF ReadFile, parserVars, TypeInv
  <2>2. Unread' = Unread
    BY <2>1 DEF Unread
  <2>3. Len(temp') \in Nat /\ Len(line') \in Nat
    BY <1>3, WinAssumption DEF ReadFile, TypeInv
  <2> QED
    BY <1>0, <2>1, <2>2, <2>3 DEF RoomInv, Outstanding
<1>4. CASE PushByte
  <2>1. /\ Len(temp') = Len(temp) - 1 /\ line' = line
    BY <1>4 DEF PushByte, portVars, parserVars, TypeInv
  <2>2. Unread' = Unread + 1 /\ rx_head' # rx_tail'
    BY <1>4, RingPush
  <2> QED
    BY <1>0, <2>1, <2>2 DEF RoomInv, Outstanding
<1>5. CASE WaitSync \/ WaitLen \/ WaitPayload
  <2>1. TakesByte
    BY <1>5 DEF WaitSync, WaitLen, WaitPayload
  <2>2. Unread' = Unread - 1 /\ UNCHANGED <<temp, line>> /\ ~seen'
    BY <2>1, RingTake DEF TakesByte, portVars
  <2> QED
    BY <1>0, <2>2 DEF RoomInv, Outstanding
<1>6. CASE SeesByte \/ Resume \/ Copies \/ Clears \/ UNCHANGED wvars
  <2>1. UNCHANGED <<temp, line, rx_head, rx_tail>> /\ (seen' = seen \/ rx_head # rx_tail)
    BY <1>6 DEF SeesByte, Resume, Copies, Clears, wvars, portVars, ringVars, parserVars
  <2>2. Unread' = Unread
    BY <2>1 DEF Unread
  <2> QED
    BY <1>0, <2>1, <2>2 DEF RoomInv, Outstanding
<1> QED
  BY <1>1, <1>2, <1>3, <1>4, <1>5, <1>6 DEF WNext, Uart, Parser, Main

\* The length the parser reads is some number.
LEMMA LengthType ==
  ASSUME TypeInv, NEW o
  PROVE  LengthRead(o) \subseteq Nat
<1>1. CASE \E f \in DOMAIN len : o[3] = Byte(f, 2) /\ o[4] = Byte(f, 3)
  <2>1. PICK f \in DOMAIN len : o[3] = Byte(f, 2)
    BY <1>1
  <2>2. o[3].frame = f
    BY <2>1 DEF Byte
  <2>3. len[f] \in Nat
    <3>1. f \in 1..Len(len) /\ len \in Seq(Lengths)
      BY DEF TypeInv
    <3>2. PICK n \in Lengths : n = len[f]
      BY <3>1
    <3> QED
      BY <3>2, FrameType
  <2> QED
    BY <1>1, <2>2, <2>3 DEF LengthRead
<1>2. CASE ~ \E f \in DOMAIN len : o[3] = Byte(f, 2) /\ o[4] = Byte(f, 3)
  BY <1>2, WinAssumption DEF LengthRead
<1> QED
  BY <1>1, <1>2

\* The frame the driver accepts was sent.
LEMMA ClearsNext ==
  ASSUME TypeInv, Clears
  PROVE  \/ taken' = taken
         \/ \E f \in DOMAIN len : copy = FrameBytes(f, len[f]) /\ taken' = Append(taken, f)
<1>1. CASE Validated(copy) = {}
  BY <1>1 DEF Clears
<1>2. CASE Validated(copy) # {}
  <2>1. (CHOOSE f \in Validated(copy) : TRUE) \in Validated(copy)
    BY <1>2
  <2>2. taken' = Append(taken, CHOOSE f \in Validated(copy) : TRUE)
    BY <1>2 DEF Clears
  <2> QED
    BY <2>1, <2>2 DEF Validated
<1> QED
  BY <1>1, <1>2

\* Every variable keeps its type.
LEMMA TypeNext ==
  ASSUME TypeInv, RoomInv, [WNext]_wvars
  PROVE  TypeInv'
<1>1. ASSUME NEW n \in Lengths, DeviceSends(n) PROVE TypeInv'
  <2>1. Len(len) + 1 \in Nat
    BY DEF TypeInv
  <2>2. len' \in Seq(Lengths)
    BY <1>1 DEF DeviceSends, TypeInv
  <2>3. FrameBytes(Len(len) + 1, n) \in Seq(Bytes)
    BY <2>1, FrameType
  <2>4. line' \in Seq(Bytes)
    BY <1>1, <2>3 DEF DeviceSends, TypeInv
  <2> QED
    BY <1>1, <2>2, <2>4 DEF TypeInv, DeviceSends, ringVars, parserVars, mainVars
<1>2. CASE LoseByte
  <2>1. line' \in Seq(Bytes) /\ lost' \in Seq(Bytes)
    BY <1>2 DEF LoseByte, TypeInv
  <2> QED
    BY <1>2, <2>1 DEF TypeInv, LoseByte, ringVars, parserVars, mainVars
<1>3. CASE ReadFile
  <2>1. line' \in Seq(Bytes) /\ temp' \in Seq(Bytes)
    BY <1>3, WinAssumption DEF ReadFile, TypeInv
  <2> QED
    BY <1>3, <2>1 DEF TypeInv, ReadFile, parserVars, mainVars
<1>4. CASE PushByte
  <2>1. temp' \in Seq(Bytes)
    BY <1>4 DEF PushByte, TypeInv
  <2> QED
    BY <1>4, <2>1, RingPush DEF TypeInv, PushByte, portVars, parserVars, mainVars
<1>5. CASE WaitSync \/ WaitLen \/ WaitPayload
  <2>1. TakesByte
    BY <1>5 DEF WaitSync, WaitLen, WaitPayload
  <2>2. rxByte \in Bytes /\ rx_tail' \in 0..(Size - 1)
    BY <2>1, RingTake DEF TypeInv, rxByte
  <2>3. out' \in Seq(Bytes)
    <3>1. <<rxByte>> \in Seq(Bytes) /\ Append(out, rxByte) \in Seq(Bytes) /\ out \in Seq(Bytes)
      BY <2>2 DEF TypeInv
    <3>2. out' \in {out, <<rxByte>>, Append(out, rxByte)}
      BY <1>5 DEF WaitSync, WaitLen, WaitPayload
    <3> QED
      BY <3>1, <3>2
  <2>4. expected' \in Nat
    BY <1>5, LengthType DEF WaitSync, WaitLen, WaitPayload, TypeInv
  <2>5. pending' \in BOOLEAN /\ state' \in {"WAIT_SYNC", "WAIT_LEN", "WAIT_PAYLOAD", "OFFERED"}
    BY <1>5 DEF WaitSync, WaitLen, WaitPayload, TypeInv
  <2> QED
    BY <2>1, <2>2, <2>3, <2>4, <2>5 DEF TypeInv, TakesByte, portVars, mainVars
<1>6. CASE SeesByte \/ Resume \/ Copies
  BY <1>6 DEF TypeInv, SeesByte, Resume, Copies, portVars, ringVars, parserVars, mainVars
<1>7. CASE Clears
  <2>1. taken' \in Seq(Nat)
    <3>1. \A f \in DOMAIN len : Append(taken, f) \in Seq(Nat)
      BY DEF TypeInv
    <3> QED
      BY <1>7, <3>1, ClearsNext DEF TypeInv
  <2>2. copy' \in Seq(Bytes) /\ pending' \in BOOLEAN
    <3>1. copy' = <<>> /\ pending' = FALSE
      BY <1>7 DEF Clears
    <3>2. <<>> \in Seq(Bytes)
      OBVIOUS
    <3> QED
      BY <3>1, <3>2
  <2>3. UNCHANGED <<portVars, ringVars, parserVars>>
    BY <1>7 DEF Clears
  <2> QED
    BY <2>1, <2>2, <2>3 DEF TypeInv, portVars, ringVars, parserVars
<1>8. CASE UNCHANGED wvars
  BY <1>8 DEF TypeInv, wvars, portVars, ringVars, parserVars, mainVars
<1> QED
  BY <1>1, <1>2, <1>3, <1>4, <1>5, <1>6, <1>7, <1>8 DEF WNext, Uart, Parser, Main

\* The parser leaves output_buf alone as long as the main thread may be copying it.
LEMMA OfferNext ==
  ASSUME TypeInv, OfferInv, [WNext]_wvars
  PROVE  OfferInv'
<1>1. ASSUME NEW n \in Lengths, DeviceSends(n) PROVE OfferInv'
  BY <1>1 DEF DeviceSends, OfferInv, CopyIsStable, parserVars, mainVars
<1>2. CASE LoseByte \/ Uart \/ SeesByte \/ UNCHANGED wvars
  <2>1. UNCHANGED <<pending, state, out, copy>>
    BY <1>2 DEF LoseByte, Uart, ReadFile, PushByte, SeesByte, wvars, parserVars, mainVars
  <2> QED
    BY <2>1 DEF OfferInv, CopyIsStable
<1>3. CASE WaitSync \/ WaitLen \/ WaitPayload
  <2>1. ~pending /\ copy = <<>>
    BY <1>3 DEF WaitSync, WaitLen, WaitPayload, OfferInv, CopyIsStable
  <2>2. copy' = copy /\ (pending' => state' = "OFFERED")
    BY <1>3, <2>1 DEF WaitSync, WaitLen, WaitPayload, TakesByte, mainVars
  <2> QED
    BY <2>1, <2>2 DEF OfferInv, CopyIsStable
<1>4. CASE Resume
  BY <1>4 DEF Resume, OfferInv, CopyIsStable, mainVars
<1>5. CASE Copies
  <2>1. pending /\ copy' = out /\ UNCHANGED <<pending, state, out>>
    BY <1>5 DEF Copies, parserVars
  <2> QED
    BY <2>1 DEF OfferInv, CopyIsStable
<1>6. CASE Clears
  BY <1>6 DEF Clears, OfferInv, CopyIsStable
<1> QED
  BY <1>1, <1>2, <1>3, <1>4, <1>5, <1>6 DEF WNext, Parser, Main

----------------------------------------------------------------------------
(* What a step does to the bytes on their way *)

\* Concatenation is associative.
LEMMA ConcatAssociates ==
  ASSUME NEW S, NEW x \in Seq(S), NEW y \in Seq(S), NEW z \in Seq(S)
  PROVE  (x \o y) \o z = x \o (y \o z)
<1>1. x \o y \in Seq(S) /\ y \o z \in Seq(S)
  OBVIOUS
<1>2. (x \o y) \o z \in Seq(S) /\ x \o (y \o z) \in Seq(S)
  BY <1>1
<1>3. Len((x \o y) \o z) = Len(x \o (y \o z))
  BY <1>1
<1>4. \A i \in 1..Len((x \o y) \o z) : ((x \o y) \o z)[i] = (x \o (y \o z))[i]
  BY <1>1
<1> QED
  BY <1>2, <1>3, <1>4, SeqEqual

\* The oldest element of one queue moves behind the newest of the queue before it.
LEMMA MoveOne ==
  ASSUME NEW S, NEW x \in Seq(S), NEW r \in Seq(S), NEW z \in Seq(S), r # <<>>
  PROVE  Append(x, Head(r)) \o (Tail(r) \o z) = x \o (r \o z)
<1>1. Append(x, Head(r)) \in Seq(S) /\ Tail(r) \in Seq(S) /\ r \o z \in Seq(S)
  OBVIOUS
<1>2. Tail(r) \o z \in Seq(S) /\ Len(Tail(r)) = Len(r) - 1 /\ Len(r) >= 1
  BY <1>1
<1>3. /\ Append(x, Head(r)) \o (Tail(r) \o z) \in Seq(S)
      /\ x \o (r \o z) \in Seq(S)
  BY <1>1, <1>2
<1>4. /\ Len(Append(x, Head(r)) \o (Tail(r) \o z)) = Len(x) + Len(r) + Len(z)
      /\ Len(x \o (r \o z)) = Len(x) + Len(r) + Len(z)
  BY <1>1, <1>2
<1>5. \A i \in 1..(Len(x) + Len(r) + Len(z)) :
         (Append(x, Head(r)) \o (Tail(r) \o z))[i] = (x \o (r \o z))[i]
  <2> SUFFICES ASSUME NEW i \in 1..(Len(x) + Len(r) + Len(z))
               PROVE  (Append(x, Head(r)) \o (Tail(r) \o z))[i] = (x \o (r \o z))[i]
    OBVIOUS
  <2>1. CASE i <= Len(x)
    BY <1>1, <1>2, <2>1
  <2>2. CASE i = Len(x) + 1
    BY <1>1, <1>2, <2>2
  <2>3. CASE i > Len(x) + 1
    <3>1. (Append(x, Head(r)) \o (Tail(r) \o z))[i] = (Tail(r) \o z)[i - Len(x) - 1]
      BY <1>1, <1>2, <1>4, <2>3
    <3>2. (x \o (r \o z))[i] = (r \o z)[i - Len(x)]
      BY <1>1, <1>2, <1>4, <2>3
    <3>3. (Tail(r) \o z)[i - Len(x) - 1] = (r \o z)[i - Len(x)]
      BY <1>1, <1>2, <2>3
    <3> QED
      BY <3>1, <3>2, <3>3
  <2> QED
    BY <2>1, <2>2, <2>3
<1> QED
  BY <1>3, <1>4, <1>5, SeqEqual

\* The bytes on their way, one queue behind the other.
StreamParts ==
  /\ Live \in Seq(Bytes) /\ Ring \in Seq(Bytes) /\ temp \in Seq(Bytes)
  /\ line \in Seq(Bytes) /\ Unparsed \in Seq(Bytes) /\ Stream \in Seq(Bytes)
  /\ Unparsed = Ring \o (temp \o line)
  /\ Stream = Live \o (Ring \o (temp \o line))

\* They are sequences of bytes.
LEMMA StreamType == TypeInv => StreamParts
<1> SUFFICES ASSUME TypeInv PROVE StreamParts
  OBVIOUS
<1>1. <<>> \in Seq(Bytes)
  OBVIOUS
<1>2. Live \in Seq(Bytes)
  BY <1>1 DEF Live, TypeInv
<1>3. temp \in Seq(Bytes) /\ line \in Seq(Bytes)
  BY DEF TypeInv
<1>4. /\ Ring \in Seq(Bytes) /\ Unparsed = (Ring \o temp) \o line /\ Unparsed \in Seq(Bytes)
  BY RingType
<1>5. Unparsed = Ring \o (temp \o line)
  BY <1>3, <1>4, ConcatAssociates
<1>6. Stream \in Seq(Bytes)
  BY <1>2, <1>4 DEF Stream
<1> QED
  BY <1>2, <1>3, <1>4, <1>5, <1>6 DEF Stream, StreamParts

\* The same after a step.
LEMMA StreamTypeNext == TypeInv' => StreamParts'
BY StreamType, PTL

\* Bytes that only move from one queue to the next stay what they are.
LEMMA StreamMoves ==
  ASSUME TypeInv, TypeInv', RoomInv, OfferInv,
         Uart \/ SeesByte \/ Resume \/ Copies \/ UNCHANGED wvars
  PROVE  Stream' = Stream /\ UNCHANGED <<len, lost, taken>>
<1>1. UNCHANGED <<len, lost, taken>>
  BY DEF Uart, ReadFile, PushByte, SeesByte, Resume, Copies, wvars, portVars, mainVars
<1>2. Live' = Live
  <2>1. out' = out /\ pending' = pending
    BY DEF Uart, ReadFile, PushByte, SeesByte, Resume, Copies, wvars, parserVars
  <2>2. state' = state \/ (state = "OFFERED" /\ state' = "WAIT_SYNC")
    BY DEF Uart, ReadFile, PushByte, SeesByte, Resume, Copies, wvars, parserVars
  <2> QED
    BY <2>1, <2>2 DEF Live
<1>3. Unparsed' = Unparsed
  <2>1. CASE PushByte
    <3>1. Ring' = Append(Ring, Head(temp)) /\ temp' = Tail(temp) /\ line' = line /\ temp # <<>>
      <4>1. Ring' = Append(Ring, temp[1])
        BY <2>1, RingPush
      <4>2. temp' = Tail(temp) /\ line' = line /\ temp # <<>>
        BY <2>1 DEF PushByte, portVars
      <4>3. Head(temp) = temp[1]
        BY <4>2 DEF TypeInv
      <4> QED
        BY <4>1, <4>2, <4>3
    <3>2. Unparsed' = Append(Ring, Head(temp)) \o (Tail(temp) \o line)
      <4>1. Unparsed' = Ring' \o (temp' \o line')
        BY StreamTypeNext DEF StreamParts
      <4> QED
        BY <3>1, <4>1
    <3>3. Unparsed = Ring \o (temp \o line)
      BY StreamType DEF StreamParts
    <3>4. Append(Ring, Head(temp)) \o (Tail(temp) \o line) = Ring \o (temp \o line)
      <4>1. Ring \in Seq(Bytes) /\ temp \in Seq(Bytes) /\ line \in Seq(Bytes)
        BY StreamType DEF StreamParts
      <4>2. temp # <<>>
        BY <3>1
      <4> QED
        BY <4>1, <4>2, MoveOne
    <3> QED
      BY <3>2, <3>3, <3>4
  <2>2. CASE ReadFile
    <3>1. Ring' = Ring
      BY <2>2 DEF ReadFile, Ring, Unread
    <3>2. temp' \o line' = line
      <4>1. PICK n \in 1..Chunk :
              /\ n <= Len(line) /\ temp' = SubSeq(line, 1, n)
              /\ line' = SubSeq(line, n + 1, Len(line))
        BY <2>2 DEF ReadFile
      <4>2. n \in Nat /\ n >= 1 /\ line \in Seq(Bytes)
        BY WinAssumption DEF TypeInv
      <4>3. Len(temp') = n /\ Len(line') = Len(line) - n
        BY <4>1, <4>2
      <4>6. temp' \in Seq(Bytes) /\ line' \in Seq(Bytes)
        BY StreamTypeNext DEF StreamParts
      <4>4. temp' \o line' \in Seq(Bytes) /\ Len(temp' \o line') = Len(line)
        BY <4>2, <4>3, <4>6, SMTT(30)
      <4>5. \A i \in 1..Len(line) : (temp' \o line')[i] = line[i]
        <5> SUFFICES ASSUME NEW i \in 1..Len(line) PROVE (temp' \o line')[i] = line[i]
          OBVIOUS
        <5>1. CASE i <= n
          <6>1. (temp' \o line')[i] = temp'[i]
            BY <4>2, <4>3, <4>6, <5>1
          <6>2. temp'[i] = line[i]
            BY <4>1, <4>2, <5>1
          <6> QED
            BY <6>1, <6>2
        <5>2. CASE i > n
          <6>1. (temp' \o line')[i] = line'[i - n]
            BY <4>2, <4>3, <4>6, <5>2
          <6>2. line'[i - n] = line[i]
            BY <4>1, <4>2, <5>2
          <6> QED
            BY <6>1, <6>2
        <5> QED
          <6>1. i <= n \/ i > n
            BY <4>2
          <6> QED
            BY <5>1, <5>2, <6>1
      <4> QED
        BY <4>2, <4>4, <4>5, SeqEqual
    <3>3. temp \o line = line
      BY <2>2 DEF ReadFile, TypeInv
    <3>4. Unparsed' = Ring' \o (temp' \o line')
      BY StreamTypeNext DEF StreamParts
    <3> QED
      BY <3>1, <3>2, <3>3, <3>4, StreamType DEF StreamParts
  <2>3. CASE SeesByte \/ Resume \/ Copies \/ UNCHANGED wvars
    <3>1. UNCHANGED <<line, temp, rx_buf, rx_head, rx_tail>>
      BY <2>3 DEF SeesByte, Resume, Copies, wvars, portVars, ringVars
    <3> QED
      BY <3>1 DEF Unparsed, Unread
  <2> QED
    BY <2>1, <2>2, <2>3 DEF Uart
<1> QED
  BY <1>1, <1>2, <1>3 DEF Stream

\* The parser puts the oldest byte of the ring behind those it has of a frame, or drops
\* one that does not begin a frame.
LEMMA StreamParsed ==
  ASSUME TypeInv, TypeInv', RoomInv, OfferInv, WaitSync \/ WaitLen \/ WaitPayload
  PROVE  /\ UNCHANGED <<len, lost, taken>> /\ ~pending
         /\ Len(Live) + 1 \in DOMAIN Stream /\ Stream[Len(Live) + 1] = rxByte
         /\ \/ /\ Stream' = Stream /\ Live' = Append(Live, rxByte) /\ out' = Live'
            \/ /\ Stream' = Tail(Stream) /\ state = "WAIT_SYNC" /\ ~IsSync(rxByte)
<1>1. TakesByte /\ state # "OFFERED"
  BY DEF WaitSync, WaitLen, WaitPayload
<1>2. UNCHANGED <<len, line, lost, temp, taken>> /\ ~pending
  BY <1>1 DEF TakesByte, portVars, mainVars, OfferInv
<1>3. Ring # <<>> /\ rxByte = Head(Ring) /\ Ring' = Tail(Ring)
  BY <1>1, RingTake
<1>4. /\ Live \in Seq(Bytes) /\ Ring \in Seq(Bytes) /\ temp \o line \in Seq(Bytes)
      /\ Stream = Live \o (Ring \o (temp \o line))
  BY StreamType, SMTT(30) DEF StreamParts
<1>5. Len(Live) + 1 \in DOMAIN Stream /\ Stream[Len(Live) + 1] = rxByte
  <2>1. Len(Live) \in Nat /\ Len(Ring) >= 1 /\ Len(Ring) \in Nat /\ Head(Ring) = Ring[1]
    BY <1>3, <1>4
  <2>2. Ring \o (temp \o line) \in Seq(Bytes)
    BY <1>4
  <2>3. /\ Len(Ring \o (temp \o line)) >= 1
        /\ (Ring \o (temp \o line))[1] = Ring[1]
    BY <1>4, <2>1
  <2>4. Stream \in Seq(Bytes) /\ Len(Stream) = Len(Live) + Len(Ring \o (temp \o line))
    BY <1>4, <2>2
  <2>5. Stream[Len(Live) + 1] = (Ring \o (temp \o line))[1]
    BY <1>4, <2>1, <2>2, <2>3
  <2> QED
    BY <1>3, <2>1, <2>2, <2>3, <2>4, <2>5
<1>6. Stream' = Live' \o (Tail(Ring) \o (temp \o line))
  <2>1. Stream' = Live' \o (Ring' \o (temp' \o line'))
    BY StreamTypeNext DEF StreamParts
  <2> QED
    BY <1>2, <1>3, <2>1
<1>7. ASSUME Live' = Append(Live, rxByte) PROVE Stream' = Stream
  <2>1. Append(Live, Head(Ring)) \o (Tail(Ring) \o (temp \o line))
          = Live \o (Ring \o (temp \o line))
    <3>1. \A x, r, z \in Seq(Bytes) :
            r # <<>> => Append(x, Head(r)) \o (Tail(r) \o z) = x \o (r \o z)
      BY MoveOne, SMTT(30)
    <3> QED
      BY <1>3, <1>4, <3>1, Zenon
  <2> QED
    BY <1>3, <1>4, <1>6, <1>7, <2>1
<1>8. CASE WaitSync /\ IsSync(rxByte)
  <2>1. Live = <<>> /\ Live' = <<rxByte>> /\ out' = <<rxByte>>
    BY <1>2, <1>8 DEF Live, WaitSync
  <2>2. Live' = Append(Live, rxByte)
    BY <2>1
  <2> QED
    BY <1>2, <1>5, <1>7, <2>1, <2>2
<1>9. CASE WaitSync /\ ~IsSync(rxByte)
  <2>1. Live = <<>> /\ Live' = <<>> /\ state = "WAIT_SYNC"
    BY <1>2, <1>9 DEF Live, WaitSync
  <2>2. <<>> \o (Tail(Ring) \o (temp \o line)) = Tail(<<>> \o (Ring \o (temp \o line)))
    <3> DEFINE z == temp \o line
    <3>1. /\ Ring \in Seq(Bytes) /\ z \in Seq(Bytes) /\ Ring # <<>> /\ Tail(Ring) \in Seq(Bytes)
          /\ Len(Tail(Ring)) = Len(Ring) - 1 /\ Len(Ring) >= 1
      BY <1>3, <1>4
    <3> HIDE DEF z
    <3>2. <<>> \o (Ring \o z) = Ring \o z /\ <<>> \o (Tail(Ring) \o z) = Tail(Ring) \o z
      BY <3>1
    <3>3. Tail(Ring) \o z \in Seq(Bytes) /\ Tail(Ring \o z) \in Seq(Bytes)
      BY <3>1
    <3>4. Len(Tail(Ring) \o z) = Len(Tail(Ring \o z))
      BY <3>1
    <3>5. \A i \in 1..Len(Tail(Ring) \o z) : (Tail(Ring) \o z)[i] = Tail(Ring \o z)[i]
      BY <3>1
    <3>6. Tail(Ring) \o z = Tail(Ring \o z)
      BY <3>3, <3>4, <3>5, SeqEqual
    <3> QED
      BY <3>2, <3>6 DEF z
  <2>3. Stream' = Tail(Stream)
    BY <1>4, <1>6, <2>1, <2>2
  <2> QED
    BY <1>2, <1>5, <1>9, <2>1, <2>3
<1>10. CASE WaitLen \/ WaitPayload
  <2>1. Live = out /\ out' = Append(out, rxByte)
    BY <1>10 DEF Live, WaitLen, WaitPayload
  <2>2. state' \in {"WAIT_LEN", "WAIT_PAYLOAD"} \/ pending'
    BY <1>10 DEF WaitLen, WaitPayload
  <2>3. Live' = Append(Live, rxByte) /\ out' = Live'
    BY <2>1, <2>2 DEF Live
  <2> QED
    BY <1>2, <1>5, <1>7, <2>3
<1> QED
  BY <1>8, <1>9, <1>10

\* The bytes of a frame sent come behind all others.
LEMMA StreamGrows ==
  ASSUME TypeInv, TypeInv', NEW n \in Lengths, DeviceSends(n)
  PROVE  /\ Stream' = Stream \o FrameBytes(Len(len) + 1, n)
         /\ len' = Append(len, n) /\ UNCHANGED <<lost, taken>>
<1>1. /\ line' = line \o FrameBytes(Len(len) + 1, n) /\ len' = Append(len, n)
      /\ UNCHANGED <<lost, ringVars, parserVars, pending, mainVars>>
  BY DEF DeviceSends
<1>2. Live' = Live
  BY <1>1 DEF Live, parserVars
<1>3. Ring' = Ring /\ temp' = temp
  BY <1>1 DEF Ring, Unread, ringVars
<1> DEFINE x == Live  r == Ring  s == temp  z == line  b == FrameBytes(Len(len) + 1, n)
<1>4. x \in Seq(Bytes) /\ r \in Seq(Bytes) /\ s \in Seq(Bytes) /\ z \in Seq(Bytes)
  BY StreamType DEF StreamParts
<1>5. b \in Seq(Bytes)
  <2>1. Len(len) + 1 \in Nat
    BY DEF TypeInv
  <2> QED
    BY <2>1, FrameType
<1>6. Stream = x \o (r \o (s \o z)) /\ Stream' = x \o (r \o (s \o (z \o b)))
  <2>1. Stream' = Live' \o (Ring' \o (temp' \o line'))
    BY StreamTypeNext DEF StreamParts
  <2>2. Stream = Live \o (Ring \o (temp \o line))
    BY StreamType DEF StreamParts
  <2> QED
    BY <1>1, <1>2, <1>3, <2>1, <2>2
<1> HIDE DEF x, r, s, z, b
<1>11. s \o z \in Seq(Bytes) /\ r \o (s \o z) \in Seq(Bytes)
  BY <1>4
<1>12. \A u, v, w \in Seq(Bytes) : (u \o v) \o w = u \o (v \o w)
  BY ConcatAssociates, SMTT(30)
<1>7. (s \o z) \o b = s \o (z \o b)
  BY <1>4, <1>5, <1>12, ZenonT(40)
<1> DEFINE t == s \o z  u == r \o t
<1>13. t \in Seq(Bytes) /\ u \in Seq(Bytes)
  BY <1>11
<1> HIDE DEF t
<1>14. (r \o t) \o b = r \o (t \o b)
  <2>1. r \in Seq(Bytes)
    BY <1>4
  <2>2. t \in Seq(Bytes)
    BY <1>13
  <2> QED
    BY <2>1, <2>2, <1>5, <1>12, Zenon
<1> HIDE DEF u
<1>15. (x \o u) \o b = x \o (u \o b)
  <2>1. x \in Seq(Bytes)
    BY <1>4
  <2>2. u \in Seq(Bytes)
    BY <1>13
  <2> QED
    BY <2>1, <2>2, <1>5, <1>12, Zenon
<1>8. (r \o (s \o z)) \o b = r \o ((s \o z) \o b)
  BY <1>14 DEF t
<1>9. (x \o (r \o (s \o z))) \o b = x \o ((r \o (s \o z)) \o b)
  BY <1>15 DEF t, u
<1>10. Stream' = Stream \o b
  BY <1>6, <1>7, <1>8, <1>9, Zenon
<1> QED
  BY <1>1, <1>10 DEF b, mainVars

\* The driver takes what is on offer: what it collected leaves the front.
LEMMA StreamTaken ==
  ASSUME TypeInv, TypeInv', OfferInv, Clears
  PROVE  /\ Stream = copy \o Stream' /\ copy # <<>> /\ copy = out /\ pending /\ ~pending'
         /\ UNCHANGED <<len, lost, state>>
<1>1. /\ copy # <<>> /\ pending /\ copy = out /\ state = "OFFERED"
      /\ pending' = FALSE /\ UNCHANGED <<portVars, ringVars, parserVars>>
  BY DEF Clears, OfferInv, CopyIsStable
<1>2. Live = copy /\ Live' = <<>>
  BY <1>1 DEF Live, parserVars
<1>3. Unparsed' = Unparsed
  BY <1>1 DEF Unparsed, Unread, portVars, ringVars
<1>4. <<>> \o Unparsed = Unparsed
  <2>1. Unparsed \in Seq(Bytes)
    BY StreamType DEF StreamParts
  <2> QED
    BY <2>1
<1>5. Stream' = Unparsed /\ Stream = copy \o Unparsed
  BY <1>2, <1>3, <1>4 DEF Stream
<1> QED
  BY <1>1, <1>5 DEF portVars, parserVars

\* A byte lost is missing, and the others are in the order they were in.
LEMMA StreamShrinks ==
  ASSUME TypeInv, TypeInv', LoseByte
  PROVE  /\ \E p \in 0..(Len(Stream) - 1) :
              /\ Len(Stream') = Len(Stream) - 1
              /\ \A i \in DOMAIN Stream' :
                   Stream'[i] = Stream[IF i <= p THEN i ELSE i + 1]
              /\ lost' = Append(lost, Stream[p + 1])
         /\ UNCHANGED <<len, taken>> /\ MaxLost > 0
<1>1. /\ line # <<>> /\ line' = Tail(line) /\ Len(lost) < MaxLost
      /\ UNCHANGED <<len, ringVars, parserVars, pending, mainVars>>
  BY DEF LoseByte
<1>2. Live' = Live
  BY <1>1 DEF Live, parserVars
<1>3. Ring' = Ring /\ temp' = temp
  BY <1>1 DEF Ring, Unread, ringVars
<1> DEFINE x == Live  r == Ring  s == temp  z == line  q == x \o (r \o s)
<1>4. x \in Seq(Bytes) /\ r \in Seq(Bytes) /\ s \in Seq(Bytes) /\ z \in Seq(Bytes)
  BY StreamType DEF StreamParts
<1>5. Stream = x \o (r \o (s \o z)) /\ Stream' = x \o (r \o (s \o Tail(z)))
  <2>1. Stream' = Live' \o (Ring' \o (temp' \o line'))
    BY StreamTypeNext DEF StreamParts
  <2>2. Stream = Live \o (Ring \o (temp \o line))
    BY StreamType DEF StreamParts
  <2> QED
    BY <1>1, <1>2, <1>3, <2>1, <2>2
<1>6. z # <<>>
  BY <1>1
<1> HIDE DEF x, r, s, z
<1>7. Tail(z) \in Seq(Bytes) /\ Len(Tail(z)) = Len(z) - 1 /\ Len(z) >= 1
  BY <1>4, <1>6
<1>8. \A i \in 1..(Len(z) - 1) : Tail(z)[i] = z[i + 1]
  BY <1>4, <1>6
<1>9. q \in Seq(Bytes)
  BY <1>4
<1>10. \A y \in Seq(Bytes) : x \o (r \o (s \o y)) = q \o y
  <2> SUFFICES ASSUME NEW y \in Seq(Bytes) PROVE x \o (r \o (s \o y)) = q \o y
    OBVIOUS
  <2>1. r \o s \in Seq(Bytes)
    BY <1>4
  <2>2. \A u, v, w \in Seq(Bytes) : (u \o v) \o w = u \o (v \o w)
    BY ConcatAssociates
  <2>3. (r \o s) \o y = r \o (s \o y)
    BY <1>4, <2>2, ZenonT(40)
  <2> DEFINE t == r \o s
  <2>5. t \in Seq(Bytes)
    BY <2>1
  <2> HIDE DEF t
  <2>6. (x \o t) \o y = x \o (t \o y)
    <3>1. x \in Seq(Bytes)
      BY <1>4
    <3> QED
      BY <2>2, <2>5, <3>1, Zenon
  <2>4. (x \o (r \o s)) \o y = x \o ((r \o s) \o y)
    BY <2>6 DEF t
  <2> QED
    BY <2>3, <2>4, Zenon
<1>11. Stream = q \o z /\ Stream' = q \o Tail(z)
  BY <1>4, <1>5, <1>7, <1>10
<1> HIDE DEF q
<1>12. Len(q) \in Nat /\ Len(q \o z) = Len(q) + Len(z) /\ Len(q \o Tail(z)) = Len(q) + Len(z) - 1
  BY <1>4, <1>7, <1>9
<1>13. \A i \in 1..(Len(q) + Len(z) - 1) :
          (q \o Tail(z))[i] = (q \o z)[IF i <= Len(q) THEN i ELSE i + 1]
  <2> SUFFICES ASSUME NEW i \in 1..(Len(q) + Len(z) - 1)
               PROVE  (q \o Tail(z))[i] = (q \o z)[IF i <= Len(q) THEN i ELSE i + 1]
    OBVIOUS
  <2>1. CASE i <= Len(q)
    BY <1>4, <1>7, <1>9, <2>1
  <2>2. CASE i > Len(q)
    <3>1. (q \o Tail(z))[i] = Tail(z)[i - Len(q)]
      BY <1>4, <1>7, <1>9, <2>2
    <3>2. (q \o z)[i + 1] = z[i + 1 - Len(q)]
      BY <1>4, <1>7, <1>9, <2>2
    <3>3. Tail(z)[i - Len(q)] = z[(i - Len(q)) + 1]
      <4>1. i - Len(q) \in 1..(Len(z) - 1)
        BY <1>4, <1>12, <2>2
      <4> QED
        BY <1>8, <4>1
    <3>4. (i - Len(q)) + 1 = i + 1 - Len(q)
      BY <1>12
    <3>5. ~(i <= Len(q))
      BY <1>12, <2>2
    <3> QED
      BY <3>1, <3>2, <3>3, <3>4, <3>5
  <2> QED
    BY <1>12, <2>1, <2>2
<1>14. DOMAIN Stream' = 1..(Len(q) + Len(z) - 1)
  <2>1. q \o Tail(z) \in Seq(Bytes)
    BY <1>7, <1>9
  <2> QED
    BY <1>11, <1>12, <2>1
<1>15. Len(q) \in 0..(Len(Stream) - 1) /\ Len(Stream') = Len(Stream) - 1
  BY <1>4, <1>7, <1>11, <1>12
<1>16. \A i \in DOMAIN Stream' : Stream'[i] = Stream[IF i <= Len(q) THEN i ELSE i + 1]
  BY <1>11, <1>13, <1>14
<1>17. MaxLost > 0
  <2>1. Len(lost) \in Nat /\ MaxLost \in Nat
    BY WinAssumption DEF TypeInv
  <2> QED
    BY <1>1, <2>1
<1>18. lost' = Append(lost, Stream[Len(q) + 1])
  <2>1. (q \o z)[Len(q) + 1] = z[1] /\ Head(z) = z[1]
    BY <1>4, <1>6, <1>9
  <2>2. lost' = Append(lost, Head(z))
    BY DEF LoseByte, z
  <2> QED
    BY <1>11, <2>1, <2>2
<1> QED
  BY <1>1, <1>15, <1>16, <1>17, <1>18 DEF mainVars

----------------------------------------------------------------------------
(* The bytes on their way are in order *)

\* Elements left out of an ordered sequence leave it ordered.
LEMMA OrderThinned ==
  ASSUME TypeInv, TypeInv', OrderInv, len' = len, taken' = taken,
         NEW m \in [DOMAIN Stream' -> DOMAIN Stream],
         \A i, j \in DOMAIN Stream' : i < j => m[i] < m[j],
         \A i \in DOMAIN Stream' : Stream'[i] = Stream[m[i]]
  PROVE  OrderInv'
<1>1. Line!Last' = Line!Last
  BY DEF Line!Last
<1>2. ASSUME NEW i \in DOMAIN Stream', NEW j \in DOMAIN Stream', i < j
      PROVE  Before(Stream'[i], Stream'[j])
  <2>1. m[i] \in DOMAIN Stream /\ m[j] \in DOMAIN Stream /\ m[i] < m[j]
    BY <1>2
  <2>2. Before(Stream[m[i]], Stream[m[j]])
    BY <2>1 DEF OrderInv
  <2> QED
    BY <2>2
<1>3. ASSUME NEW i \in DOMAIN Stream'
      PROVE  /\ Stream'[i].frame \in (Line!Last + 1)..Len(len)
             /\ Stream'[i].at < len[Stream'[i].frame]
  <2>1. m[i] \in DOMAIN Stream /\ Stream'[i] = Stream[m[i]]
    OBVIOUS
  <2>2. /\ Stream[m[i]].frame \in (Line!Last + 1)..Len(len)
        /\ Stream[m[i]].at < len[Stream[m[i]].frame]
    BY <2>1 DEF OrderInv
  <2> QED
    BY <2>1, <2>2
<1>4. Line!Last \in 0..Len(len)
  BY DEF OrderInv
<1> QED
  BY <1>1, <1>2, <1>3, <1>4 DEF OrderInv, Before

\* The frame a step hands over is the last one taken.
LEMMA LastTaken ==
  ASSUME TypeInv, NEW f \in Nat, taken' = Append(taken, f)
  PROVE  Line!Last' = f
<1>1. taken \in Seq(Nat)
  BY DEF TypeInv
<1>2. Len(taken') = Len(taken) + 1 /\ Len(taken) \in Nat /\ taken' # <<>>
  BY <1>1
<1>3. taken'[Len(taken) + 1] = f
  BY <1>1
<1> QED
  BY <1>2, <1>3 DEF Line!Last

\* What the driver takes is one frame later than the last, and what is left is later still.
LEMMA TakenInOrder ==
  ASSUME TypeInv, TypeInv', OfferInv, OrderInv, Clears
  PROVE  /\ OrderInv'
         /\ \A f \in DOMAIN len : copy = FrameBytes(f, len[f]) => f \in (Line!Last + 1)..Len(len)
<1>1. /\ Stream = copy \o Stream' /\ copy # <<>> /\ len' = len
  BY StreamTaken
<1>2. copy \in Seq(Bytes) /\ Stream' \in Seq(Bytes) /\ Stream \in Seq(Bytes)
  BY StreamType, StreamTypeNext DEF StreamParts, TypeInv
<1>3. /\ Len(copy) \in Nat /\ Len(copy) >= 1 /\ Len(Stream') \in Nat
      /\ Len(Stream) = Len(copy) + Len(Stream')
      /\ DOMAIN Stream = 1..(Len(copy) + Len(Stream')) /\ DOMAIN Stream' = 1..Len(Stream')
  BY <1>1, <1>2
<1>4. \A i \in DOMAIN Stream' : Len(copy) + i \in DOMAIN Stream /\ Stream'[i] = Stream[Len(copy) + i]
  <2> SUFFICES ASSUME NEW i \in DOMAIN Stream'
               PROVE  Len(copy) + i \in DOMAIN Stream /\ Stream'[i] = Stream[Len(copy) + i]
    OBVIOUS
  <2>1. i \in 1..Len(Stream') /\ Len(copy) + i \in 1..(Len(copy) + Len(Stream'))
    BY <1>3
  <2>2. (copy \o Stream')[Len(copy) + i] = Stream'[i]
    BY <1>2, <2>1
  <2> QED
    BY <1>1, <1>3, <2>1, <2>2
<1>5. \A i \in 1..Len(copy) : i \in DOMAIN Stream /\ Stream[i] = copy[i]
  <2> SUFFICES ASSUME NEW i \in 1..Len(copy) PROVE i \in DOMAIN Stream /\ Stream[i] = copy[i]
    OBVIOUS
  <2>1. (copy \o Stream')[i] = copy[i]
    BY <1>2
  <2>2. i \in 1..(Len(copy) + Len(Stream'))
    BY <1>3
  <2> QED
    BY <1>1, <1>3, <2>1, <2>2
<1>6. ASSUME NEW f \in DOMAIN len, copy = FrameBytes(f, len[f])
      PROVE  /\ f \in (Line!Last + 1)..Len(len) /\ f \in Nat
             /\ \A i \in DOMAIN Stream' : Stream'[i].frame > f
  <2>1. len[f] \in Lengths /\ f \in Nat /\ f \in 1..Len(len)
    <3>1. len \in Seq(Lengths)
      BY DEF TypeInv
    <3> QED
      BY <3>1
  <2>2. /\ Len(copy) = len[f] /\ len[f] \in Nat /\ len[f] >= 6
        /\ \A k \in 1..len[f] : copy[k] = [frame |-> f, at |-> k - 1]
    BY <1>6, <2>1, FrameType
  <2>3. Stream[1] = copy[1] /\ 1 \in DOMAIN Stream /\ copy[1].frame = f
    <3>1. 1 \in 1..len[f] /\ 1 \in 1..Len(copy)
      BY <2>2
    <3> QED
      BY <1>5, <2>2, <3>1
  <2>4. f \in (Line!Last + 1)..Len(len)
    BY <2>3 DEF OrderInv
  <2>5. len[f] \in DOMAIN Stream /\ Stream[len[f]] = [frame |-> f, at |-> len[f] - 1]
    <3>1. len[f] \in 1..len[f] /\ len[f] \in 1..Len(copy)
      BY <2>2
    <3> QED
      BY <1>5, <2>2, <3>1
  <2>6. ASSUME NEW i \in DOMAIN Stream' PROVE Stream'[i].frame > f
    <3> DEFINE x == Stream[Len(copy) + i]
    <3>1. Len(copy) + i \in DOMAIN Stream /\ Stream'[i] = x
      BY <1>4
    <3>2. Len(copy) + i > len[f]
      BY <1>3, <2>2
    <3>3. Before(Stream[len[f]], x)
      BY <2>5, <3>1, <3>2 DEF OrderInv
    <3>4. x.frame \in (Line!Last + 1)..Len(len) /\ x.at < len[x.frame]
      BY <3>1 DEF OrderInv
    <3>5. x \in Bytes
      BY <1>2, <3>1
    <3>6. x.frame \in Nat /\ x.at \in Nat
      BY <3>5 DEF Bytes
    <3> HIDE DEF x
    <3>7. f < x.frame \/ (f = x.frame /\ len[f] - 1 < x.at)
      BY <2>5, <3>3 DEF Before
    <3>8. ~(f = x.frame /\ len[f] - 1 < x.at)
      BY <2>2, <3>4, <3>6
    <3> QED
      BY <2>1, <3>1, <3>6, <3>7, <3>8
  <2> QED
    BY <2>1, <2>4, <2>6
<1>7. CASE taken' = taken
  <2> DEFINE m == [i \in DOMAIN Stream' |-> Len(copy) + i]
  <2>1. m \in [DOMAIN Stream' -> DOMAIN Stream]
    BY <1>4
  <2>2. \A i, j \in DOMAIN Stream' : i < j => m[i] < m[j]
    BY <1>3
  <2>3. \A i \in DOMAIN Stream' : Stream'[i] = Stream[m[i]]
    BY <1>4
  <2> HIDE DEF m
  <2> QED
    BY <1>1, <1>6, <1>7, <2>1, <2>2, <2>3, OrderThinned
<1>8. ASSUME NEW f \in DOMAIN len, copy = FrameBytes(f, len[f]), taken' = Append(taken, f)
      PROVE  OrderInv'
  <2>1. /\ f \in (Line!Last + 1)..Len(len) /\ f \in Nat
        /\ \A i \in DOMAIN Stream' : Stream'[i].frame > f
    BY <1>6, <1>8
  <2>2. Line!Last' = f
    BY <1>8, <2>1, LastTaken
  <2>3. Line!Last \in 0..Len(len) /\ Len(len) \in Nat
    BY DEF OrderInv, TypeInv
  <2>4. ASSUME NEW i \in DOMAIN Stream', NEW j \in DOMAIN Stream', i < j
        PROVE  Before(Stream'[i], Stream'[j])
    <3>1. /\ Len(copy) + i \in DOMAIN Stream /\ Stream'[i] = Stream[Len(copy) + i]
          /\ Len(copy) + j \in DOMAIN Stream /\ Stream'[j] = Stream[Len(copy) + j]
      BY <1>4
    <3>2. Len(copy) + i < Len(copy) + j
      BY <1>3, <2>4
    <3>3. Before(Stream[Len(copy) + i], Stream[Len(copy) + j])
      BY <3>1, <3>2 DEF OrderInv
    <3> QED
      BY <3>1, <3>3
  <2>5. ASSUME NEW i \in DOMAIN Stream'
        PROVE  /\ Stream'[i].frame \in (f + 1)..Len(len)
               /\ Stream'[i].at < len[Stream'[i].frame]
    <3>1. Len(copy) + i \in DOMAIN Stream /\ Stream'[i] = Stream[Len(copy) + i]
      BY <1>4
    <3>2. /\ Stream'[i].frame \in (Line!Last + 1)..Len(len)
          /\ Stream'[i].at < len[Stream'[i].frame]
      BY <3>1 DEF OrderInv
    <3>3. Stream'[i].frame > f
      BY <2>1
    <3> QED
      BY <2>1, <2>3, <3>2, <3>3
  <2>6. f \in 0..Len(len)
    BY <2>1, <2>3
  <2> QED
    BY <1>1, <2>2, <2>4, <2>5, <2>6 DEF OrderInv, Before
<1> QED
  BY <1>6, <1>7, <1>8, ClearsNext

\* A frame sent comes behind all others.
LEMMA OrderGrows ==
  ASSUME TypeInv, TypeInv', OrderInv, NEW n \in Lengths, DeviceSends(n)
  PROVE  OrderInv'
<1> DEFINE l == Len(len)  b == FrameBytes(l + 1, n)
<1>1. Stream' = Stream \o b /\ len' = Append(len, n) /\ taken' = taken
  BY StreamGrows
<1>2. Line!Last' = Line!Last
  BY <1>1 DEF Line!Last
<1>3. l \in Nat /\ len \in Seq(Lengths)
  BY DEF TypeInv
<1>4. /\ n \in Nat /\ n >= 6 /\ b \in Seq(Bytes) /\ Len(b) = n
      /\ \A k \in 1..n : b[k] = [frame |-> l + 1, at |-> k - 1]
  BY <1>3, FrameType
<1>5. Stream \in Seq(Bytes)
  BY StreamType DEF StreamParts
<1>6. Len(len') = l + 1 /\ len'[l + 1] = n /\ \A f \in 1..l : len'[f] = len[f]
  BY <1>1, <1>3
<1>7. Line!Last \in 0..l
  BY DEF OrderInv
<1> HIDE DEF l, b
<1>8. /\ DOMAIN Stream = 1..Len(Stream) /\ Len(Stream) \in Nat
      /\ DOMAIN Stream' = 1..(Len(Stream) + n)
  BY <1>1, <1>4, <1>5
<1>9. \A i \in 1..Len(Stream) : Stream'[i] = Stream[i]
  BY <1>1, <1>4, <1>5
<1>10. \A i \in (Len(Stream) + 1)..(Len(Stream) + n) :
          Stream'[i].frame = l + 1 /\ Stream'[i].at = i - Len(Stream) - 1
  <2> SUFFICES ASSUME NEW i \in (Len(Stream) + 1)..(Len(Stream) + n)
               PROVE  Stream'[i].frame = l + 1 /\ Stream'[i].at = i - Len(Stream) - 1
    OBVIOUS
  <2>1. Stream'[i] = b[i - Len(Stream)]
    BY <1>1, <1>4, <1>5, SMTT(30)
  <2>2. i - Len(Stream) \in 1..n
    BY <1>4, <1>8
  <2> QED
    BY <1>4, <2>1, <2>2
<1>11. \A i \in 1..Len(Stream) :
         /\ Stream'[i].frame \in (Line!Last + 1)..l
         /\ Stream'[i].at < len'[Stream'[i].frame]
  <2> SUFFICES ASSUME NEW i \in 1..Len(Stream)
               PROVE  /\ Stream'[i].frame \in (Line!Last + 1)..l
                      /\ Stream'[i].at < len'[Stream'[i].frame]
    OBVIOUS
  <2>1. Stream[i].frame \in (Line!Last + 1)..l /\ Stream[i].at < len[Stream[i].frame]
    BY <1>8 DEF OrderInv, l
  <2>2. Stream[i].frame \in 1..l
    BY <1>3, <1>7, <2>1
  <2> QED
    BY <1>6, <1>9, <2>1, <2>2
<1>12. ASSUME NEW i \in DOMAIN Stream', NEW j \in DOMAIN Stream', i < j
       PROVE  Before(Stream'[i], Stream'[j])
  <2>1. CASE j \in 1..Len(Stream)
    <3>1. i \in 1..Len(Stream)
      BY <1>8, <1>12, <2>1
    <3>2. Before(Stream[i], Stream[j])
      BY <1>8, <1>12, <2>1, <3>1 DEF OrderInv
    <3> QED
      BY <1>9, <2>1, <3>1, <3>2
  <2>2. CASE j \notin 1..Len(Stream) /\ i \in 1..Len(Stream)
    <3>1. j \in (Len(Stream) + 1)..(Len(Stream) + n)
      BY <1>4, <1>8, <2>2
    <3>2. Stream'[j].frame = l + 1
      BY <1>10, <3>1
    <3>3. Stream'[i].frame \in (Line!Last + 1)..l
      BY <1>11, <2>2
    <3>4. Stream'[i].frame < l + 1
      BY <1>3, <1>7, <3>3 DEF l
    <3> QED
      BY <3>2, <3>4 DEF Before
  <2>3. CASE j \notin 1..Len(Stream) /\ i \notin 1..Len(Stream)
    <3>1. /\ j \in (Len(Stream) + 1)..(Len(Stream) + n)
          /\ i \in (Len(Stream) + 1)..(Len(Stream) + n)
      BY <1>4, <1>8, <2>3
    <3>2. Stream'[j].frame = l + 1 /\ Stream'[j].at = j - Len(Stream) - 1
      BY <1>10, <3>1
    <3>3. Stream'[i].frame = l + 1 /\ Stream'[i].at = i - Len(Stream) - 1
      BY <1>10, <3>1
    <3>4. i - Len(Stream) - 1 < j - Len(Stream) - 1
      BY <1>4, <1>8, <1>12, <3>1
    <3> QED
      BY <3>2, <3>3, <3>4 DEF Before
  <2> QED
    BY <2>1, <2>2, <2>3
<1>13. ASSUME NEW i \in DOMAIN Stream'
       PROVE  /\ Stream'[i].frame \in (Line!Last + 1)..(l + 1)
              /\ Stream'[i].at < len'[Stream'[i].frame]
  <2>1. CASE i \in 1..Len(Stream)
    <3>1. /\ Stream'[i].frame \in (Line!Last + 1)..l
          /\ Stream'[i].at < len'[Stream'[i].frame]
      BY <1>11, <2>1
    <3> QED
      BY <1>3, <1>7, <3>1 DEF l
  <2>2. CASE i \notin 1..Len(Stream)
    <3>1. i \in (Len(Stream) + 1)..(Len(Stream) + n)
      BY <1>4, <1>8, <2>2
    <3>2. Stream'[i].frame = l + 1 /\ Stream'[i].at = i - Len(Stream) - 1
      BY <1>10, <3>1
    <3>3. i - Len(Stream) - 1 < n
      BY <1>4, <1>8, <3>1
    <3>4. l + 1 \in (Line!Last + 1)..(l + 1)
      BY <1>3, <1>7 DEF l
    <3> QED
      BY <1>6, <3>2, <3>3, <3>4
  <2> QED
    BY <2>1, <2>2
<1>14. Line!Last \in 0..(l + 1)
  BY <1>3, <1>7 DEF l
<1> QED
  BY <1>2, <1>6, <1>12, <1>13, <1>14 DEF OrderInv, Before

\* The order is kept by every step.
LEMMA OrderNext ==
  ASSUME TypeInv, TypeInv', RoomInv, OfferInv, OrderInv, [WNext]_wvars
  PROVE  OrderInv'
<1>1. CASE \E n \in Lengths : DeviceSends(n)
  BY <1>1, OrderGrows
<1>2. CASE LoseByte
  <2>1. PICK p \in 0..(Len(Stream) - 1) :
          /\ Len(Stream') = Len(Stream) - 1
          /\ \A i \in DOMAIN Stream' :
               Stream'[i] = Stream[IF i <= p THEN i ELSE i + 1]
    BY <1>2, StreamShrinks
  <2>2. len' = len /\ taken' = taken
    BY <1>2, StreamShrinks
  <2>3. Stream \in Seq(Bytes) /\ Stream' \in Seq(Bytes)
    BY StreamType, StreamTypeNext DEF StreamParts
  <2>4. DOMAIN Stream = 1..Len(Stream) /\ DOMAIN Stream' = 1..(Len(Stream) - 1) /\ Len(Stream) \in Nat
    BY <2>1, <2>3
  <2> DEFINE m == [i \in DOMAIN Stream' |-> IF i <= p THEN i ELSE i + 1]
  <2>5. m \in [DOMAIN Stream' -> DOMAIN Stream]
    BY <2>4
  <2>6. \A i, j \in DOMAIN Stream' : i < j => m[i] < m[j]
    BY <2>4
  <2>7. \A i \in DOMAIN Stream' : Stream'[i] = Stream[m[i]]
    BY <2>1
  <2> HIDE DEF m
  <2> QED
    BY <2>2, <2>5, <2>6, <2>7, OrderThinned
<1>3. CASE WaitSync \/ WaitLen \/ WaitPayload
  <2>1. len' = len /\ taken' = taken
    BY <1>3, StreamParsed
  <2>2. CASE Stream' = Stream
    BY <2>1, <2>2 DEF OrderInv, Line!Last
  <2>3. CASE Stream' = Tail(Stream)
    <3>1. Stream \in Seq(Bytes) /\ Stream # <<>>
      <4>1. Stream \in Seq(Bytes) /\ Len(Live) \in Nat
        BY StreamType DEF StreamParts
      <4>2. Len(Live) + 1 \in DOMAIN Stream
        BY <1>3, StreamParsed
      <4> QED
        BY <4>1, <4>2
    <3>2. /\ DOMAIN Stream = 1..Len(Stream) /\ Len(Stream) \in Nat
          /\ DOMAIN Stream' = 1..(Len(Stream) - 1)
          /\ \A i \in 1..(Len(Stream) - 1) : Stream'[i] = Stream[i + 1]
      BY <2>3, <3>1
    <3> DEFINE m == [i \in DOMAIN Stream' |-> i + 1]
    <3>3. m \in [DOMAIN Stream' -> DOMAIN Stream]
      BY <3>2
    <3>4. \A i, j \in DOMAIN Stream' : i < j => m[i] < m[j]
      BY <3>2
    <3>5. \A i \in DOMAIN Stream' : Stream'[i] = Stream[m[i]]
      BY <3>2
    <3> HIDE DEF m
    <3> QED
      BY <2>1, <3>3, <3>4, <3>5, OrderThinned
  <2> QED
    BY <1>3, <2>2, <2>3, StreamParsed
<1>4. CASE Clears
  BY <1>4, TakenInOrder
<1>5. CASE Uart \/ SeesByte \/ Resume \/ Copies \/ UNCHANGED wvars
  <2>1. Stream' = Stream /\ UNCHANGED <<len, taken>>
    BY <1>5, StreamMoves
  <2> QED
    BY <2>1 DEF OrderInv, Line!Last
<1> QED
  BY <1>1, <1>2, <1>3, <1>4, <1>5 DEF WNext, Parser, Main

----------------------------------------------------------------------------
(* While nothing is lost *)

\* A frame has six bytes at least.
LEMMA LengthsAreLong == \A n \in Lengths : n \in Nat /\ n >= 6
<1> SUFFICES ASSUME NEW n \in Lengths PROVE n \in Nat /\ n >= 6
  OBVIOUS
<1>1. n \in 6..(Size - 1) /\ Size \in Nat
  BY WinAssumption
<1> QED
  BY <1>1

\* The bytes on their way begin with the frame after the last one taken.
LEMMA FirstFrame ==
  ASSUME TypeInv, OrderInv, NEW off \in Offsets, AreFrames(off), Stream # <<>>
  PROVE  /\ Line!Last \in Nat /\ Line!Last < Len(len)
         /\ len[Line!Last + 1] \in Nat /\ len[Line!Last + 1] >= 6
         /\ len[Line!Last + 1] \in Lengths
         /\ len[Line!Last + 1] <= Len(Stream)
         /\ off[Line!Last + 2] = len[Line!Last + 1]
         /\ \A k \in 1..len[Line!Last + 1] : Stream[k] = [frame |-> Line!Last + 1, at |-> k - 1]
<1> DEFINE a == Line!Last  l == Len(len)  n == len[a + 1]
<1>1. Stream \in Seq(Bytes) /\ Len(Stream) \in Nat /\ Len(Stream) > 0
  <2>1. Stream \in Seq(Bytes)
    BY StreamType DEF StreamParts
  <2> QED
    BY <2>1
<1>2. len \in Seq(Lengths) /\ l \in Nat /\ a \in 0..l
  BY DEF TypeInv, OrderInv
<1>3. off[a + 1] = 0 /\ off[l + 1] = Len(Stream)
  BY DEF AreFrames
<1>4. a < l /\ a \in Nat
  BY <1>1, <1>2, <1>3
<1>5. n \in Lengths
  BY <1>2, <1>4
<1>6. n \in Nat /\ n >= 6
  BY <1>5, LengthsAreLong
<1>7. a + 1 \in (a + 1)..l /\ a + 2 \in (a + 1)..(l + 1) /\ l + 1 \in (a + 1)..(l + 1) /\ a + 2 <= l + 1
  BY <1>2, <1>4
<1>8. off[(a + 1) + 1] = off[a + 1] + n
  BY <1>7 DEF AreFrames
<1>9. off[a + 2] = n
  <2>1. (a + 1) + 1 = a + 2
    BY <1>4
  <2> QED
    BY <1>3, <1>6, <1>8, <2>1
<1>10. off[a + 2] <= off[l + 1]
  BY <1>7 DEF AreFrames
<1>11. \A k \in 1..n : Stream[off[a + 1] + k] = Byte(a + 1, k - 1)
  BY <1>7 DEF AreFrames
<1>12. \A k \in 1..n : Stream[k] = [frame |-> a + 1, at |-> k - 1]
  BY <1>3, <1>6, <1>11 DEF Byte
<1> QED
  BY <1>3, <1>4, <1>5, <1>6, <1>9, <1>10, <1>12

\* A frame sent is one more of them.
LEMMA FramesGrow ==
  ASSUME TypeInv, TypeInv', OrderInv, NEW n \in Lengths, DeviceSends(n),
         NEW off \in Offsets, AreFrames(off)
  PROVE  (\E o \in Offsets : AreFrames(o))'
<1> DEFINE a == Line!Last  l == Len(len)  b == FrameBytes(l + 1, n)
           o == [f \in (a + 1)..(l + 2) |-> IF f = l + 2 THEN Len(Stream) + n ELSE off[f]]
<1>1. Stream' = Stream \o b /\ len' = Append(len, n) /\ taken' = taken
  BY StreamGrows
<1>2. Line!Last' = a
  BY <1>1 DEF Line!Last
<1>3. l \in Nat /\ len \in Seq(Lengths) /\ a \in 0..l
  BY DEF TypeInv, OrderInv
<1>4. /\ n \in Nat /\ n >= 6 /\ b \in Seq(Bytes) /\ Len(b) = n
      /\ \A k \in 1..n : b[k] = [frame |-> l + 1, at |-> k - 1]
  BY <1>3, FrameType
<1>5. Stream \in Seq(Bytes) /\ Len(Stream) \in Nat
  BY StreamType DEF StreamParts
<1>6. Len(len') = l + 1 /\ len'[l + 1] = n /\ \A f \in 1..l : len'[f] = len[f]
  BY <1>1, <1>3
<1>7. /\ off \in [(a + 1)..(l + 1) -> 0..Len(Stream)]
      /\ off[a + 1] = 0 /\ off[l + 1] = Len(Stream)
  BY DEF AreFrames, Offsets
<1>8. \A f, g \in (a + 1)..(l + 1) : f <= g => off[f] <= off[g]
  BY DEF AreFrames
<1>9. \A f \in (a + 1)..l :
        /\ off[f + 1] = off[f] + len[f]
        /\ \A k \in 1..len[f] : Stream[off[f] + k] = Byte(f, k - 1)
  BY DEF AreFrames
<1> HIDE DEF a, l, b
<1>10. /\ Len(Stream') = Len(Stream) + n
       /\ \A i \in 1..Len(Stream) : Stream'[i] = Stream[i]
       /\ \A k \in 1..n : Stream'[Len(Stream) + k] = b[k]
  <2>1. Len(Stream \o b) = Len(Stream) + n
    <3>1. b \in Seq(Bytes) /\ Len(b) = n
      BY <1>4
    <3>2. Len(Stream \o b) = Len(Stream) + Len(b)
      BY <1>5, <3>1
    <3> QED
      BY <3>1, <3>2
  <2>2. \A i \in 1..Len(Stream) : (Stream \o b)[i] = Stream[i]
    <3> SUFFICES ASSUME NEW i \in 1..Len(Stream) PROVE (Stream \o b)[i] = Stream[i]
      OBVIOUS
    <3>1. i \in 1..(Len(Stream) + Len(b)) /\ i <= Len(Stream)
      BY <1>4, <1>5
    <3> QED
      BY <1>4, <1>5, <3>1
  <2>3. \A k \in 1..n : (Stream \o b)[Len(Stream) + k] = b[k]
    <3> SUFFICES ASSUME NEW k \in 1..n PROVE (Stream \o b)[Len(Stream) + k] = b[k]
      OBVIOUS
    <3>1. Len(Stream) + k \in (Len(Stream) + 1)..(Len(Stream) + n)
      BY <1>4, <1>5
    <3>2. (Stream \o b)[Len(Stream) + k] = b[(Len(Stream) + k) - Len(Stream)]
      BY <1>4, <1>5, <3>1
    <3>3. (Len(Stream) + k) - Len(Stream) = k
      BY <1>4, <1>5
    <3> QED
      BY <3>2, <3>3
  <2> QED
    BY <1>1, <2>1, <2>2, <2>3
<1>11. \A f \in (a + 1)..(l + 1) : o[f] = off[f] /\ off[f] \in 0..Len(Stream)
  BY <1>3, <1>7
<1>12. o[l + 2] = Len(Stream) + n
  BY <1>3
<1>13. o \in [(a + 1)..(l + 2) -> 0..(Len(Stream) + n)]
  BY <1>3, <1>4, <1>5, <1>7, SMTT(30)
<1>14. o[a + 1] = 0 /\ o[(l + 1) + 1] = Len(Stream')
  <2>1. a + 1 \in (a + 1)..(l + 1) /\ (l + 1) + 1 = l + 2
    BY <1>3
  <2> QED
    BY <1>7, <1>10, <1>11, <1>12, <2>1
<1> HIDE DEF o
<1>15. \A f, g \in (a + 1)..(l + 2) : f <= g => o[f] <= o[g]
  <2> SUFFICES ASSUME NEW f \in (a + 1)..(l + 2), NEW g \in (a + 1)..(l + 2), f <= g
               PROVE  o[f] <= o[g]
    OBVIOUS
  <2>1. CASE g \in (a + 1)..(l + 1)
    <3>1. f \in (a + 1)..(l + 1)
      BY <1>3, <2>1
    <3> QED
      BY <1>8, <1>11, <2>1, <3>1
  <2>2. CASE g = l + 2
    <3>1. o[f] \in 0..(Len(Stream) + n)
      BY <1>13
    <3> QED
      BY <1>12, <2>2, <3>1
  <2> QED
    BY <1>3, <2>1, <2>2
<1>16. ASSUME NEW f \in (a + 1)..(l + 1)
       PROVE  /\ o[f + 1] = o[f] + len'[f]
              /\ \A k \in 1..len'[f] : Stream'[o[f] + k] = Byte(f, k - 1)
  <2>1. CASE f \in (a + 1)..l
    <3>1. /\ f \in (a + 1)..(l + 1) /\ f + 1 \in (a + 1)..(l + 1)
          /\ f \in 1..l
      BY <1>3, <2>1
    <3>2. o[f] = off[f] /\ o[f + 1] = off[f + 1] /\ len'[f] = len[f]
      BY <1>6, <1>11, <3>1
    <3>3. /\ off[f + 1] = off[f] + len[f]
          /\ \A k \in 1..len[f] : Stream[off[f] + k] = Byte(f, k - 1)
      BY <1>9, <2>1
    <3>4. len[f] \in Nat /\ off[f] \in 0..Len(Stream) /\ off[f + 1] \in 0..Len(Stream)
      <4>1. len[f] \in Lengths
        BY <1>3, <3>1 DEF l
      <4> QED
        BY <1>11, <3>1, <4>1, LengthsAreLong
    <3>5. \A k \in 1..len[f] : off[f] + k \in 1..Len(Stream)
      BY <1>5, <3>3, <3>4
    <3> QED
      BY <1>10, <3>2, <3>3, <3>5
  <2>2. CASE f = l + 1
    <3>1. o[f] = Len(Stream) /\ o[f + 1] = Len(Stream) + n /\ len'[f] = n
      <4>1. f + 1 = l + 2
        BY <1>3, <2>2
      <4> QED
        BY <1>6, <1>7, <1>11, <1>12, <2>2, <4>1
    <3>2. \A k \in 1..n : Stream'[Len(Stream) + k] = Byte(l + 1, k - 1)
      BY <1>4, <1>10 DEF Byte
    <3> QED
      BY <2>2, <3>1, <3>2
  <2> QED
    BY <1>3, <2>1, <2>2
<1>17. (l + 1) + 1 = l + 2
  BY <1>3
<1>18. PICK w : w = o
  OBVIOUS
<1>19. w \in Offsets'
  BY <1>2, <1>6, <1>10, <1>13, <1>17, <1>18 DEF Offsets
<1>20. AreFrames(w)'
  BY <1>2, <1>6, <1>14, <1>15, <1>16, <1>17, <1>18 DEF AreFrames, Byte
<1> QED
  BY <1>19, <1>20

\* The first of them leaves when it is taken.
LEMMA FramesTaken ==
  ASSUME TypeInv, TypeInv', OrderInv, NEW off \in Offsets, AreFrames(off),
         NEW c \in Seq(Bytes), c # <<>>, Stream = c \o Stream', len' = len,
         Len(c) = len[Line!Last + 1], taken' = Append(taken, Line!Last + 1)
  PROVE  (\E o \in Offsets : AreFrames(o))'
<1> DEFINE a == Line!Last  l == Len(len)  n == len[a + 1]
           o == [f \in (a + 2)..(l + 1) |-> off[f] - n]
<1>1. /\ Stream \in Seq(Bytes) /\ Stream' \in Seq(Bytes)
      /\ Len(Stream) \in Nat /\ Len(Stream') \in Nat /\ Len(c) \in Nat /\ Len(c) >= 1
  <2>1. Stream \in Seq(Bytes) /\ Stream' \in Seq(Bytes)
    BY StreamType, StreamTypeNext DEF StreamParts
  <2>2. Len(c) \in Nat /\ Len(c) >= 1
    OBVIOUS
  <2> QED
    BY <2>1, <2>2
<1>2. Len(Stream) = Len(c) + Len(Stream') /\ Stream # <<>>
  BY <1>1
<1>3. a \in Nat /\ a < l /\ n \in Nat /\ n >= 6 /\ off[a + 2] = n
  BY <1>2, FirstFrame
<1>4. Line!Last' = a + 1
  BY <1>3, LastTaken
<1>5. /\ off \in [(a + 1)..(l + 1) -> 0..Len(Stream)]
      /\ off[l + 1] = Len(Stream)
  BY DEF AreFrames, Offsets
<1>6. \A f, g \in (a + 1)..(l + 1) : f <= g => off[f] <= off[g]
  BY DEF AreFrames
<1>7. \A f \in (a + 1)..l :
        /\ off[f + 1] = off[f] + len[f]
        /\ \A k \in 1..len[f] : Stream[off[f] + k] = Byte(f, k - 1)
  BY DEF AreFrames
<1>8. l \in Nat /\ len \in Seq(Lengths)
  BY DEF TypeInv
<1>9. Len(c) = n
  OBVIOUS
<1> HIDE DEF a, l, n
<1>10. \A f \in (a + 2)..(l + 1) : off[f] \in n..Len(Stream) /\ o[f] = off[f] - n
  <2> SUFFICES ASSUME NEW f \in (a + 2)..(l + 1)
               PROVE  off[f] \in n..Len(Stream) /\ o[f] = off[f] - n
    OBVIOUS
  <2>1. f \in (a + 1)..(l + 1) /\ a + 2 \in (a + 1)..(l + 1) /\ a + 2 <= f
    BY <1>3, <1>8
  <2>2. off[f] \in 0..Len(Stream) /\ off[a + 2] <= off[f]
    BY <1>5, <1>6, <2>1
  <2> QED
    BY <1>1, <1>3, <2>2
<1>11. o \in [(a + 2)..(l + 1) -> 0..Len(Stream')]
  <2>1. \A f \in (a + 2)..(l + 1) : off[f] - n \in 0..Len(Stream')
    BY <1>1, <1>2, <1>3, <1>9, <1>10
  <2> QED
    BY <2>1
<1> HIDE DEF o
<1>12. o[a + 2] = 0 /\ o[l + 1] = Len(Stream')
  <2>1. a + 2 \in (a + 2)..(l + 1) /\ l + 1 \in (a + 2)..(l + 1)
    BY <1>3, <1>8
  <2> QED
    BY <1>1, <1>2, <1>3, <1>5, <1>9, <1>10, <2>1
<1>13. \A f, g \in (a + 2)..(l + 1) : f <= g => o[f] <= o[g]
  <2> SUFFICES ASSUME NEW f \in (a + 2)..(l + 1), NEW g \in (a + 2)..(l + 1), f <= g
               PROVE  o[f] <= o[g]
    OBVIOUS
  <2>1. f \in (a + 1)..(l + 1) /\ g \in (a + 1)..(l + 1)
    BY <1>3, <1>8
  <2>2. off[f] <= off[g]
    BY <1>6, <2>1
  <2> QED
    BY <1>1, <1>3, <1>10, <2>2
<1>14. \A i \in 1..Len(Stream') : Stream'[i] = Stream[n + i]
  <2> SUFFICES ASSUME NEW i \in 1..Len(Stream') PROVE Stream'[i] = Stream[n + i]
    OBVIOUS
  <2>1. (c \o Stream')[Len(c) + i] = Stream'[i]
    BY <1>1, SMTT(30)
  <2> QED
    BY <1>9, <2>1
<1>15. ASSUME NEW f \in (a + 2)..l
       PROVE  /\ o[f + 1] = o[f] + len[f]
              /\ \A k \in 1..len[f] : Stream'[o[f] + k] = Byte(f, k - 1)
  <2>1. /\ f \in (a + 2)..(l + 1) /\ f + 1 \in (a + 2)..(l + 1) /\ f \in (a + 1)..l
        /\ f \in 1..l
    BY <1>3, <1>8
  <2>2. /\ o[f] = off[f] - n /\ o[f + 1] = off[f + 1] - n
        /\ off[f] \in n..Len(Stream) /\ off[f + 1] \in n..Len(Stream)
    BY <1>10, <2>1
  <2>3. /\ off[f + 1] = off[f] + len[f]
        /\ \A k \in 1..len[f] : Stream[off[f] + k] = Byte(f, k - 1)
    BY <1>7, <2>1
  <2>4. len[f] \in Nat
    <3>1. len[f] \in Lengths
      BY <1>8, <2>1 DEF l
    <3> QED
      BY <3>1, LengthsAreLong
  <2>5. o[f + 1] = o[f] + len[f]
    BY <1>1, <1>3, <2>2, <2>3, <2>4, SMTT(30)
  <2>6. \A k \in 1..len[f] :
          o[f] + k \in 1..Len(Stream') /\ n + (o[f] + k) = off[f] + k
    <3> SUFFICES ASSUME NEW k \in 1..len[f]
                 PROVE  o[f] + k \in 1..Len(Stream') /\ n + (o[f] + k) = off[f] + k
      OBVIOUS
    <3>1. off[f] + len[f] <= Len(Stream)
      BY <1>1, <2>2, <2>3
    <3>2. k \in Nat /\ k >= 1 /\ k <= len[f]
      BY <2>4
    <3>3. off[f] \in Nat /\ off[f] >= n /\ o[f] = off[f] - n
      BY <1>1, <1>3, <2>2
    <3>4. Len(Stream) = n + Len(Stream')
      BY <1>2, <1>9
    <3> DEFINE x == off[f]  y == len[f]  z == Len(Stream')
    <3>5. /\ x + y <= n + z /\ k \in Nat /\ k >= 1 /\ k <= y /\ y \in Nat
          /\ x \in Nat /\ x >= n /\ o[f] = x - n /\ z \in Nat /\ n \in Nat
      BY <1>1, <1>3, <2>4, <3>1, <3>2, <3>3, <3>4
    <3> HIDE DEF x, y, z
    <3>6. o[f] + k \in 1..z /\ n + (o[f] + k) = x + k
      BY <3>5
    <3> QED
      BY <3>6 DEF x, z
  <2>7. \A k \in 1..len[f] : Stream'[o[f] + k] = Byte(f, k - 1)
    BY <1>14, <2>3, <2>6
  <2> QED
    BY <2>5, <2>7
<1>16. (a + 1) + 1 = a + 2 /\ Len(len') = l /\ len' = len
  BY <1>3 DEF l
<1>17. PICK w : w = o
  OBVIOUS
<1>18. w \in Offsets'
  BY <1>4, <1>11, <1>16, <1>17 DEF Offsets
<1>19. AreFrames(w)'
  BY <1>4, <1>12, <1>13, <1>15, <1>16, <1>17 DEF AreFrames, Byte
<1> QED
  BY <1>18, <1>19

\* What the parser has of a frame is the beginning of the bytes on their way.
LEMMA LiveIsPrefix == TypeInv => \A i \in 1..Len(Live) : i \in DOMAIN Stream /\ Stream[i] = Live[i]
<1> SUFFICES ASSUME TypeInv, NEW i \in 1..Len(Live)
             PROVE  i \in DOMAIN Stream /\ Stream[i] = Live[i]
  OBVIOUS
<1>1. Live \in Seq(Bytes) /\ Unparsed \in Seq(Bytes)
  BY StreamType DEF StreamParts
<1>2. i \in DOMAIN (Live \o Unparsed) /\ (Live \o Unparsed)[i] = Live[i]
  BY <1>1
<1> QED
  BY <1>2 DEF Stream

\* The parser finds the beginning of the frame in its first byte, reads the length in the
\* frame, and offers what it has when it has all of it.
LEMMA ParsedInStep ==
  ASSUME TypeInv, TypeInv', RoomInv, OfferInv, OrderInv, InStep,
         NEW off \in Offsets, AreFrames(off), WaitSync \/ WaitLen \/ WaitPayload
  PROVE  Stream' = Stream /\ InStep'
<1> DEFINE a == Line!Last  n == len[a + 1]
<1>1. /\ UNCHANGED <<len, lost, taken>> /\ ~pending
      /\ Len(Live) + 1 \in DOMAIN Stream /\ Stream[Len(Live) + 1] = rxByte
      /\ \/ /\ Stream' = Stream /\ Live' = Append(Live, rxByte) /\ out' = Live'
         \/ /\ Stream' = Tail(Stream) /\ state = "WAIT_SYNC" /\ ~IsSync(rxByte)
  BY StreamParsed
<1>2. Stream \in Seq(Bytes) /\ Live \in Seq(Bytes) /\ Len(Live) \in Nat
  BY StreamType DEF StreamParts
<1>3. Stream # <<>>
  BY <1>1, <1>2
<1>4. /\ a \in Nat /\ a < Len(len) /\ n \in Nat /\ n >= 6
      /\ \A k \in 1..n : Stream[k] = [frame |-> a + 1, at |-> k - 1]
  BY <1>3, FirstFrame
<1>5. Line!Last' = a /\ len' = len
  BY <1>1 DEF Line!Last
<1>6. Stream' = Stream /\ Live' = Append(Live, rxByte) /\ out' = Live'
  <2> SUFFICES ASSUME state = "WAIT_SYNC", ~IsSync(rxByte) PROVE FALSE
    BY <1>1
  <2>1. Live = <<>>
    BY <1>1 DEF Live
  <2>2. Stream[1] = rxByte
    BY <1>1, <2>1
  <2>3. 1 \in 1..n
    BY <1>4
  <2>4. rxByte.at = 0
    <3>1. Stream[1] = [frame |-> a + 1, at |-> 1 - 1]
      BY <1>4, <2>3
    <3>2. rxByte = [frame |-> a + 1, at |-> 0]
      BY <2>2, <3>1
    <3> QED
      BY <3>2
  <2> QED
    BY <2>4 DEF IsSync
<1> HIDE DEF a, n
<1>7. CASE WaitSync
  <2>1. Live = <<>>
    BY <1>1, <1>7 DEF Live, WaitSync
  <2>2. out' = <<rxByte>>
    BY <1>6, <2>1
  <2>3. Len(out') = 1
    BY <2>2
  <2>4. state' \in {"WAIT_SYNC", "WAIT_LEN"} /\ pending' = pending
    BY <1>7 DEF WaitSync
  <2> QED
    BY <1>1, <1>6, <2>3, <2>4 DEF InStep
<1>8. CASE WaitLen
  <2>1. Len(out) \in 1..4 /\ Live = out /\ pending' = pending /\ out' = Append(out, rxByte)
    BY <1>8 DEF WaitLen, InStep, Live
  <2>2. Len(out') = Len(out) + 1
    <3>1. out \in Seq(Bytes)
      BY DEF TypeInv
    <3> QED
      BY <2>1, <3>1
  <2>3. CASE Len(out') > 4
    <3>1. Len(out') = 5 /\ state' = "WAIT_PAYLOAD" /\ expected' \in LengthRead(out')
      BY <1>8, <2>1, <2>2, <2>3 DEF WaitLen
    <3>2. 3 \in 1..n /\ 4 \in 1..n
      BY <1>4
    <3>3. out'[3] = Stream[3] /\ out'[4] = Stream[4]
      <4>1. \A i \in 1..Len(Live') : Stream'[i] = Live'[i]
        <5>1. TypeInv' => (\A i \in 1..Len(Live) : i \in DOMAIN Stream /\ Stream[i] = Live[i])'
          BY LiveIsPrefix, PTL
        <5> QED
          BY <5>1
      <4>2. 3 \in 1..Len(Live') /\ 4 \in 1..Len(Live')
        BY <1>6, <3>1
      <4> QED
        BY <1>6, <4>1, <4>2
    <3>4. out'[3] = Byte(a + 1, 2) /\ out'[4] = Byte(a + 1, 3)
      BY <1>4, <3>2, <3>3 DEF Byte
    <3>5. a + 1 \in DOMAIN len
      <4>1. len \in Seq(Lengths)
        BY DEF TypeInv
      <4> QED
        BY <1>4, <4>1
    <3>6. LengthRead(out') = {len[out'[3].frame]}
      BY <3>4, <3>5 DEF LengthRead
    <3>7. out'[3].frame = a + 1
      BY <3>4 DEF Byte
    <3>8. expected' = n
      BY <3>1, <3>6, <3>7 DEF n
    <3>9. Len(out') >= 5 /\ Len(out') < expected'
      BY <1>4, <3>1, <3>8
    <3> QED
      BY <1>1, <1>4, <1>5, <1>6, <2>1, <3>1, <3>8, <3>9 DEF InStep, n
  <2>4. CASE ~(Len(out') > 4)
    <3>1. state' = "WAIT_LEN" /\ Len(out') \in 1..4
      BY <1>8, <2>1, <2>2, <2>4 DEF WaitLen
    <3> QED
      BY <1>1, <1>6, <2>1, <3>1 DEF InStep
  <2> QED
    BY <2>3, <2>4
<1>9. CASE WaitPayload
  <2>1. /\ expected = n /\ Len(out) >= 5 /\ Len(out) < expected
        /\ out' = Append(out, rxByte) /\ expected' = expected
    BY <1>9 DEF WaitPayload, InStep, n, a
  <2>2. Len(out') = Len(out) + 1 /\ Len(out) \in Nat
    <3>1. out \in Seq(Bytes)
      BY DEF TypeInv
    <3> QED
      BY <2>1, <3>1
  <2>3. CASE Len(out') >= expected
    <3>1. state' = "OFFERED" /\ Len(out') = n
      BY <1>4, <1>9, <2>1, <2>2, <2>3 DEF WaitPayload, Complete
    <3> QED
      BY <1>4, <1>5, <1>6, <3>1 DEF InStep, n
  <2>4. CASE ~(Len(out') >= expected)
    <3>1. state' = "WAIT_PAYLOAD" /\ pending' = pending
      BY <1>9, <2>4 DEF WaitPayload, Complete
    <3>2. Len(out') >= 5 /\ Len(out') < n
      BY <1>4, <2>1, <2>2, <2>4
    <3> QED
      BY <1>1, <1>4, <1>5, <1>6, <2>1, <3>1, <3>2 DEF InStep, n
  <2> QED
    BY <2>3, <2>4
<1> QED
  BY <1>6, <1>7, <1>8, <1>9

\* What the driver collects is the next frame, whole, and passes its validation.
LEMMA NextFrameTaken ==
  ASSUME TypeInv, TypeInv', OfferInv, OrderInv, InStep,
         NEW off \in Offsets, AreFrames(off), Clears
  PROVE  /\ taken' = Append(taken, Line!Last + 1) /\ Line!Last + 1 \in 1..Len(len)
         /\ Len(copy) = len[Line!Last + 1]
<1> DEFINE a == Line!Last  n == len[a + 1]
<1>1. Stream = copy \o Stream' /\ copy # <<>> /\ copy = out /\ pending
  BY StreamTaken
<1>2. /\ Stream \in Seq(Bytes) /\ Stream' \in Seq(Bytes) /\ copy \in Seq(Bytes)
  BY StreamType, StreamTypeNext DEF StreamParts, TypeInv
<1>3. Stream # <<>>
  BY <1>1, <1>2
<1>4. /\ a \in Nat /\ a < Len(len) /\ n \in Nat /\ n >= 6 /\ n \in Lengths
      /\ \A k \in 1..n : Stream[k] = [frame |-> a + 1, at |-> k - 1]
  BY <1>3, FirstFrame
<1>5. Len(copy) = n
  BY <1>1 DEF InStep
<1>6. Len(len) \in Nat /\ len \in Seq(Lengths)
  BY DEF TypeInv
<1>7. a + 1 \in 1..Len(len) /\ a + 1 \in DOMAIN len /\ a + 1 \in Nat
  BY <1>4, <1>6
<1>8. n = len[a + 1]
  OBVIOUS
<1> HIDE DEF a, n
<1>9. \A k \in 1..n : copy[k] = [frame |-> a + 1, at |-> k - 1]
  <2> SUFFICES ASSUME NEW k \in 1..n PROVE copy[k] = [frame |-> a + 1, at |-> k - 1]
    OBVIOUS
  <2>1. (copy \o Stream')[k] = copy[k]
    BY <1>2, <1>5
  <2> QED
    BY <1>1, <1>4, <2>1
<1>10. copy = FrameBytes(a + 1, n)
  <2>1. /\ FrameBytes(a + 1, n) \in Seq(Bytes) /\ Len(FrameBytes(a + 1, n)) = n
        /\ \A k \in 1..n : FrameBytes(a + 1, n)[k] = [frame |-> a + 1, at |-> k - 1]
    BY <1>4, <1>7, FrameType
  <2>2. \A k \in 1..Len(copy) : copy[k] = FrameBytes(a + 1, n)[k]
    BY <1>5, <1>9, <2>1
  <2> QED
    BY <1>2, <1>5, <2>1, <2>2, SeqEqual
<1>11. a + 1 \in Validated(copy)
  BY <1>7, <1>8, <1>10 DEF Validated
<1>12. \A f \in Validated(copy) : f = a + 1
  <2> SUFFICES ASSUME NEW f \in Validated(copy) PROVE f = a + 1
    OBVIOUS
  <2>1. f \in DOMAIN len /\ copy = FrameBytes(f, len[f])
    BY DEF Validated
  <2>2. f \in Nat /\ len[f] \in Lengths
    BY <1>6, <2>1
  <2>3. len[f] >= 6 /\ len[f] \in Nat /\ \A k \in 1..len[f] : copy[k] = [frame |-> f, at |-> k - 1]
    BY <2>1, <2>2, FrameType
  <2>4. copy[1].frame = f
    <3>1. 1 \in 1..len[f]
      BY <2>3
    <3>2. copy[1] = [frame |-> f, at |-> 1 - 1]
      BY <2>3, <3>1
    <3> QED
      BY <3>2
  <2>5. copy[1].frame = a + 1
    <3>1. 1 \in 1..n
      BY <1>4
    <3>2. copy[1] = [frame |-> a + 1, at |-> 1 - 1]
      BY <1>9, <3>1
    <3> QED
      BY <3>2
  <2> QED
    BY <2>4, <2>5
<1>13. (CHOOSE f \in Validated(copy) : TRUE) = a + 1
  BY <1>11, <1>12
<1>14. taken' = Append(taken, a + 1)
  BY <1>11, <1>13 DEF Clears
<1> QED
  BY <1>5, <1>7, <1>8, <1>14 DEF a

\* As long as nothing is lost the parser is in step.
LEMMA LosslessNext ==
  ASSUME TypeInv, TypeInv', RoomInv, OfferInv, OrderInv, LosslessInv, [WNext]_wvars
  PROVE  LosslessInv'
<1> SUFFICES ASSUME MaxLost = 0 PROVE LosslessInv'
  BY DEF LosslessInv
<1>1. InStep /\ lost = <<>> /\ \E off \in Offsets : AreFrames(off)
  BY DEF LosslessInv
<1>2. PICK off \in Offsets : AreFrames(off)
  BY <1>1
<1>3. ASSUME Stream' = Stream, UNCHANGED <<len, taken>>
      PROVE  (\E o \in Offsets : AreFrames(o))'
  <2>1. Line!Last' = Line!Last
    BY <1>3 DEF Line!Last
  <2>2. off \in Offsets'
    BY <1>2, <1>3, <2>1 DEF Offsets
  <2>3. AreFrames(off)'
    BY <1>2, <1>3, <2>1 DEF AreFrames, Byte
  <2> QED
    BY <2>2, <2>3
<1>4. ASSUME NEW n \in Lengths, DeviceSends(n) PROVE LosslessInv'
  <2>1. /\ len' = Append(len, n)
        /\ UNCHANGED <<lost, state, out, expected, pending, taken>>
    BY <1>4 DEF DeviceSends, parserVars, mainVars
  <2>2. (\E o \in Offsets : AreFrames(o))'
    BY <1>2, <1>4, FramesGrow
  <2>3. InStep'
    <3>1. Line!Last' = Line!Last
      BY <2>1 DEF Line!Last
    <3>2. len \in Seq(Lengths) /\ Line!Last \in 0..Len(len)
      BY DEF TypeInv, OrderInv
    <3>3. Len(len') = Len(len) + 1 /\ Len(len) \in Nat /\ \A i \in 1..Len(len) : len'[i] = len[i]
      BY <2>1, <3>2
    <3>4. Line!Last < Len(len) => Line!Last < Len(len') /\ len'[Line!Last + 1] = len[Line!Last + 1]
      BY <3>2, <3>3
    <3> QED
      BY <1>1, <2>1, <3>1, <3>4 DEF InStep
  <2> QED
    BY <1>1, <2>1, <2>2, <2>3 DEF LosslessInv
<1>5. CASE LoseByte
  BY <1>5, StreamShrinks
<1>6. CASE WaitSync \/ WaitLen \/ WaitPayload
  <2>1. Stream' = Stream /\ InStep'
    BY <1>1, <1>2, <1>6, ParsedInStep
  <2>2. UNCHANGED <<len, lost, taken>>
    BY <1>6, StreamParsed
  <2> QED
    BY <1>1, <1>3, <2>1, <2>2 DEF LosslessInv
<1>7. CASE Clears
  <2>1. /\ taken' = Append(taken, Line!Last + 1) /\ Line!Last + 1 \in 1..Len(len)
        /\ Len(copy) = len[Line!Last + 1]
    BY <1>1, <1>2, <1>7, NextFrameTaken
  <2>2. /\ Stream = copy \o Stream' /\ copy # <<>> /\ pending /\ ~pending'
        /\ UNCHANGED <<len, lost, state>>
    BY <1>7, StreamTaken
  <2>3. copy \in Seq(Bytes)
    BY DEF TypeInv
  <2>4. (\E o \in Offsets : AreFrames(o))'
    BY <1>2, <2>1, <2>2, <2>3, FramesTaken
  <2>5. InStep'
    BY <2>2 DEF InStep, OfferInv
  <2> QED
    BY <1>1, <2>2, <2>4, <2>5 DEF LosslessInv
<1>8. CASE Uart \/ SeesByte \/ Resume \/ Copies \/ UNCHANGED wvars
  <2>1. Stream' = Stream /\ UNCHANGED <<len, lost, taken>>
    BY <1>8, StreamMoves
  <2>2. UNCHANGED <<out, expected, pending>> /\ (state' = state \/ state' = "WAIT_SYNC")
    BY <1>8 DEF Uart, ReadFile, PushByte, SeesByte, Resume, Copies, wvars, parserVars
  <2>3. InStep'
    <3>1. Line!Last' = Line!Last
      BY <2>1 DEF Line!Last
    <3> QED
      BY <1>1, <2>1, <2>2, <3>1 DEF InStep
  <2> QED
    BY <1>1, <1>3, <2>1, <2>3 DEF LosslessInv
<1> QED
  BY <1>4, <1>5, <1>6, <1>7, <1>8 DEF WNext, Parser, Main

----------------------------------------------------------------------------
(* The results *)

WinInv ==
  /\ TypeInv /\ RoomInv /\ OfferInv
  /\ OrderInv
  /\ LosslessInv

\* The host starts with nothing on its way.
LEMMA WinInit == WInit => WinInv
<1> SUFFICES ASSUME WInit PROVE WinInv
  OBVIOUS
<1>1. TypeInv
  <2>1. Size \in Nat \ {0}
    BY WinAssumption
  <2>2. rx_buf \in [0..(Size - 1) -> Bytes]
    BY <2>1 DEF WInit, NoByte, Byte, Bytes
  <2>3. <<>> \in Seq(Bytes) /\ <<>> \in Seq(Lengths) /\ <<>> \in Seq(Nat)
    OBVIOUS
  <2>4. 0 \in 0..(Size - 1) /\ 0 \in Nat
    BY <2>1
  <2>5. /\ len \in Seq(Lengths) /\ line \in Seq(Bytes) /\ lost \in Seq(Bytes) /\ temp \in Seq(Bytes)
        /\ out \in Seq(Bytes) /\ copy \in Seq(Bytes) /\ taken \in Seq(Nat)
    BY <2>3 DEF WInit
  <2>6. rx_head \in 0..(Size - 1) /\ rx_tail \in 0..(Size - 1) /\ expected \in Nat
    BY <2>4 DEF WInit
  <2> QED
    BY <2>2, <2>5, <2>6 DEF WInit, TypeInv
<1>2. Unread = 0
  BY <1>1, RingType DEF WInit
<1>3. RoomInv /\ OfferInv
  <2>1. Outstanding = 0 /\ Size \in Nat \ {0}
    BY <1>2, WinAssumption DEF WInit, Outstanding
  <2> QED
    BY <2>1 DEF WInit, RoomInv, OfferInv, CopyIsStable
<1>4. Stream = <<>>
  <2>1. Live = <<>> /\ temp = <<>> /\ line = <<>>
    BY DEF WInit, Live
  <2>2. Ring \in Seq(Bytes) /\ Len(Ring) = 0
    BY <1>1, <1>2, RingType
  <2>3. Ring = <<>>
    BY <2>2
  <2>4. Stream = Live \o (Ring \o (temp \o line))
    BY <1>1, StreamType DEF StreamParts
  <2> QED
    BY <2>1, <2>3, <2>4
<1>5. Line!Last = 0 /\ len = <<>> /\ Len(len) = 0 /\ DOMAIN Stream = {} /\ Len(Stream) = 0
  BY <1>4 DEF WInit, Line!Last
<1>6. OrderInv
  BY <1>5 DEF OrderInv
<1>7. \E off \in Offsets : AreFrames(off)
  <2> DEFINE off == [f \in 1..1 |-> 0]
  <2>1. off \in Offsets
    BY <1>5 DEF Offsets
  <2>2. AreFrames(off)
    BY <1>5 DEF AreFrames
  <2> QED
    BY <2>1, <2>2
<1>8. InStep /\ lost = <<>>
  BY DEF WInit, InStep
<1> QED
  BY <1>1, <1>3, <1>6, <1>7, <1>8 DEF WinInv, LosslessInv

\* The invariant of the receive path holds in every reachable state: as long as the device
\* sends no more than fits, no push makes a full ring look empty and the parser takes only
\* bytes that are there; what is on its way is in order and, if nothing is lost, complete.
THEOREM WinInvariant == WSpec => []WinInv
<1>1. WinInv /\ [WNext]_wvars => WinInv'
  BY TypeNext, RoomNext, OfferNext, OrderNext, LosslessNext DEF WinInv
<1> QED
  BY <1>1, WinInit, PTL DEF WSpec

\* While the main thread copies a frame the parser leaves output_buf alone.
THEOREM CopyIsStable_Correct == WSpec => []CopyIsStable
<1>1. WinInv => CopyIsStable
  BY DEF WinInv, OfferInv
<1> QED
  BY <1>1, WinInvariant, PTL

\* The reader of the port and the parser agree on where the bytes are in the ring: what
\* is left to parse is in the order it was sent in.
THEOREM RingKeepsOrder_Correct == WSpec => []RingKeepsOrder
<1>1. WinInv => RingKeepsOrder
  <2> SUFFICES ASSUME WinInv, NEW i \in 1..(Len(Unparsed) - 1)
               PROVE  Before(Unparsed[i], Unparsed[i + 1])
    BY DEF RingKeepsOrder, Before
  <2>1. Live \in Seq(Bytes) /\ Unparsed \in Seq(Bytes) /\ Len(Live) \in Nat /\ Len(Unparsed) \in Nat
    <3>1. Live \in Seq(Bytes) /\ Unparsed \in Seq(Bytes)
      BY StreamType DEF WinInv, StreamParts
    <3> QED
      BY <3>1
  <2>2. \A k \in 1..Len(Unparsed) :
          Len(Live) + k \in DOMAIN Stream /\ Stream[Len(Live) + k] = Unparsed[k]
    <3> SUFFICES ASSUME NEW k \in 1..Len(Unparsed)
                 PROVE  /\ Len(Live) + k \in DOMAIN (Live \o Unparsed)
                        /\ (Live \o Unparsed)[Len(Live) + k] = Unparsed[k]
      BY DEF Stream
    <3> QED
      BY <2>1
  <2>3. i \in 1..Len(Unparsed) /\ i + 1 \in 1..Len(Unparsed) /\ Len(Live) + i < Len(Live) + (i + 1)
    BY <2>1
  <2>4. Before(Stream[Len(Live) + i], Stream[Len(Live) + (i + 1)])
    BY <2>2, <2>3 DEF WinInv, OrderInv
  <2> QED
    BY <2>2, <2>3, <2>4
<1> QED
  BY <1>1, WinInvariant, PTL

\* A step of the receive path sends a frame, takes one that is newer than the last and,
\* if nothing is lost, the very next, or leaves the line as it is.
LEMMA LineStep ==
  ASSUME WinInv, WinInv', [WNext]_wvars
  PROVE  [Line!Next]_(Line!lvars)
<1> USE DEF WinInv
<1>1. ASSUME NEW n \in Lengths, DeviceSends(n) PROVE Line!Next
  <2>1. len' = Append(len, n) /\ taken' = taken
    BY <1>1 DEF DeviceSends, mainVars
  <2>2. len \in Seq(Lengths)
    BY DEF TypeInv
  <2>3. Len(len') = Len(len) + 1
    BY <2>1, <2>2
  <2> QED
    BY <2>1, <2>3 DEF Line!Next, Line!Send
<1>2. CASE Clears
  <2>1. len' = len
    BY <1>2, StreamTaken
  <2>2. CASE taken' = taken
    BY <2>1, <2>2 DEF Line!lvars
  <2>3. CASE MaxLost = 0
    <3>1. PICK off \in Offsets : AreFrames(off)
      BY <2>3 DEF LosslessInv
    <3>2. taken' = Append(taken, Line!Last + 1) /\ Line!Last + 1 \in 1..Len(len)
      BY <1>2, <2>3, <3>1, NextFrameTaken DEF LosslessInv
    <3>3. Line!Last + 1 \in (Line!Last + 1)..Len(len)
      BY <3>2 DEF TypeInv, OrderInv
    <3> QED
      BY <2>1, <3>2, <3>3 DEF Line!Next, Line!Take
  <2>4. CASE MaxLost > 0 /\ taken' # taken
    <3>1. PICK f \in DOMAIN len : copy = FrameBytes(f, len[f]) /\ taken' = Append(taken, f)
      BY <1>2, <2>4, ClearsNext
    <3>2. f \in (Line!Last + 1)..Len(len)
      BY <1>2, <3>1, TakenInOrder
    <3> QED
      BY <2>1, <2>4, <3>1, <3>2 DEF Line!Next, Line!Take
  <2>5. MaxLost = 0 \/ MaxLost > 0
    BY WinAssumption
  <2> QED
    BY <2>2, <2>3, <2>4, <2>5
<1>3. CASE LoseByte
  BY <1>3, StreamShrinks DEF Line!lvars
<1>4. CASE WaitSync \/ WaitLen \/ WaitPayload
  BY <1>4, StreamParsed DEF Line!lvars
<1>5. CASE Uart \/ SeesByte \/ Resume \/ Copies \/ UNCHANGED wvars
  BY <1>5, StreamMoves DEF Line!lvars
<1> QED
  BY <1>1, <1>2, <1>3, <1>4, <1>5 DEF WNext, Parser, Main

\* The receive path of the host is a line that loses frames only if the port loses bytes:
\* what the driver takes are frames that were sent, whole, in their order, none twice,
\* and, as long as no byte is lost, none missing, whatever bytes look like a first one.
THEOREM WinLine_Correct == WSpec => ImplementsLine
<1>1. WInit => Line!Init
  BY DEF WInit, Line!Init
<1>2. WinInv /\ WinInv' /\ [WNext]_wvars => [Line!Next]_(Line!lvars)
  BY LineStep
<1> QED
  BY <1>1, <1>2, WinInvariant, PTL DEF WSpec, ImplementsLine, Line!Spec

=============================================================================
