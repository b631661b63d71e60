-------------------------- MODULE EzmPpFrameProofs --------------------------
(***************************************************************************)
(* The length checks of the packet layers agree for every payload size the *)
(* 16-bit pkt_len can carry and every block size up to the limit; and the  *)
(* CRC does what EzmPpFrame takes for granted for every frame it reaches,  *)
(* every byte behind the header and every burst of errors.                 *)
(***************************************************************************)
EXTENDS MCEzmPpFrame, EzmCrcProofs

\* Every packet the makers build fits the transport with its CRC, and its frame has
\* a pkt_len that 16 bits hold.
LEMMA PacketFits ==
  ASSUME NEW p \in Packet
  PROVE  /\ PktLen(p) \in Nat /\ PktLen(p) >= 8
         /\ PktLen(p) + UartHdr <= MaxPkt
         /\ PktLen(p) + UartHdr + Crc16 < 2^16
<1>1. MaxPayload \in Nat /\ MaxPayload >= 34 /\ MaxPayload <= 65520
  BY PayloadAssumption
<1>2. /\ \A c \in Cmd : ReqSize[c] \in 4..12
      /\ \A c \in Cmd : ResSize[c] \in 4..32
      /\ ResSize["get_block"] = 12
  BY DEF Cmd, ReqSize, ResSize, CtrlRes
<1>3. MaxPkt = MaxPayload + 6
  BY <1>1 DEF MaxPkt, MaxMessage, TpHdr, UartHdr, Crc16
<1>4. CASE p.rq
  <2>1. PICK n \in 4..12 : n = ReqSize[p.cmd]
    BY <1>2, <1>4 DEF Packet
  <2>2. PktLen(p) = 4 + n
    BY <1>4, <2>1 DEF PktLen, TpHdr
  <2> QED
    BY <1>1, <1>3, <2>2 DEF UartHdr, Crc16
<1>5. CASE ~p.rq /\ p.res # "success"
  <2>1. PktLen(p) = 8
    BY <1>5 DEF PktLen, TpHdr, CtrlRes
  <2> QED
    BY <1>1, <1>3, <2>1 DEF UartHdr, Crc16
<1>6. CASE ~p.rq /\ p.res = "success" /\ p.cmd = "get_block"
  <2>1. PICK b \in 1..MaxBlock : b = p.block
    BY <1>6 DEF Packet
  <2>2. MaxBlock = MaxPayload - 14
    BY <1>1, <1>2 DEF MaxBlock
  <2>3. PktLen(p) = 16 + b
    BY <1>1, <1>2, <1>6, <2>1, <2>2 DEF PktLen, TpHdr
  <2> QED
    BY <1>1, <1>3, <2>2, <2>3 DEF UartHdr, Crc16
<1>7. CASE ~p.rq /\ p.res = "success" /\ p.cmd # "get_block"
  <2>1. p.cmd \in Cmd /\ p.block = 0
    BY <1>7 DEF Packet
  <2>2. PICK n \in 4..32 : n = ResSize[p.cmd]
    BY <1>2, <2>1
  <2>3. PktLen(p) = 4 + n
    BY <1>7, <2>1, <2>2 DEF PktLen, TpHdr
  <2> QED
    BY <1>1, <1>3, <2>3 DEF UartHdr, Crc16
<1> QED
  BY <1>4, <1>5, <1>6, <1>7

\* The number of bytes and pkt_len at each stage.
FrameInv ==
  /\ pkt \in Packet /\ bytes \in Int /\ hdr \in Int
  /\ stage \in {"idle", "made"} => ~damaged
  /\ stage = "made" => bytes = PktLen(pkt) + UartHdr /\ hdr = bytes
  /\ stage = "sent" => ~damaged
  /\ stage \in {"sent", "arrived"} => hdr = PktLen(pkt) + UartHdr + Crc16
  /\ stage = "sent" => bytes = hdr
  /\ stage \in {"sent", "arrived"} /\ ~damaged => bytes = hdr /\ crc
  /\ stage = "arrived" /\ damaged => bytes # hdr \/ ~crc
  /\ stage = "mailed" => bytes = PktLen(pkt) + UartHdr
  /\ IntactIsProcessed /\ DamagedIsDropped

\* Nothing was made yet.
LEMMA FrameInit == FInit => FrameInv
  BY DEF FInit, FrameInv, IntactIsProcessed, DamagedIsDropped, Packet, Cmd, ReqSize

\* 16 bits hold what the headers say, so pkt_len is never truncated.
LEMMA NoTruncation == ASSUME NEW n \in Nat, n < 2^16 PROVE U16(n) = n
  BY DEF U16

\* Every stage of a frame keeps the account of its length.
LEMMA FrameNext ==
  ASSUME FrameInv, [FNext]_fvars
  PROVE  FrameInv'
<1> USE DEF FrameInv, IntactIsProcessed, DamagedIsDropped
<1>0. /\ PktLen(pkt) \in Nat /\ PktLen(pkt) >= 8
      /\ PktLen(pkt) + UartHdr <= MaxPkt
      /\ PktLen(pkt) + UartHdr + Crc16 < 2^16
  BY PacketFits
<1>1. ASSUME NEW p \in Packet, Make(p) PROVE FrameInv'
  <2>1. PktLen(p) \in Nat /\ PktLen(p) + UartHdr < 2^16
    BY PacketFits DEF Crc16, UartHdr
  <2>2. hdr' = PktLen(p) + UartHdr /\ bytes' = hdr' /\ pkt' = p
    BY <2>1, <1>1, NoTruncation DEF Make, UartHdr
  <2>3. PktLen(pkt)' = PktLen(p)
    BY <2>2
  <2> QED
    BY <1>1, <2>1, <2>2, <2>3 DEF Make, UartHdr
<1>2. CASE Transmit
  <2> USE <1>2
  <2>1. PktLen(pkt)' = PktLen(pkt)
    BY DEF Transmit
  <2>2. bytes = PktLen(pkt) + UartHdr /\ hdr = bytes
    BY DEF Transmit
  <2>3. bytes <= MaxMessage /\ bytes <= MaxPkt
    BY <1>0, <2>2, PayloadAssumption DEF MaxPkt, MaxMessage, TpHdr, UartHdr, Crc16
  <2>4. U16(hdr + Crc16) = hdr + Crc16
    BY <1>0, <2>2, NoTruncation DEF UartHdr, Crc16
  <2>5. hdr' = hdr + Crc16 /\ bytes' = hdr' /\ crc' /\ stage' = "sent"
    BY <2>2, <2>3, <2>4 DEF Transmit
  <2> QED
    BY <2>1, <2>2, <2>5, <1>0 DEF Transmit, UartHdr, Crc16
<1>3. CASE Deliver
  <2>1. PktLen(pkt)' = PktLen(pkt)
    BY <1>3 DEF Deliver, Arrive
  <2> QED
    BY <1>3, <2>1 DEF Deliver, Arrive
<1>4. CASE Spoil
  <2>1. PktLen(pkt)' = PktLen(pkt)
    BY <1>4 DEF Spoil, Arrive
  <2> QED
    BY <1>4, <2>1 DEF Spoil, Arrive
<1>5. CASE Cut
  <2>1. PktLen(pkt)' = PktLen(pkt)
    BY <1>5 DEF Cut, Arrive
  <2>2. bytes' \in Int /\ bytes' # hdr
    BY <1>5 DEF Cut, Arrive, UartHdr
  <2> QED
    BY <1>5, <2>1, <2>2 DEF Cut, Arrive
<1>6. CASE Merge
  <2>1. PktLen(pkt)' = PktLen(pkt)
    BY <1>6 DEF Merge, Arrive
  <2>2. PICK p \in Packet : bytes' = bytes + PktLen(p) + UartHdr + Crc16
    BY <1>6 DEF Merge
  <2>3. PktLen(p) \in Nat /\ bytes = hdr
    BY <1>6, PacketFits DEF Merge, Arrive
  <2>4. bytes' \in Int /\ bytes' # hdr
    BY <2>2, <2>3 DEF UartHdr, Crc16
  <2> QED
    BY <1>6, <2>1, <2>4 DEF Merge, Arrive
<1>7. CASE Listen
  <2>1. PktLen(pkt)' = PktLen(pkt) /\ ~damaged
    BY <1>7 DEF Listen, Valid
  <2>2. bytes' = PktLen(pkt) + UartHdr
    BY <1>0, <1>7, <2>1 DEF Listen, Valid, UartHdr, Crc16
  <2> QED
    BY <1>0, <1>7, <2>1, <2>2 DEF Listen, UartHdr
<1>8. CASE Drop
  <2>1. PktLen(pkt)' = PktLen(pkt)
    BY <1>8 DEF Drop
  <2>2. bytes >= MinPkt \/ damaged
    BY <1>0, <1>8 DEF Drop, MinPkt, UartHdr, Crc16
  <2>3. damaged
    BY <1>8, <2>2 DEF Drop, Valid
  <2> QED
    BY <1>8, <2>1, <2>3 DEF Drop
<1>9. CASE Process
  <2>1. PktLen(pkt)' = PktLen(pkt) /\ ~damaged
    BY <1>9 DEF Process
  <2>2. bytes = PktLen(pkt) + UartHdr
    BY <1>9 DEF Process
  <2>3. Fits
    BY <1>0, <2>2, PayloadAssumption DEF Fits, MaxPkt, MaxMessage, TpHdr, UartHdr, Crc16
  <2> QED
    BY <1>9, <2>1, <2>3 DEF Process
<1>11. CASE ProcessPastTable
  <2>1. PktLen(pkt)' = PktLen(pkt) /\ ~damaged /\ HasHandler(pkt)' = HasHandler(pkt)
    BY <1>11 DEF ProcessPastTable, HasHandler
  <2> QED
    BY <1>11, <2>1 DEF ProcessPastTable
<1>10. CASE UNCHANGED fvars
  <2>1. PktLen(pkt)' = PktLen(pkt)
    BY <1>10 DEF fvars
  <2> QED
    BY <1>10, <2>1 DEF fvars
<1> QED
  BY <1>1, <1>2, <1>3, <1>4, <1>5, <1>6, <1>7, <1>8, <1>9, <1>10, <1>11 DEF FNext

\* The stage invariant holds in every reachable state.
THEOREM FrameInvariant == FSpec => []FrameInv
<1>1. FInit => FrameInv
  BY FrameInit
<1>2. FrameInv /\ [FNext]_fvars => FrameInv'
  BY FrameNext
<1> QED
  BY <1>1, <1>2, PTL DEF FSpec

\* Whatever EZM_PP_MAX_PAYLOAD_SIZE a build chooses, the limits and length checks of
\* the maker, the driver and the processor let every intact packet through.
THEOREM Intact_Correct == FSpec => []IntactIsProcessed
<1>1. FrameInv => IntactIsProcessed
  BY DEF FrameInv
<1> QED
  BY <1>1, FrameInvariant, PTL

\* Whatever the payload size, a frame cut short or merged with the next one never
\* reaches the packet processor.
THEOREM Damaged_Correct == FSpec => []DamagedIsDropped
<1>1. FrameInv => DamagedIsDropped
  BY DEF FrameInv
<1> QED
  BY <1>1, FrameInvariant, PTL

\* The header and a byte are five bytes.
LEMMA HeadIsData == ASSUME NEW b PROVE HeadOf(b) \in Seq(Octet) /\ Len(HeadOf(b)) = 5
<1>1. \A n : OctetOf(n) \in Octet
  BY DEF OctetOf, Octet
<1> QED
  BY <1>1 DEF HeadOf

\* The loops of ezm_crc16_ccitt compute the remainder of a division for the header of
\* every frame, whatever the payload size, and every byte behind it.
THEOREM CrcIsRemainder_Correct == FSpec => []CrcIsRemainder
<1>1. CrcIsRemainder
  BY HeadIsData, CrcIsDivision DEF CrcIsRemainder
<1> QED
  BY <1>1, PTL

\* With a CRC behind it, that header is accepted on either kind of machine, and not
\* after any burst of errors within 16 bits.
THEOREM CrcTellsSpoiled_Correct == FSpec => []CrcTellsSpoiled
<1>1. ASSUME NEW b \in Bodies, NEW little \in BOOLEAN
      PROVE  LET frame == Sealed(HeadOf(b), little) IN
             /\ ezm_crc16_ccitt(frame) = {}
             /\ \A flip \in Flips, at \in 0..(8 * Len(frame) - 16) :
                  ezm_crc16_ccitt(Changed(frame, Up(flip, at))) # {}
  <2> DEFINE frame == Sealed(HeadOf(b), little)
  <2>1. frame \in Seq(Octet) /\ ezm_crc16_ccitt(frame) = {}
    BY HeadIsData, SealedIsZero
  <2> HIDE DEF frame
  <2>2. ASSUME NEW flip \in Flips, NEW at \in 0..(8 * Len(frame) - 16)
        PROVE  ezm_crc16_ccitt(Changed(frame, Up(flip, at))) # {}
    BY <2>1, FlipsAssumption, BurstIsNoticed
  <2> QED
    BY <2>1, <2>2 DEF frame
<1>2. CrcTellsSpoiled
  BY <1>1 DEF CrcTellsSpoiled
<1> QED
  BY <1>2, PTL

============================================================================
