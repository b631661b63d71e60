---------------------------- MODULE MCEzmPpFrame ----------------------------
(***************************************************************************)
(* EzmPpFrame for TLC, with the CRC it takes for granted: the bytes of the *)
(* UART header of the frames it reaches, with a byte behind them, are put  *)
(* through EzmCrc.                                                         *)
(***************************************************************************)
EXTENDS EzmPpFrame, EzmCrc

CONSTANTS
  Bodies,  \* the bytes behind the header, numbers
  Flips    \* bursts of errors: the patterns of the bits that change, 16 bits long

ASSUME FlipsAssumption == Flips \subseteq Word \ {{}}

\* ezm_uart_hdr_t, the length as transmit has left it, and a byte.
HeadOf(b) ==
  <<OctetOf(85), OctetOf(1), OctetOf(hdr % 2^8), OctetOf(hdr \div 2^8), OctetOf(b)>>

\* The loops over bits and bytes compute the CRC that division of polynomials defines.
CrcIsRemainder ==
  stage = "sent" => \A b \in Bodies : ezm_crc16_ccitt(HeadOf(b)) = CrcOf(HeadOf(b))

\* A frame with its CRC has CRC 0 on either kind of machine, which is what the receiver
\* asks for, and one with a burst of errors has not: Deliver and Spoil of EzmPpFrame
\* are right.
CrcTellsSpoiled ==
  stage = "sent" =>
    \A b \in Bodies, little \in BOOLEAN :
      LET frame == Sealed(HeadOf(b), little) IN
      /\ ezm_crc16_ccitt(frame) = {}
      /\ \A flip \in Flips, at \in 0..(8 * Len(frame) - 16) :
           ezm_crc16_ccitt(Changed(frame, Up(flip, at))) # {}

=============================================================================
