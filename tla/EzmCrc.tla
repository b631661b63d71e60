------------------------------- MODULE EzmCrc -------------------------------
(***************************************************************************)
(* ezm_crc16_ccitt of libs/ezm_utility/src/ezm_crc_utils.c, the byte order *)
(* of ezm_net_utils.c, and what ezm_pp_uart_drv_transmit makes of them:    *)
(* the CRC behind the bytes it was computed over.  A reference definition  *)
(* of the CRC, the remainder of a division of polynomials, is at the end.  *)
(*                                                                         *)
(* An unsigned number is the set of its bits that are 1, which is also the *)
(* set of the exponents of a polynomial over {0, 1}.                       *)
(***************************************************************************)
EXTENDS Integers, Sequences

Octet == SUBSET (0..7)
Word == SUBSET (0..15)   \* uint16_t

\* The octet of a number in 0..255.
OctetOf(n) == {e \in 0..7 : (n \div 2^e) % 2 = 1}

\* Exclusive or, and the sum of polynomials.
Plus(p, q) == {e \in p \cup q : ~(e \in p /\ e \in q)}

\* p << n, and p times x^n
Up(p, n) == {e + n : e \in p}

\* Seeded bug: the bit shifted out is not looked at.
ShiftPlain(crc) == Up(crc, 1) \ {16}

\* One turn of the inner loop, in 16 bits.
Shift(crc) ==
  IF 15 \in crc THEN Plus(Up(crc, 1) \ {16}, {12, 5, 0}) ELSE Up(crc, 1)   \* 0x1021

\* One turn of the outer loop.
Feed(crc, octet) ==
  LET turn[j \in 0..8] == IF j = 0 THEN Plus(crc, Up(octet, 8)) ELSE Shift(turn[j - 1])
  IN  turn[8]

Seed == 0..15   \* 0xFFFF

ezm_crc16_ccitt(data) ==
  LET reg[i \in 0..Len(data)] == IF i = 0 THEN Seed ELSE Feed(reg[i - 1], data[i])
  IN  reg[Len(data)]

Low(x) == x \cap 0..7
High(x) == {e \in 0..7 : e + 8 \in x}

\* Seeded bug: the order of the bytes is left as it is.
htonsOmitted(x, little) == x

ezm_htons_u16(x, little) == IF little THEN Up(Low(x), 8) \cup High(x) ELSE x

\* What memcpy takes from a uint16_t.
InMemory(x, little) == IF little THEN <<Low(x), High(x)>> ELSE <<High(x), Low(x)>>

\* A frame as it is transmitted.
Sealed(data, little) ==
  data \o InMemory(ezm_htons_u16(ezm_crc16_ccitt(data), little), little)

----------------------------------------------------------------------------
(* The CRC in division *)

\* The generator is x^16 + x^12 + x^5 + 1.
Generator == {16, 12, 5, 0}

\* The octets are the coefficients, the first bit that of the highest power.
Polynomial(data) ==
  {e \in 0..(8 * Len(data) - 1) : e % 8 \in data[Len(data) - e \div 8]}

\* One step of long division: x^(n + 16) goes.
Reduced(p, n) == IF n + 16 \in p THEN Plus(p, Up(Generator, n)) ELSE p

\* The remainder of p, which is below x^(n + 16).
Remainder(p, n) ==
  LET rest[k \in 0..n] == IF k = 0 THEN p ELSE Reduced(rest[k - 1], n - k)
  IN  rest[n]

\* 16 zeros follow the data, and its first 16 bits are inverted (all of the zeros'
\* when there is no data): the remainder is the CRC.
CrcOf(data) ==
  LET n == 8 * Len(data)
  IN  Remainder(Plus(Up(Polynomial(data), 16), Up(0..15, n)), n)

\* Data in which some coefficients were changed on the way.
Changed(data, errors) ==
  [i \in DOMAIN data |->
     Plus(data[i], {e \in 0..7 : 8 * (Len(data) - i) + e \in errors})]

=============================================================================
