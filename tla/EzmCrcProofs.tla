---------------------------- MODULE EzmCrcProofs ----------------------------
(***************************************************************************)
(* ezm_crc16_ccitt for data of every length: it is the remainder of a      *)
(* division, a frame with its CRC has CRC 0, and every burst of errors     *)
(* within 16 bits and every odd number of errors changes the CRC.          *)
(*                                                                         *)
(* The division takes away one power of x where the inner loop takes one   *)
(* turn: after each byte, the dividend is the register with the bytes to   *)
(* come behind it.  The remainder is linear, so errors add theirs to the   *)
(* CRC, and that of a burst is not 0 because no turn makes a register 0    *)
(* that was not.                                                           *)
(***************************************************************************)
EXTENDS EzmCrc, WellFoundedInduction, FiniteSetTheorems, TLAPS

----------------------------------------------------------------------------
(* Induction, and the values of recursive functions *)

\* Induction over 0..n, for a set: the library's theorem takes an operator, but its
\* least elements do not.
LEMMA Induction ==
  ASSUME NEW n \in Nat, NEW T, 0 \in T, \A i \in 1..n : i - 1 \in T => i \in T
  PROVE  \A i \in 0..n : i \in T
<1> DEFINE Bad == {i \in 0..n : i \notin T}
<1> SUFFICES ASSUME Bad # {} PROVE FALSE
  OBVIOUS
<1>1. Bad \subseteq Nat
  OBVIOUS
<1>2. PICK x \in Bad : \A y \in Bad : <<y, x>> \notin OpToRel(<, Nat)
  <2> HIDE DEF Bad
  <2> QED BY <1>1, NatLessThanWellFounded, WFMin, Zenon
<1>3. \A y \in Bad : ~(y < x)
  BY <1>1, <1>2 DEF OpToRel
<1>4. x \in 1..n
  OBVIOUS
<1>5. x - 1 \in T
  BY <1>3, <1>4
<1> QED
  BY <1>4, <1>5

\* A step function takes the state and the number of the step.
Steps(n, S) == [S \X (1..n) -> S]

\* The states a step function goes through.
Runs(n, S, v, F) == {g \in [0..n -> S] : /\ g[0] = v
                                       /\ \A i \in 1..n : g[i] = F[<<g[i - 1], i>>]}

\* A run exists: this is what gives the recursive functions of EzmCrc a value.
LEMMA RunExists ==
  ASSUME NEW n \in Nat, NEW S, NEW v \in S, NEW F \in Steps(n, S)
  PROVE  \E g : g \in Runs(n, S, v, F)
<1> USE DEF Steps
<1> DEFINE Upto(m) == \E g \in [0..m -> S] : /\ g[0] = v
                                             /\ \A i \in 1..m : g[i] = F[<<g[i - 1], i>>]
           T == {m \in 0..n : Upto(m)}
<1>1. Upto(0)
  <2> DEFINE g == [i \in 0..0 |-> v]
  <2>1. g \in [0..0 -> S] /\ g[0] = v
    OBVIOUS
  <2>2. \A i \in 1..0 : g[i] = F[<<g[i - 1], i>>]
    OBVIOUS
  <2> HIDE DEF g
  <2> QED BY <2>1, <2>2
<1>2. ASSUME NEW m \in 1..n, Upto(m - 1) PROVE Upto(m)
  <2>1. PICK g \in [0..(m - 1) -> S] : /\ g[0] = v
                                       /\ \A i \in 1..(m - 1) : g[i] = F[<<g[i - 1], i>>]
    BY <1>2
  <2> DEFINE h == [i \in 0..m |-> IF i = m THEN F[<<g[m - 1], m>>] ELSE g[i]]
  <2>2. g[m - 1] \in S
    OBVIOUS
  <2>3. F[<<g[m - 1], m>>] \in S
    BY <2>2
  <2>4. h \in [0..m -> S]
    BY <2>3
  <2>5. h[0] = v
    BY <2>1
  <2>6. /\ h[m] = F[<<g[m - 1], m>>]
        /\ \A i \in 0..(m - 1) : h[i] = g[i]
    OBVIOUS
  <2> HIDE DEF h
  <2>7. ASSUME NEW i \in 1..m PROVE h[i] = F[<<h[i - 1], i>>]
    <3>1. CASE i = m
      <4>1. h[m - 1] = g[m - 1]
        BY <2>6
      <4> QED BY <3>1, <2>6, <4>1
    <3>2. CASE i # m
      BY <2>1, <2>6, <3>2
    <3> QED BY <3>1, <3>2
  <2> QED BY <2>4, <2>5, <2>7
<1> HIDE DEF Upto
<1>3. n \in T
  <2>1. 0 \in T
    BY <1>1
  <2>2. \A i \in 1..n : i - 1 \in T => i \in T
    BY <1>2
  <2>3. \A i \in 0..n : i \in T
    <3> HIDE DEF T
    <3> QED BY <2>1, <2>2, Induction
  <2> QED BY <2>3
<1> QED BY <1>3 DEF Upto, Runs

----------------------------------------------------------------------------
(* The inner loop *)

\* What one turn of the inner loop does to every bit: the bits move up, and the one
\* shifted out of the top is added to bits 0, 5 and 12.
LEMMA ShiftBits ==
  ASSUME NEW c \in Word
  PROVE  /\ Shift(c) \in Word
         /\ 0 \in Shift(c) <=> 15 \in c
         /\ \A e \in 1..15 :
              e \in Shift(c) <=> IF e \in {5, 12} THEN ~(e - 1 \in c <=> 15 \in c) ELSE e - 1 \in c
<1>1. Up(c, 1) \in SUBSET (1..16) /\ \A e \in 1..16 : e \in Up(c, 1) <=> e - 1 \in c
  BY DEF Up, Word
<1>2. 16 \in Up(c, 1) <=> 15 \in c
  BY <1>1
<1>3. CASE 15 \in c
  BY <1>1, <1>3 DEF Shift, Plus, Word
<1>4. CASE 15 \notin c
  BY <1>1, <1>2, <1>4 DEF Shift, Word
<1> QED
  BY <1>3, <1>4

\* Exclusive or stays in 16 bits.
LEMMA PlusWord ==
  ASSUME NEW c \in Word, NEW d \in Word
  PROVE  Plus(c, d) \in Word
  BY DEF Plus, Word

\* A bit of a sum is 1 when it is in one of the two.
LEMMA PlusBit ==
  ASSUME NEW p, NEW q, NEW e
  PROVE  e \in Plus(p, q) <=> ~(e \in p <=> e \in q)
  BY DEF Plus

\* The polynomial has a bit 0, so no turn makes a register 0 that was not.
LEMMA ShiftLosesNothing ==
  ASSUME NEW c \in Word, c # {}
  PROVE  Shift(c) # {}
<1>1. CASE 15 \in c
  BY <1>1, ShiftBits
<1>2. CASE 15 \notin c
  <2>1. PICK e \in 0..15 : e \in c
    BY DEF Word
  <2>2. e + 1 \in 1..15 /\ (e + 1) - 1 = e
    BY <1>2, <2>1
  <2>3. e + 1 \in Shift(c)
    BY <1>2, <2>1, <2>2, ShiftBits
  <2> QED BY <2>3
<1> QED BY <1>1, <1>2

\* The inner loop of ezm_crc16_ccitt.
Turns(c) == Shift(Shift(Shift(Shift(Shift(Shift(Shift(Shift(c))))))))

\* The inner loop stays in 16 bits.
LEMMA TurnsType == ASSUME NEW c \in Word PROVE Turns(c) \in Word
  BY ShiftBits DEF Turns

\* The recursive function of Feed takes eight turns.
LEMMA FeedIsTurns ==
  ASSUME NEW c \in Word, NEW o \in Octet
  PROVE  /\ Plus(c, Up(o, 8)) \in Word
         /\ Feed(c, o) = Turns(Plus(c, Up(o, 8)))
<1> DEFINE w == Plus(c, Up(o, 8))
           Is(g) == g = [j \in 0..8 |-> IF j = 0 THEN w ELSE Shift(g[j - 1])]
           turn == CHOOSE g : Is(g)
<1>1. w \in Word
  <2>1. Up(o, 8) \in Word
    BY DEF Up, Octet, Word
  <2> QED BY <2>1, PlusWord
<1>2. \E g : Is(g)
  <2> HIDE DEF w
  <2>1. PICK n \in Nat : n = 8
    OBVIOUS
  <2> DEFINE Step == [x \in Word \X (1..n) |-> Shift(x[1])]
  <2>2. Step \in Steps(n, Word)
    BY ShiftBits DEF Steps
  <2>3. PICK g : g \in Runs(n, Word, w, Step)
    <3> HIDE DEF Step
    <3> QED BY <1>1, <2>2, RunExists
  <2>4. g \in [0..n -> Word] /\ g[0] = w /\ \A j \in 1..n : g[j] = Step[<<g[j - 1], j>>]
    <3> HIDE DEF Step
    <3> QED BY <2>3 DEF Runs
  <2>5. ASSUME NEW j \in 1..n PROVE g[j] = Shift(g[j - 1])
    <3>1. g[j - 1] \in Word
      BY <2>4
    <3> QED BY <2>4, <3>1
  <2>6. Is(g)
    BY <2>1, <2>4, <2>5
  <2> QED BY <2>6
<1>3. Is(turn)
  <2> HIDE DEF Is
  <2> QED BY <1>2
<1>4. Feed(c, o) = turn[8]
  BY DEF Feed
<1> HIDE DEF turn, w
<1>5. turn[0] = w
  BY <1>3
<1>6. \A j \in 1..8 : turn[j] = Shift(turn[j - 1])
  BY <1>3
<1>7. /\ turn[1] = Shift(turn[0]) /\ turn[2] = Shift(turn[1]) /\ turn[3] = Shift(turn[2])
      /\ turn[4] = Shift(turn[3]) /\ turn[5] = Shift(turn[4]) /\ turn[6] = Shift(turn[5])
      /\ turn[7] = Shift(turn[6]) /\ turn[8] = Shift(turn[7])
  BY <1>6
<1>8. turn[8] = Turns(w)
  BY <1>5, <1>7 DEF Turns
<1> QED
  BY <1>1, <1>4, <1>8 DEF w

\* The register stays in 16 bits with each byte.
LEMMA FeedType ==
  ASSUME NEW c \in Word, NEW o \in Octet
  PROVE  Feed(c, o) \in Word
  BY FeedIsTurns, TurnsType

----------------------------------------------------------------------------
(* The register from byte to byte *)

\* The values of the register, before the first byte and after each.
Registers(data) ==
  {g \in [0..Len(data) -> Word] : /\ g[0] = Seed
                                  /\ \A i \in 1..Len(data) : g[i] = Feed(g[i - 1], data[i])}

\* The CRC is the last of those values: the recursive function of ezm_crc16_ccitt is
\* one of them.
LEMMA CrcIsLastRegister ==
  ASSUME NEW data \in Seq(Octet)
  PROVE  \E g \in Registers(data) : ezm_crc16_ccitt(data) = g[Len(data)]
<1> DEFINE n == Len(data)
           Step == [x \in Word \X (1..n) |-> Feed(x[1], data[x[2]])]
           Is(g) == g = [i \in 0..n |-> IF i = 0 THEN Seed ELSE Feed(g[i - 1], data[i])]
           reg == CHOOSE g : Is(g)
<1>1. n \in Nat /\ \A i \in 1..n : data[i] \in Octet
  OBVIOUS
<1>2. \E h : Is(h)
  <2> HIDE DEF n
  <2>1. Step \in Steps(n, Word)
    <3>1. \A x \in Word \X (1..n) : Feed(x[1], data[x[2]]) \in Word
      BY <1>1, FeedType
    <3> QED BY <3>1 DEF Steps
  <2>2. Seed \in Word
    BY DEF Word, Seed
  <2>3. PICK g : g \in Runs(n, Word, Seed, Step)
    <3> HIDE DEF Step
    <3> QED BY <1>1, <2>1, <2>2, RunExists
  <2>4. g \in [0..n -> Word] /\ g[0] = Seed /\ \A i \in 1..n : g[i] = Step[<<g[i - 1], i>>]
    <3> HIDE DEF Step
    <3> QED BY <2>3 DEF Runs
  <2>5. ASSUME NEW i \in 1..n PROVE g[i] = Feed(g[i - 1], data[i])
    <3>1. i - 1 \in 0..n
      BY <1>1
    <3>2. g[i - 1] \in Word
      BY <2>4, <3>1
    <3> QED BY <2>4, <3>2
  <2>6. Is(g)
    BY <1>1, <2>4, <2>5
  <2> QED BY <2>6
<1>3. Is(reg)
  <2> HIDE DEF Is
  <2> QED BY <1>2
<1>4. ezm_crc16_ccitt(data) = reg[n]
  BY DEF ezm_crc16_ccitt
<1> HIDE DEF reg, n
<1>5. reg \in Registers(data)
  <2>1. reg[0] = Seed
    BY <1>1, <1>3
  <2>2. \A i \in 1..n : reg[i] = Feed(reg[i - 1], data[i])
    BY <1>1, <1>3
  <2>3. DOMAIN reg = 0..n /\ reg = [i \in 0..n |-> reg[i]]
    BY <1>3
  <2> DEFINE T == {i \in 0..n : reg[i] \in Word}
  <2>4. 0 \in T
    BY <1>1, <2>1 DEF Word, Seed
  <2>5. \A i \in 1..n : i - 1 \in T => i \in T
    BY <1>1, <2>2, FeedType
  <2>6. \A i \in 0..n : i \in T
    <3> HIDE DEF T
    <3> QED BY <1>1, <2>4, <2>5, Induction
  <2>7. reg \in [0..n -> Word]
    BY <2>3, <2>6
  <2> QED BY <2>1, <2>2, <2>7 DEF Registers, n
<1> QED
  BY <1>4, <1>5 DEF n

\* Equal bytes at the start leave equal registers.
LEMMA SamePrefix ==
  ASSUME NEW data \in Seq(Octet), NEW other \in Seq(Octet),
         NEW g \in Registers(data), NEW h \in Registers(other),
         NEW n \in Nat, n <= Len(data), n <= Len(other),
         \A i \in 1..n : data[i] = other[i]
  PROVE  \A i \in 0..n : g[i] = h[i]
<1> DEFINE T == {i \in 0..n : g[i] = h[i]}
<1>1. Len(data) \in Nat /\ Len(other) \in Nat
  OBVIOUS
<1>2. /\ g[0] = Seed /\ \A i \in 1..Len(data) : g[i] = Feed(g[i - 1], data[i])
      /\ h[0] = Seed /\ \A i \in 1..Len(other) : h[i] = Feed(h[i - 1], other[i])
  BY DEF Registers
<1>3. 0 \in T
  BY <1>2
<1>4. ASSUME NEW i \in 1..n, i - 1 \in T PROVE i \in T
  <2>1. g[i] = Feed(g[i - 1], data[i]) /\ h[i] = Feed(h[i - 1], other[i])
    BY <1>1, <1>2
  <2> QED BY <1>4, <2>1
<1>5. \A i \in 0..n : i \in T
  <2> HIDE DEF T
  <2> QED BY <1>3, <1>4, Induction
<1> QED BY <1>5

----------------------------------------------------------------------------
(* A frame and its CRC *)

\* A byte on its way up the register is not disturbed before its top bit leaves.
LEMMA ShiftUp ==
  ASSUME NEW o \in Octet, NEW n \in 0..7
  PROVE  Up(o, n) \in Word /\ Shift(Up(o, n)) = Up(o, n + 1)
<1>1. Up(o, n) \in Word /\ 15 \notin Up(o, n)
  BY DEF Up, Octet, Word
<1>2. Up(Up(o, n), 1) = Up(o, n + 1)
  <2>1. ASSUME NEW e PROVE e \in Up(Up(o, n), 1) <=> e \in Up(o, n + 1)
    <3>1. ASSUME NEW x \in o PROVE (x + n) + 1 = x + (n + 1)
      BY DEF Octet
    <3> QED BY <3>1 DEF Up
  <2> QED BY <2>1
<1> QED BY <1>1, <1>2 DEF Shift

\* A byte shifted to the upper half fits 16 bits.
LEMMA UpWord ==
  ASSUME NEW o \in Octet
  PROVE  Up(o, 8) \in Word
  BY DEF Up, Octet, Word

\* The inner loop moves a lower half to the upper half.
LEMMA TurnsOfOctet ==
  ASSUME NEW o \in Octet
  PROVE  Turns(o) = Up(o, 8)
<1>1. Up(o, 0) = o
  <2>1. \A x \in o : x + 0 = x
    BY DEF Octet
  <2> QED BY <2>1 DEF Up
<1>2. /\ Shift(Up(o, 0)) = Up(o, 1) /\ Shift(Up(o, 1)) = Up(o, 2)
      /\ Shift(Up(o, 2)) = Up(o, 3) /\ Shift(Up(o, 3)) = Up(o, 4)
      /\ Shift(Up(o, 4)) = Up(o, 5) /\ Shift(Up(o, 5)) = Up(o, 6)
      /\ Shift(Up(o, 6)) = Up(o, 7) /\ Shift(Up(o, 7)) = Up(o, 8)
  BY ShiftUp
<1> QED BY <1>1, <1>2 DEF Turns

\* The two bytes of a word, put together and taken off.
LEMMA Halves ==
  ASSUME NEW c \in Word
  PROVE  /\ Low(c) \in Octet /\ High(c) \in Octet /\ Low(c) \in Word
         /\ Plus(c, Up(High(c), 8)) = Low(c)
         /\ Plus(Up(High(c), 8), Low(c)) = c
<1>1. Low(c) \in Octet /\ High(c) \in Octet /\ Low(c) \in Word
  BY DEF Low, High, Octet, Word
<1>2. /\ \A e \in 0..15 : e \in Up(High(c), 8) <=> e \in c /\ e >= 8
      /\ \A e \in 0..15 : e \in Low(c) <=> e \in c /\ e < 8
      /\ Up(High(c), 8) \subseteq 0..15
  BY DEF Up, High, Low, Word
<1>3. Plus(c, Up(High(c), 8)) \in Word /\ Plus(Up(High(c), 8), Low(c)) \in Word
  BY <1>1, <1>2, PlusWord DEF Word
<1>4. \A e \in 0..15 : e \in Plus(c, Up(High(c), 8)) <=> e \in Low(c)
  BY <1>2, PlusBit
<1>5. \A e \in 0..15 : e \in Plus(Up(High(c), 8), Low(c)) <=> e \in c
  BY <1>2, PlusBit
<1>6. Plus(c, Up(High(c), 8)) = Low(c)
  BY <1>1, <1>3, <1>4 DEF Word
<1>7. Plus(Up(High(c), 8), Low(c)) = c
  BY <1>3, <1>5 DEF Word
<1> QED BY <1>1, <1>6, <1>7

\* A register that is fed its own two bytes, the upper one first, becomes 0.
LEMMA FeedOwnBytes ==
  ASSUME NEW c \in Word
  PROVE  Feed(Feed(c, High(c)), Low(c)) = {}
<1>1. Feed(c, High(c)) = Up(Low(c), 8)
  BY Halves, FeedIsTurns, TurnsOfOctet
<1>2. Up(Low(c), 8) \in Word
  <2>1. Low(c) \in Octet
    BY Halves
  <2> QED BY <2>1, UpWord
<1>3. Plus(Up(Low(c), 8), Up(Low(c), 8)) = {}
  BY DEF Plus
<1>4. Feed(Up(Low(c), 8), Low(c)) = Turns({})
  <2>1. Low(c) \in Octet
    BY Halves
  <2>2. Feed(Up(Low(c), 8), Low(c)) = Turns(Plus(Up(Low(c), 8), Up(Low(c), 8)))
    BY <1>2, <2>1, FeedIsTurns
  <2> QED BY <1>3, <2>2
<1>5. Turns({}) = {}
  <2>1. {} \in Octet /\ Up({}, 8) = {}
    BY DEF Octet, Up
  <2> QED BY <2>1, TurnsOfOctet
<1> QED BY <1>1, <1>4, <1>5

\* Whatever the byte order of the machine, ezm_htons_u16 and memcpy together put the
\* upper byte of the CRC first.
LEMMA CrcOnTheWire ==
  ASSUME NEW data \in Seq(Octet), NEW little \in BOOLEAN
  PROVE  LET crc16 == ezm_crc16_ccitt(data) IN
         /\ crc16 \in Word
         /\ Sealed(data, little) = data \o <<High(crc16), Low(crc16)>>
<1> DEFINE c == ezm_crc16_ccitt(data)
<1>1. c \in Word
  <2>1. PICK g \in Registers(data) : c = g[Len(data)]
    BY CrcIsLastRegister
  <2>2. Len(data) \in 0..Len(data)
    OBVIOUS
  <2> QED BY <2>1, <2>2 DEF Registers
<1> HIDE DEF c
<1>2. CASE little
  <2> DEFINE x == Up(Low(c), 8) \cup High(c)
  <2>1. Low(x) = High(c)
    BY <1>1 DEF Low, High, Up, Word
  <2>2. High(x) = Low(c)
    BY <1>1 DEF Low, High, Up, Word
  <2>3. InMemory(ezm_htons_u16(c, little), little) = <<Low(x), High(x)>>
    BY <1>2 DEF InMemory, ezm_htons_u16
  <2> HIDE DEF x
  <2>4. InMemory(ezm_htons_u16(c, little), little) = <<High(c), Low(c)>>
    BY <2>1, <2>2, <2>3
  <2> QED BY <1>1, <2>4 DEF Sealed, c
<1>3. CASE ~little
  <2>1. InMemory(ezm_htons_u16(c, little), little) = <<High(c), Low(c)>>
    BY <1>3 DEF InMemory, ezm_htons_u16
  <2> QED BY <1>1, <2>1 DEF Sealed, c
<1> QED BY <1>2, <1>3

\* What ezm_pp_uart_validate_frame asks for: every frame ezm_pp_uart_drv_transmit sends,
\* of any length and any bytes, from a machine of either byte order, has CRC 0.
THEOREM SealedIsZero ==
  ASSUME NEW data \in Seq(Octet), NEW little \in BOOLEAN
  PROVE  /\ Sealed(data, little) \in Seq(Octet)
         /\ ezm_crc16_ccitt(Sealed(data, little)) = {}
<1> DEFINE c == ezm_crc16_ccitt(data)
           n == Len(data)
           frame == Sealed(data, little)
<1>1. c \in Word /\ frame = data \o <<High(c), Low(c)>>
  BY CrcOnTheWire
<1>2. High(c) \in Octet /\ Low(c) \in Octet
  BY <1>1, Halves
<1> HIDE DEF c, frame
<1>3. /\ frame \in Seq(Octet) /\ n \in Nat /\ Len(frame) = n + 2
      /\ \A i \in 1..n : frame[i] = data[i]
      /\ frame[n + 1] = High(c) /\ frame[n + 2] = Low(c)
  BY <1>1, <1>2
<1>4. PICK g \in Registers(data) : c = g[n]
  BY CrcIsLastRegister DEF c
<1>5. PICK h \in Registers(frame) : ezm_crc16_ccitt(frame) = h[Len(frame)]
  BY <1>3, CrcIsLastRegister
<1> HIDE DEF n
<1>6. \A i \in 0..n : g[i] = h[i]
  <2>1. n <= Len(data) /\ n <= Len(frame)
    BY <1>3 DEF n
  <2> QED BY <1>3, <2>1, SamePrefix
<1>7. h[n] = c
  BY <1>3, <1>4, <1>6
<1>8. \A i \in 1..(n + 2) : h[i] = Feed(h[i - 1], frame[i])
  BY <1>3 DEF Registers
<1>9. h[n + 1] = Feed(c, High(c)) /\ h[n + 2] = Feed(h[n + 1], Low(c))
  <2>1. n + 1 \in 1..(n + 2) /\ n + 2 \in 1..(n + 2) /\ (n + 1) - 1 = n /\ (n + 2) - 1 = n + 1
    BY <1>3
  <2>2. /\ h[n + 1] = Feed(h[(n + 1) - 1], frame[n + 1])
        /\ h[n + 2] = Feed(h[(n + 2) - 1], frame[n + 2])
    BY <1>8, <2>1
  <2> QED BY <1>3, <1>7, <2>1, <2>2
<1>10. h[n + 2] = {}
  BY <1>1, <1>9, FeedOwnBytes
<1> QED BY <1>3, <1>5, <1>10 DEF frame

----------------------------------------------------------------------------
(* The division *)

\* The dividends of a long division by the generator.
Dividends(p, n) ==
  {r \in [0..n -> SUBSET Nat] : /\ r[0] = p
                                /\ \A k \in 1..n : r[k] = Reduced(r[k - 1], n - k)}

\* The sum of two polynomials is one.
LEMMA PlusNat ==
  ASSUME NEW p \in SUBSET Nat, NEW q \in SUBSET Nat
  PROVE  Plus(p, q) \in SUBSET Nat
  BY DEF Plus

\* A step of the division leaves a polynomial.
LEMMA ReducedType ==
  ASSUME NEW p \in SUBSET Nat, NEW n \in Nat
  PROVE  Reduced(p, n) \in SUBSET Nat
<1>1. Up(Generator, n) \in SUBSET Nat
  BY DEF Up, Generator
<1>2. Plus(p, Up(Generator, n)) \in SUBSET Nat
  BY <1>1, PlusNat
<1> QED BY <1>2 DEF Reduced

\* The remainder is the last dividend: the recursive function of Remainder is a run.
LEMMA RemainderIsLastDividend ==
  ASSUME NEW p \in SUBSET Nat, NEW n \in Nat
  PROVE  \E r \in Dividends(p, n) : Remainder(p, n) = r[n]
<1> DEFINE S == SUBSET Nat
           Step == [x \in S \X (1..n) |-> Reduced(x[1], n - x[2])]
           Is(g) == g = [k \in 0..n |-> IF k = 0 THEN p ELSE Reduced(g[k - 1], n - k)]
           rest == CHOOSE g : Is(g)
<1>1. \E h : Is(h)
  <2>1. Step \in Steps(n, S)
    <3>1. \A x \in S \X (1..n) : Reduced(x[1], n - x[2]) \in S
      BY ReducedType
    <3> QED BY <3>1 DEF Steps
  <2>2. PICK g : g \in Runs(n, S, p, Step)
    <3> HIDE DEF Step, S
    <3>1. p \in S
      BY DEF S
    <3> QED BY <2>1, <3>1, RunExists
  <2>3. g \in [0..n -> S] /\ g[0] = p /\ \A k \in 1..n : g[k] = Step[<<g[k - 1], k>>]
    <3> HIDE DEF Step, S
    <3> QED BY <2>2 DEF Runs
  <2> HIDE DEF S
  <2>4. ASSUME NEW k \in 1..n PROVE g[k] = Reduced(g[k - 1], n - k)
    <3>1. k - 1 \in 0..n
      OBVIOUS
    <3>2. g[k - 1] \in S
      BY <2>3, <3>1
    <3> QED BY <2>3, <3>2
  <2>5. Is(g)
    BY <2>3, <2>4
  <2> QED BY <2>5
<1>2. Is(rest)
  <2> HIDE DEF Is
  <2> QED BY <1>1
<1>3. Remainder(p, n) = rest[n]
  BY DEF Remainder
<1> HIDE DEF rest
<1>4. rest \in Dividends(p, n)
  <2>1. rest[0] = p
    BY <1>2
  <2>2. \A k \in 1..n : rest[k] = Reduced(rest[k - 1], n - k)
    BY <1>2
  <2>3. DOMAIN rest = 0..n /\ rest = [k \in 0..n |-> rest[k]]
    BY <1>2
  <2> DEFINE T == {k \in 0..n : rest[k] \in S}
  <2>4. 0 \in T
    BY <2>1
  <2>5. ASSUME NEW k \in 1..n, k - 1 \in T PROVE k \in T
    <3>1. rest[k] = Reduced(rest[k - 1], n - k) /\ n - k \in Nat /\ rest[k - 1] \in S
      BY <2>2, <2>5
    <3> QED BY <3>1, ReducedType
  <2>6. \A k \in 0..n : k \in T
    <3> HIDE DEF T
    <3> QED BY <2>4, <2>5, Induction
  <2>7. rest \in [0..n -> S]
    <3> HIDE DEF S
    <3> QED BY <2>3, <2>6
  <2> QED BY <2>1, <2>2, <2>7 DEF Dividends
<1> QED BY <1>3, <1>4


\* A step of the division does to the 16 coefficients at the top what a turn of the
\* inner loop does to the register.
LEMMA ReducedIsShift ==
  ASSUME NEW c \in Word, NEW n \in Nat, NEW q \in SUBSET Nat, n + 16 \notin q
  PROVE  Reduced(Plus(Up(c, n + 1), q), n) = Plus(Up(Shift(c), n), q)
<1> DEFINE p == Plus(Up(c, n + 1), q)
<1>1. /\ \A e \in Nat : e \in Up(c, n + 1) <=> e - (n + 1) \in c
      /\ \A e \in Nat : e \in Up(Shift(c), n) <=> e - n \in Shift(c)
      /\ \A e \in Nat : e \in Up(Generator, n) <=> e - n \in Generator
      /\ Up(c, n + 1) \in SUBSET Nat /\ Up(Shift(c), n) \in SUBSET Nat
      /\ Up(Generator, n) \in SUBSET Nat
  BY ShiftBits DEF Up, Word, Generator
<1>2. n + 16 \in p <=> 15 \in c
  <2>1. n + 16 \in Up(c, n + 1) <=> 15 \in c
    BY <1>1
  <2> QED BY <2>1, PlusBit
<1>3. p \in SUBSET Nat /\ Plus(Up(Shift(c), n), q) \in SUBSET Nat
  BY <1>1, PlusNat
<1>4. Reduced(p, n) \in SUBSET Nat
  BY <1>3, ReducedType
<1>5. ASSUME NEW e \in Nat PROVE e \in Reduced(p, n) <=> e \in Plus(Up(Shift(c), n), q)
  <2> DEFINE d == e - n
  <2>1. d \in Int /\ e - (n + 1) = d - 1
    OBVIOUS
  <2>2. e \in p <=> ~(d - 1 \in c <=> e \in q)
    BY <1>1, <2>1, PlusBit
  <2>3. e \in Plus(Up(Shift(c), n), q) <=> ~(d \in Shift(c) <=> e \in q)
    BY <1>1, PlusBit
  <2>4. e \in Reduced(p, n) <=> IF 15 \in c THEN ~(e \in p <=> d \in Generator) ELSE e \in p
    BY <1>1, <1>2, PlusBit DEF Reduced
  <2>5. d \in Shift(c) <=>
          IF 15 \in c THEN d # 16 /\ ~(d - 1 \in c <=> d \in {12, 5, 0}) ELSE d - 1 \in c
    <3>1. CASE d \in 1..15
      BY <3>1, ShiftBits DEF Word
    <3>2. CASE d = 0
      BY <3>2, ShiftBits DEF Word
    <3>3. CASE d = 16
      BY <3>3, ShiftBits DEF Word
    <3>4. CASE d \notin 0..16
      BY <2>1, <3>4, ShiftBits DEF Word
    <3> QED BY <2>1, <3>1, <3>2, <3>3, <3>4
  <2>6. d = 16 => e \notin q
    OBVIOUS
  <2>7. d \in Generator <=> d = 16 \/ d \in {12, 5, 0}
    BY DEF Generator
  <2>8. d = 16 => (d - 1 \in c <=> 15 \in c)
    OBVIOUS
  <2> HIDE DEF p, d
  <2>9. d = 16 => d \notin {12, 5, 0}
    OBVIOUS
  <2>10. CASE 15 \in c
    BY <2>2, <2>3, <2>4, <2>5, <2>6, <2>7, <2>8, <2>9, <2>10
  <2>11. CASE 15 \notin c
    BY <2>2, <2>3, <2>4, <2>5, <2>11
  <2> QED BY <2>10, <2>11
<1> QED BY <1>3, <1>4, <1>5

\* Eight steps of the division are the turns for one byte.
LEMMA EightSteps ==
  ASSUME NEW n \in Nat, NEW m \in Nat, m + 8 <= n, NEW p, NEW r \in Dividends(p, n),
         NEW c \in Word, NEW q \in SUBSET (0..(m + 15)),
         r[n - (m + 8)] = Plus(Up(c, m + 8), q)
  PROVE  r[n - m] = Plus(Up(Turns(c), m), q)
<1>1. ASSUME NEW j \in 0..7, NEW d \in Word, r[n - (m + j + 1)] = Plus(Up(d, m + j + 1), q)
      PROVE  /\ Shift(d) \in Word
             /\ r[n - (m + j)] = Plus(Up(Shift(d), m + j), q)
  <2> DEFINE i == m + j
  <2>1. i \in Nat /\ i + 16 \notin q /\ q \in SUBSET Nat /\ i + 1 <= n
    OBVIOUS
  <2>2. n - i \in 1..n /\ (n - i) - 1 = n - (i + 1) /\ n - (n - i) = i
    BY <2>1
  <2> HIDE DEF i
  <2>3. r[n - i] = Reduced(r[n - (i + 1)], i)
    <3>1. r[n - i] = Reduced(r[(n - i) - 1], n - (n - i))
      BY <2>2 DEF Dividends
    <3> QED BY <2>2, <3>1
  <2>4. r[n - (i + 1)] = Plus(Up(d, i + 1), q)
    BY <1>1 DEF i
  <2>5. r[n - i] = Plus(Up(Shift(d), i), q)
    BY <2>1, <2>3, <2>4, ReducedIsShift
  <2> QED BY <2>5, ShiftBits DEF i
<1> DEFINE c1 == Shift(c)  c2 == Shift(c1)  c3 == Shift(c2)  c4 == Shift(c3)
           c5 == Shift(c4) c6 == Shift(c5)  c7 == Shift(c6)  c8 == Shift(c7)
<1>2. Turns(c) = c8
  BY DEF Turns
<1> HIDE DEF c1, c2, c3, c4, c5, c6, c7, c8
<1>3. r[n - (m + 7 + 1)] = Plus(Up(c, m + 7 + 1), q)
  <2>1. m + 7 + 1 = m + 8
    OBVIOUS
  <2> QED BY <2>1
<1>4. c1 \in Word /\ r[n - (m + 6 + 1)] = Plus(Up(c1, m + 6 + 1), q)
  <2>1. m + 7 = m + 6 + 1
    OBVIOUS
  <2>2. c1 \in Word /\ r[n - (m + 7)] = Plus(Up(c1, m + 7), q)
    BY <1>1, <1>3 DEF c1
  <2> QED BY <2>1, <2>2
<1>5. c2 \in Word /\ r[n - (m + 5 + 1)] = Plus(Up(c2, m + 5 + 1), q)
  <2>1. m + 6 = m + 5 + 1
    OBVIOUS
  <2>2. c2 \in Word /\ r[n - (m + 6)] = Plus(Up(c2, m + 6), q)
    BY <1>1, <1>4 DEF c2
  <2> QED BY <2>1, <2>2
<1>6. c3 \in Word /\ r[n - (m + 4 + 1)] = Plus(Up(c3, m + 4 + 1), q)
  <2>1. m + 5 = m + 4 + 1
    OBVIOUS
  <2>2. c3 \in Word /\ r[n - (m + 5)] = Plus(Up(c3, m + 5), q)
    BY <1>1, <1>5 DEF c3
  <2> QED BY <2>1, <2>2
<1>7. c4 \in Word /\ r[n - (m + 3 + 1)] = Plus(Up(c4, m + 3 + 1), q)
  <2>1. m + 4 = m + 3 + 1
    OBVIOUS
  <2>2. c4 \in Word /\ r[n - (m + 4)] = Plus(Up(c4, m + 4), q)
    BY <1>1, <1>6 DEF c4
  <2> QED BY <2>1, <2>2
<1>8. c5 \in Word /\ r[n - (m + 2 + 1)] = Plus(Up(c5, m + 2 + 1), q)
  <2>1. m + 3 = m + 2 + 1
    OBVIOUS
  <2>2. c5 \in Word /\ r[n - (m + 3)] = Plus(Up(c5, m + 3), q)
    BY <1>1, <1>7 DEF c5
  <2> QED BY <2>1, <2>2
<1>9. c6 \in Word /\ r[n - (m + 1 + 1)] = Plus(Up(c6, m + 1 + 1), q)
  <2>1. m + 2 = m + 1 + 1
    OBVIOUS
  <2>2. c6 \in Word /\ r[n - (m + 2)] = Plus(Up(c6, m + 2), q)
    BY <1>1, <1>8 DEF c6
  <2> QED BY <2>1, <2>2
<1>10. c7 \in Word /\ r[n - (m + 0 + 1)] = Plus(Up(c7, m + 0 + 1), q)
  <2>1. m + 1 = m + 0 + 1
    OBVIOUS
  <2>2. c7 \in Word /\ r[n - (m + 1)] = Plus(Up(c7, m + 1), q)
    BY <1>1, <1>9 DEF c7
  <2> QED BY <2>1, <2>2
<1>11. r[n - m] = Plus(Up(c8, m), q)
  <2>1. m + 0 = m
    OBVIOUS
  <2>2. r[n - (m + 0)] = Plus(Up(c8, m + 0), q)
    BY <1>1, <1>10 DEF c8
  <2> QED BY <2>1, <2>2
<1> QED BY <1>2, <1>11

\* Sums of polynomials associate.
LEMMA SumAssociates ==
  ASSUME NEW p, NEW q, NEW s
  PROVE  Plus(p, Plus(q, s)) = Plus(Plus(p, q), s)
  BY DEF Plus

\* A power of x times a sum.
LEMMA UpSum ==
  ASSUME NEW c \in SUBSET Nat, NEW d \in SUBSET Nat, NEW n \in Nat
  PROVE  Up(Plus(c, d), n) = Plus(Up(c, n), Up(d, n))
<1>1. ASSUME NEW p \in SUBSET Nat, NEW e PROVE e \in Up(p, n) <=> e \in Nat /\ e - n \in p
  <2>1. \A x \in p : x \in Nat /\ x + n \in Nat /\ (x + n) - n = x
    OBVIOUS
  <2>2. ASSUME e \in Nat, e - n \in p PROVE e \in Up(p, n)
    <3>1. e = (e - n) + n
      BY <2>2
    <3> QED BY <2>2, <3>1 DEF Up
  <2> QED BY <2>1, <2>2 DEF Up
<1>2. Plus(c, d) \in SUBSET Nat
  BY PlusNat
<1>3. ASSUME NEW e PROVE e \in Up(Plus(c, d), n) <=> e \in Plus(Up(c, n), Up(d, n))
  <2>1. /\ e \in Up(Plus(c, d), n) <=> e \in Nat /\ e - n \in Plus(c, d)
        /\ e \in Up(c, n) <=> e \in Nat /\ e - n \in c
        /\ e \in Up(d, n) <=> e \in Nat /\ e - n \in d
    BY <1>1, <1>2
  <2> QED BY <2>1, PlusBit
<1> QED BY <1>3

\* The bits the division has not come to yet, times x^16.
Ahead(data, m) == Up({e \in Polynomial(data) : e < m}, 16)

\* They begin with the next byte.
LEMMA NextOctet ==
  ASSUME NEW data \in Seq(Octet), NEW i \in 1..Len(data), NEW m, m = 8 * Len(data) - 8 * i
  PROVE  /\ m \in Nat /\ Ahead(data, m) \in SUBSET (0..(m + 15))
         /\ Ahead(data, m + 8) = Plus(Up(Up(data[i], 8), m + 8), Ahead(data, m))
<1> DEFINE n == Len(data)  o == data[i]
<1>1. n \in Nat /\ i \in 1..n /\ o \in Octet
  OBVIOUS
<1>2. m \in Nat /\ m = 8 * (n - i) /\ m + 8 <= 8 * n
  BY <1>1
<1>3. \A e : e \in Polynomial(data) <=> e \in 0..(8 * n - 1) /\ e % 8 \in data[n - e \div 8]
  BY DEF Polynomial
<1>4. ASSUME NEW b \in 0..7 PROVE b + m \in Polynomial(data) <=> b \in o
  <2>1. b + m \in 0..(8 * n - 1)
    BY <1>1, <1>2
  <2>2. (b + m) % 8 = b /\ (b + m) \div 8 = n - i
    BY <1>1, <1>2
  <2>3. n - (n - i) = i
    BY <1>1
  <2> QED BY <1>3, <2>1, <2>2, <2>3
<1> HIDE DEF n, o
<1>5. \A e \in Polynomial(data) : e \in Nat
  BY <1>1, <1>3
<1>6. ASSUME NEW k \in Nat, NEW x
      PROVE  x \in Ahead(data, k) <=> x \in 16..(k + 15) /\ x - 16 \in Polynomial(data)
  BY <1>5 DEF Ahead, Up
<1>7. Ahead(data, m) \in SUBSET (0..(m + 15))
  BY <1>2, <1>6
<1>8. ASSUME NEW x
      PROVE  x \in Up(Up(o, 8), m + 8) <=> x \in (m + 16)..(m + 23) /\ x - (m + 16) \in o
  <2>1. ASSUME NEW b \in o PROVE b \in 0..7 /\ (b + 8) + (m + 8) = b + (m + 16)
    BY <1>1, <1>2 DEF Octet
  <2>2. Up(Up(o, 8), m + 8) = {b + (m + 16) : b \in o}
    BY <2>1 DEF Up
  <2>3. ASSUME x \in Up(Up(o, 8), m + 8)
        PROVE  x \in (m + 16)..(m + 23) /\ x - (m + 16) \in o
    <3>1. PICK b \in o : x = b + (m + 16)
      BY <2>2, <2>3
    <3>2. b \in 0..7 /\ m \in Nat
      BY <1>2, <2>1
    <3>3. x - (m + 16) = b /\ x \in (m + 16)..(m + 23)
      BY <3>1, <3>2
    <3> QED BY <3>3
  <2>4. ASSUME x \in (m + 16)..(m + 23), x - (m + 16) \in o
        PROVE  x \in Up(Up(o, 8), m + 8)
    <3>1. x = (x - (m + 16)) + (m + 16)
      BY <1>2, <2>4
    <3> QED BY <2>2, <2>4, <3>1
  <2> QED BY <2>3, <2>4
<1>9. ASSUME NEW x
      PROVE  x \in Ahead(data, m + 8) <=> x \in Plus(Up(Up(o, 8), m + 8), Ahead(data, m))
  <2>1. x \in Ahead(data, m + 8) <=> x \in 16..(m + 23) /\ x - 16 \in Polynomial(data)
    BY <1>2, <1>6
  <2>2. CASE x \in 16..(m + 15)
    BY <1>2, <1>6, <1>8, <2>1, <2>2, PlusBit, SMTT(30)
  <2>3. CASE x \in (m + 16)..(m + 23)
    <3> DEFINE b == x - (m + 16)
    <3>1. b \in 0..7 /\ b + m = x - 16
      BY <1>2, <2>3
    <3>2. x - 16 \in Polynomial(data) <=> b \in o
      BY <1>4, <3>1
    <3> HIDE DEF b
    <3>3. x \in Up(Up(o, 8), m + 8) <=> b \in o
      BY <1>8, <2>3 DEF b
    <3>4. x \notin Ahead(data, m)
      BY <1>2, <1>6, <2>3
    <3>5. x \in 16..(m + 23)
      BY <1>2, <2>3
    <3> QED BY <2>1, <3>2, <3>3, <3>4, <3>5, PlusBit
  <2>4. CASE x \notin 16..(m + 23)
    <3>1. x \notin 16..(m + 15) /\ x \notin (m + 16)..(m + 23)
      BY <1>2, <2>4
    <3> QED BY <1>2, <1>6, <1>8, <2>1, <2>4, <3>1, PlusBit
  <2> QED BY <1>2, <2>2, <2>3, <2>4
<1> QED BY <1>2, <1>7, <1>9 DEF o

\* For every sequence of bytes the loops over bytes and bits of ezm_crc16_ccitt compute
\* the CRC that division of polynomials defines.
THEOREM CrcIsDivision ==
  ASSUME NEW data \in Seq(Octet)
  PROVE  ezm_crc16_ccitt(data) = CrcOf(data)
<1> DEFINE L == Len(data)
           n == 8 * L
           start == Plus(Up(Polynomial(data), 16), Up(0..15, n))
<1>1. L \in Nat /\ n \in Nat
  OBVIOUS
<1>2. PICK g \in Registers(data) : ezm_crc16_ccitt(data) = g[L]
  BY CrcIsLastRegister
<1>3. start \in SUBSET Nat
  <2>1. Polynomial(data) \in SUBSET Nat
    BY <1>1 DEF Polynomial
  <2>2. Up(Polynomial(data), 16) \in SUBSET Nat
    BY <2>1 DEF Up
  <2>3. Up(0..15, n) \in SUBSET Nat
    BY <1>1 DEF Up
  <2> QED BY <2>2, <2>3, PlusNat
<1>4. CrcOf(data) = Remainder(start, n)
  BY DEF CrcOf
<1> HIDE DEF start
<1>5. PICK r \in Dividends(start, n) : Remainder(start, n) = r[n]
  BY <1>1, <1>3, RemainderIsLastDividend
<1>6. /\ g[0] = Seed
      /\ \A i \in 0..L : g[i] \in Word
      /\ \A i \in 1..L : g[i] = Feed(g[i - 1], data[i])
  BY <1>1 DEF Registers
<1>7. \A i \in 1..L : data[i] \in Octet
  OBVIOUS
<1> HIDE DEF L, n
<1> DEFINE Claim(i) == r[8 * i] = Plus(Up(g[i], n - 8 * i), Ahead(data, n - 8 * i))
           T == {i \in 0..L : Claim(i)}
<1>8. Claim(0)
  <2>1. Ahead(data, n) = Up(Polynomial(data), 16)
    <3>1. {e \in Polynomial(data) : e < n} = Polynomial(data)
      BY <1>1 DEF Polynomial, n, L
    <3> QED BY <3>1 DEF Ahead
  <2>2. r[0] = Plus(Up(Polynomial(data), 16), Up(Seed, n))
    BY DEF Dividends, start, Seed
  <2>3. r[0] = Plus(Up(Seed, n), Up(Polynomial(data), 16))
    BY <2>2 DEF Plus
  <2>4. 8 * 0 = 0 /\ n - 8 * 0 = n
    BY <1>1
  <2> QED BY <1>6, <2>1, <2>3, <2>4
<1>9. ASSUME NEW i \in 1..L, Claim(i - 1) PROVE Claim(i)
  <2> DEFINE m == n - 8 * i
             o == data[i]
             c == Plus(g[i - 1], Up(o, 8))
  <2>1. m = 8 * Len(data) - 8 * i /\ i \in 1..Len(data)
    BY DEF n, L
  <2>2. m \in Nat /\ m + 8 <= n /\ n - (m + 8) = 8 * (i - 1) /\ n - m = 8 * i
        /\ n - 8 * (i - 1) = m + 8 /\ i - 1 \in 0..L
    BY <1>1, <2>1 DEF n
  <2> HIDE DEF m
  <2>3. /\ Ahead(data, m) \in SUBSET (0..(m + 15))
        /\ Ahead(data, m + 8) = Plus(Up(Up(o, 8), m + 8), Ahead(data, m))
    BY <2>1, NextOctet
  <2>4. o \in Octet /\ g[i - 1] \in Word /\ g[i] = Feed(g[i - 1], o)
    BY <1>6, <1>7, <2>2
  <2> HIDE DEF o
  <2>5. c \in Word /\ g[i] = Turns(c)
    BY <2>4, FeedIsTurns
  <2>6. Up(c, m + 8) = Plus(Up(g[i - 1], m + 8), Up(Up(o, 8), m + 8))
    <3>1. g[i - 1] \in SUBSET Nat /\ Up(o, 8) \in SUBSET Nat
      <4>1. \A w \in Word : w \in SUBSET Nat
        BY DEF Word
      <4> QED BY <2>4, <4>1, UpWord
    <3>2. m + 8 \in Nat
      BY <2>2
    <3> QED BY <3>1, <3>2, UpSum
  <2>7. r[n - (m + 8)] = Plus(Up(c, m + 8), Ahead(data, m))
    <3>1. r[n - (m + 8)] = Plus(Up(g[i - 1], m + 8), Ahead(data, m + 8))
      BY <1>9, <2>2
    <3> HIDE DEF c
    <3> QED BY <2>3, <2>6, <3>1, SumAssociates
  <2> HIDE DEF c
  <2>8. r[n - m] = Plus(Up(Turns(c), m), Ahead(data, m))
    BY <1>1, <2>2, <2>3, <2>5, <2>7, EightSteps
  <2> QED BY <2>2, <2>5, <2>8 DEF m
<1>10. Claim(L)
  <2>1. 0 \in T
    BY <1>1, <1>8
  <2>2. \A i \in 1..L : i - 1 \in T => i \in T
    BY <1>9
  <2>3. \A i \in 0..L : i \in T
    <3> HIDE DEF T
    <3> QED BY <1>1, <2>1, <2>2, Induction
  <2>4. L \in 0..L
    BY <1>1
  <2>5. L \in T
    <3> HIDE DEF T
    <3> QED BY <2>3, <2>4
  <2> HIDE DEF Claim
  <2> QED BY <2>5
<1>11. r[n] = Plus(Up(g[L], 0), Ahead(data, 0))
  <2>1. 8 * L = n /\ n - 8 * L = 0
    BY <1>1 DEF n
  <2> QED BY <1>10, <2>1
<1>12. Ahead(data, 0) = {} /\ Up(g[L], 0) = g[L]
  <2>1. {e \in Polynomial(data) : e < 0} = {}
    BY <1>1 DEF Polynomial, L
  <2>2. g[L] \in Word
    BY <1>1, <1>6
  <2>3. \A e \in g[L] : e + 0 = e
    BY <2>2 DEF Word
  <2> QED BY <2>1, <2>3 DEF Ahead, Up
<1>13. Plus(g[L], {}) = g[L]
  BY DEF Plus
<1> QED
  BY <1>2, <1>4, <1>5, <1>11, <1>12, <1>13

----------------------------------------------------------------------------
(* Errors on the line *)

\* A step of the division is linear.
LEMMA ReducedLinear ==
  ASSUME NEW p \in SUBSET Nat, NEW q \in SUBSET Nat, NEW n \in Nat
  PROVE  Reduced(Plus(p, q), n) = Plus(Reduced(p, n), Reduced(q, n))
<1>1. n + 16 \in Plus(p, q) <=> ~(n + 16 \in p <=> n + 16 \in q)
  BY PlusBit
<1> DEFINE u == Up(Generator, n)
<1>2. /\ Plus(Plus(p, q), u) = Plus(Plus(p, u), q)
      /\ Plus(Plus(p, q), u) = Plus(p, Plus(q, u))
      /\ Plus(p, q) = Plus(Plus(p, u), Plus(q, u))
  BY DEF Plus
<1> HIDE DEF u
<1>3. /\ Reduced(Plus(p, q), n) = IF n + 16 \in Plus(p, q) THEN Plus(Plus(p, q), u) ELSE Plus(p, q)
      /\ Reduced(p, n) = IF n + 16 \in p THEN Plus(p, u) ELSE p
      /\ Reduced(q, n) = IF n + 16 \in q THEN Plus(q, u) ELSE q
  BY DEF Reduced, u
<1> QED
  BY <1>1, <1>2, <1>3

\* The remainder is linear.
LEMMA RemainderLinear ==
  ASSUME NEW p \in SUBSET Nat, NEW q \in SUBSET Nat, NEW n \in Nat
  PROVE  Remainder(Plus(p, q), n) = Plus(Remainder(p, n), Remainder(q, n))
<1>1. PICK r \in Dividends(p, n) : Remainder(p, n) = r[n]
  BY RemainderIsLastDividend
<1>2. PICK s \in Dividends(q, n) : Remainder(q, n) = s[n]
  BY RemainderIsLastDividend
<1>3. PICK t \in Dividends(Plus(p, q), n) : Remainder(Plus(p, q), n) = t[n]
  BY PlusNat, RemainderIsLastDividend
<1> DEFINE T == {k \in 0..n : t[k] = Plus(r[k], s[k])}
<1>4. 0 \in T
  BY DEF Dividends
<1>5. ASSUME NEW k \in 1..n, k - 1 \in T PROVE k \in T
  <2>1. n - k \in Nat /\ k - 1 \in 0..n
    OBVIOUS
  <2>2. r[k - 1] \in SUBSET Nat /\ s[k - 1] \in SUBSET Nat
    BY <2>1 DEF Dividends
  <2>3. /\ r[k] = Reduced(r[k - 1], n - k) /\ s[k] = Reduced(s[k - 1], n - k)
        /\ t[k] = Reduced(t[k - 1], n - k)
    BY DEF Dividends
  <2>4. t[k] = Plus(r[k], s[k])
    BY <1>5, <2>1, <2>2, <2>3, ReducedLinear
  <2> QED BY <2>4
<1>6. n \in T
  <2>1. \A k \in 0..n : k \in T
    <3> HIDE DEF T
    <3> QED BY <1>4, <1>5, Induction
  <2>2. n \in 0..n
    OBVIOUS
  <2> HIDE DEF T
  <2> QED BY <2>1, <2>2
<1> QED BY <1>1, <1>2, <1>3, <1>6

\* Changed data are the sum of the data and the errors.
LEMMA ChangedData ==
  ASSUME NEW data \in Seq(Octet), NEW errors \in SUBSET (0..(8 * Len(data) - 1))
  PROVE  /\ Changed(data, errors) \in Seq(Octet)
         /\ Len(Changed(data, errors)) = Len(data)
         /\ Polynomial(Changed(data, errors)) = Plus(Polynomial(data), errors)
<1> DEFINE n == Len(data)  other == Changed(data, errors)
           Flip(i) == {e \in 0..7 : 8 * (n - i) + e \in errors}
<1>1. n \in Nat /\ \A i \in 1..n : data[i] \in Octet
  OBVIOUS
<1>2. \A i \in 1..n : Plus(data[i], Flip(i)) \in Octet
  BY <1>1 DEF Plus, Octet
<1>3. other = [i \in 1..n |-> Plus(data[i], Flip(i))]
  BY DEF Changed
<1>4. other \in Seq(Octet) /\ Len(other) = n /\ \A i \in 1..n : other[i] = Plus(data[i], Flip(i))
  <2> HIDE DEF Flip, n
  <2> QED BY <1>1, <1>2, <1>3
<1>5. /\ \A e : e \in Polynomial(data) <=> e \in 0..(8 * n - 1) /\ e % 8 \in data[n - e \div 8]
      /\ \A e : e \in Polynomial(other) <=> e \in 0..(8 * n - 1) /\ e % 8 \in other[n - e \div 8]
  <2> HIDE DEF other
  <2> QED BY <1>4 DEF Polynomial
<1> HIDE DEF other, n
<1>6. ASSUME NEW e \in 0..(8 * n - 1)
      PROVE  e \in Polynomial(other) <=> e \in Plus(Polynomial(data), errors)
  <2>1. PICK d \in Nat : d = e \div 8
    BY <1>1
  <2>2. PICK b \in 0..7 : b = e % 8
    BY <1>1
  <2>3. e = 8 * d + b
    BY <1>1, <2>1, <2>2
  <2>4. PICK i \in 1..n : i = n - d
    BY <1>1, <2>3
  <2>5. 8 * (n - i) + b = e
    BY <1>1, <2>3, <2>4
  <2>6. b \in Flip(i) <=> e \in errors
    <3>1. b \in Flip(i) <=> 8 * (n - i) + b \in errors
      OBVIOUS
    <3> HIDE DEF Flip
    <3> QED BY <2>5, <3>1
  <2> HIDE DEF Flip
  <2>7. e \in Polynomial(other) <=> b \in other[i]
    BY <1>5, <2>1, <2>2, <2>4
  <2>8. e \in Polynomial(data) <=> b \in data[i]
    BY <1>5, <2>1, <2>2, <2>4
  <2>9. b \in other[i] <=> ~(b \in data[i] <=> b \in Flip(i))
    BY <1>4, PlusBit
  <2> QED BY <2>6, <2>7, <2>8, <2>9, PlusBit
<1>7. Polynomial(other) = Plus(Polynomial(data), errors)
  <2>1. /\ \A e \in Polynomial(other) : e \in 0..(8 * n - 1)
        /\ \A e \in Plus(Polynomial(data), errors) : e \in 0..(8 * n - 1)
    BY <1>5, PlusBit DEF n
  <2> QED BY <1>6, <2>1
<1> QED BY <1>4, <1>7 DEF other, n

\* What errors do to the CRC, whatever the data: their own remainder is added to it.
THEOREM ChangeInDivision ==
  ASSUME NEW data \in Seq(Octet), NEW errors \in SUBSET (0..(8 * Len(data) - 1))
  PROVE  ezm_crc16_ccitt(Changed(data, errors)) =
           Plus(ezm_crc16_ccitt(data), Remainder(Up(errors, 16), 8 * Len(data)))
<1> DEFINE n == 8 * Len(data)  other == Changed(data, errors)
           p == Up(Polynomial(data), 16)  q == Up(errors, 16)  s == Up(0..15, n)
<1>1. n \in Nat
  OBVIOUS
<1>2. p \in SUBSET Nat /\ q \in SUBSET Nat /\ s \in SUBSET Nat
  <2>1. \A e \in Polynomial(data) : e \in Nat
    BY <1>1 DEF Polynomial
  <2>2. p \in SUBSET Nat
    BY <2>1 DEF Up
  <2>3. q \in SUBSET Nat
    BY DEF Up
  <2>4. s \in SUBSET Nat
    BY <1>1 DEF Up
  <2> QED BY <2>2, <2>3, <2>4
<1>3. Up(Polynomial(other), 16) = Plus(p, q)
  <2>1. \A e \in Polynomial(data) : e \in Nat
    BY <1>1 DEF Polynomial
  <2>2. Polynomial(other) = Plus(Polynomial(data), errors)
    BY ChangedData
  <2>3. Polynomial(data) \in SUBSET Nat /\ errors \in SUBSET Nat
    BY <2>1
  <2> QED BY <2>2, <2>3, UpSum
<1>4. CrcOf(data) = Remainder(Plus(p, s), n)
  BY DEF CrcOf
<1>5. CrcOf(other) = Remainder(Plus(Plus(p, q), s), n)
  <2>1. 8 * Len(other) = n
    BY ChangedData
  <2> QED BY <1>3, <2>1 DEF CrcOf
<1> HIDE DEF p, q, s
<1>6. Plus(Plus(p, q), s) = Plus(Plus(p, s), q)
  BY DEF Plus
<1>7. Remainder(Plus(Plus(p, s), q), n) = Plus(Remainder(Plus(p, s), n), Remainder(q, n))
  BY <1>1, <1>2, PlusNat, RemainderLinear
<1>8. ezm_crc16_ccitt(data) = CrcOf(data) /\ ezm_crc16_ccitt(other) = CrcOf(other)
  BY ChangedData, CrcIsDivision
<1> QED
  BY <1>4, <1>5, <1>6, <1>7, <1>8 DEF q

\* No multiple of the generator fits in 16 bits: the dividend stays what it is until the
\* division comes to the errors, and is turned from there on.
LEMMA BurstLeavesRemainder ==
  ASSUME NEW flip \in Word, flip # {}, NEW n \in Nat, NEW at \in 0..(n - 16)
  PROVE  Remainder(Up(Up(flip, at), 16), n) # {}
<1> DEFINE p == Up(flip, at + 16)
           Top(k) == IF n - k >= at + 16 THEN at + 16 ELSE n - k
           Claim(k, r) == \E c \in Word : c # {} /\ r = Up(c, Top(k))
<1>1. Up(Up(flip, at), 16) = p /\ p \in SUBSET Nat
  <2>1. \A e \in flip : e \in Nat /\ (e + at) + 16 = e + (at + 16)
    BY DEF Word
  <2> QED BY <2>1 DEF Up
<1> HIDE DEF p
<1>2. PICK r \in Dividends(p, n) : Remainder(p, n) = r[n]
  BY <1>1, RemainderIsLastDividend
<1> DEFINE T == {k \in 0..n : Claim(k, r[k])}
<1>3. 0 \in T
  <2>1. Top(0) = at + 16
    OBVIOUS
  <2>2. r[0] = Up(flip, at + 16)
    BY DEF Dividends, p
  <2> QED BY <2>1, <2>2
<1>4. ASSUME NEW k \in 1..n, k - 1 \in T PROVE k \in T
  <2> DEFINE m == n - k
  <2>1. m \in Nat /\ r[k] = Reduced(r[k - 1], m)
    BY DEF Dividends
  <2>2. PICK c \in Word : c # {} /\ r[k - 1] = Up(c, Top(k - 1))
    BY <1>4
  <2>3. CASE m >= at + 16
    <3>1. Top(k - 1) = at + 16 /\ Top(k) = at + 16
      BY <2>3
    <3>2. m + 16 \notin Up(c, at + 16)
      BY <2>1, <2>3 DEF Up, Word
    <3>3. r[k] = Up(c, Top(k))
      BY <2>1, <2>2, <3>1, <3>2 DEF Reduced
    <3> QED BY <2>2, <3>3
  <2>4. CASE m < at + 16
    <3>1. Top(k - 1) = m + 1 /\ Top(k) = m
      BY <2>4
    <3>2. Plus(Up(c, m + 1), {}) = Up(c, m + 1) /\ Plus(Up(Shift(c), m), {}) = Up(Shift(c), m)
      BY DEF Plus
    <3>3. Reduced(Plus(Up(c, m + 1), {}), m) = Plus(Up(Shift(c), m), {})
      <4>1. {} \in SUBSET Nat /\ m + 16 \notin {}
        OBVIOUS
      <4> HIDE DEF m
      <4> QED BY <2>1, <4>1, ReducedIsShift
    <3>4. r[k] = Up(Shift(c), Top(k))
      BY <2>1, <2>2, <3>1, <3>2, <3>3
    <3>5. Shift(c) \in Word /\ Shift(c) # {}
      BY <2>2, ShiftBits, ShiftLosesNothing
    <3> QED BY <3>4, <3>5
  <2> QED BY <2>1, <2>3, <2>4
<1>5. n \in T
  <2>1. \A k \in 0..n : k \in T
    <3> HIDE DEF T
    <3> QED BY <1>3, <1>4, Induction
  <2>2. n \in 0..n
    OBVIOUS
  <2> HIDE DEF T
  <2> QED BY <2>1, <2>2
<1>6. r[n] # {}
  <2>1. PICK c \in Word : c # {} /\ r[n] = Up(c, Top(n))
    BY <1>5
  <2> HIDE DEF Top
  <2> QED BY <2>1 DEF Up
<1> QED BY <1>1, <1>2, <1>6

\* A burst of errors within 16 bits, at any place of data of any length, changes the CRC.
THEOREM BurstIsNoticed ==
  ASSUME NEW data \in Seq(Octet), NEW flip \in Word, flip # {},
         NEW at \in 0..(8 * Len(data) - 16)
  PROVE  ezm_crc16_ccitt(Changed(data, Up(flip, at))) # ezm_crc16_ccitt(data)
<1> DEFINE errors == Up(flip, at)
<1>1. 8 * Len(data) \in Nat
  OBVIOUS
<1>2. errors \in SUBSET (0..(8 * Len(data) - 1))
  BY <1>1 DEF Up, Word
<1>3. Remainder(Up(errors, 16), 8 * Len(data)) # {}
  BY <1>1, BurstLeavesRemainder
<1> HIDE DEF errors
<1>4. ezm_crc16_ccitt(Changed(data, errors)) =
        Plus(ezm_crc16_ccitt(data), Remainder(Up(errors, 16), 8 * Len(data)))
  BY <1>2, ChangeInDivision
<1>5. \A a, b : b # {} => Plus(a, b) # a
  BY DEF Plus
<1> QED BY <1>3, <1>4, <1>5 DEF errors

\* Adding an even polynomial changes no parity.
LEMMA SumParity ==
  ASSUME NEW p, NEW q, IsFiniteSet(p), IsFiniteSet(q), Cardinality(q) % 2 = 0
  PROVE  /\ IsFiniteSet(Plus(p, q))
         /\ Cardinality(Plus(p, q)) % 2 = Cardinality(p) % 2
<1>1. Plus(p, q) = (p \ q) \cup (q \ p) /\ (p \ q) \cap (q \ p) = {}
  BY DEF Plus
<1>2. /\ IsFiniteSet(p \ q) /\ Cardinality(p \ q) = Cardinality(p) - Cardinality(p \cap q)
      /\ IsFiniteSet(q \ p) /\ Cardinality(q \ p) = Cardinality(q) - Cardinality(q \cap p)
  BY FS_Difference
<1>3. p \cap q = q \cap p /\ IsFiniteSet(p \cap q)
  BY FS_Intersection
<1>4. /\ Cardinality(p) \in Nat /\ Cardinality(q) \in Nat /\ Cardinality(p \cap q) \in Nat
  BY <1>3, FS_CardinalityType
<1>5. /\ IsFiniteSet((p \ q) \cup (q \ p))
      /\ Cardinality((p \ q) \cup (q \ p)) = Cardinality(p \ q) + Cardinality(q \ p) - 0
  BY <1>1, <1>2, FS_Union, FS_EmptySet
<1> DEFINE a == Cardinality(p)  b == Cardinality(q)  c == Cardinality(p \cap q)
<1>6. Cardinality(Plus(p, q)) = (a - c) + (b - c)
  <2>1. Cardinality(p \ q) = a - c /\ Cardinality(q \ p) = b - c
    BY <1>2, <1>3
  <2>2. Cardinality(Plus(p, q)) = (a - c) + (b - c) - 0
    BY <1>1, <1>5, <2>1
  <2>3. a \in Nat /\ b \in Nat /\ c \in Nat
    BY <1>4
  <2> HIDE DEF a, b, c
  <2> QED BY <2>2, <2>3
<1>7. a \in Nat /\ b \in Nat /\ c \in Nat /\ b % 2 = 0
  BY <1>4
<1> HIDE DEF a, b, c
<1>8. ((a - c) + (b - c)) % 2 = a % 2
  BY <1>7
<1> QED BY <1>1, <1>5, <1>6, <1>8 DEF a

\* One more element.
LEMMA OneMore ==
  ASSUME NEW S, IsFiniteSet(S), NEW c \in Nat, Cardinality(S) = c, NEW x, x \notin S
  PROVE  IsFiniteSet(S \cup {x}) /\ Cardinality(S \cup {x}) = c + 1
BY FS_AddElement

\* The generator has four terms.
LEMMA GeneratorIsEven ==
  ASSUME NEW n \in Nat
  PROVE  IsFiniteSet(Up(Generator, n)) /\ Cardinality(Up(Generator, n)) % 2 = 0
<1> DEFINE one == {n}  two == one \cup {n + 5}  three == two \cup {n + 12}
           four == three \cup {n + 16}
<1>1. Up(Generator, n) = four
  BY DEF Up, Generator
<1>2. n + 5 \notin one /\ n + 12 \notin two /\ n + 16 \notin three
  OBVIOUS
<1>3. IsFiniteSet(one) /\ Cardinality(one) = 1
  BY FS_Singleton
<1> HIDE DEF one
<1>4. IsFiniteSet(two) /\ Cardinality(two) = 1 + 1
  BY <1>2, <1>3, OneMore
<1> HIDE DEF two
<1>5. IsFiniteSet(three) /\ Cardinality(three) = (1 + 1) + 1
  <2>1. 1 + 1 \in Nat
    OBVIOUS
  <2> QED
    BY <1>2, <1>4, <2>1, OneMore
<1> HIDE DEF three
<1>6. IsFiniteSet(four) /\ Cardinality(four) = ((1 + 1) + 1) + 1
  <2>1. (1 + 1) + 1 \in Nat
    OBVIOUS
  <2> QED
    BY <1>2, <1>5, <2>1, OneMore
<1> HIDE DEF four
<1> QED BY <1>1, <1>6

\* The division keeps the parity of the number of terms.
LEMMA RemainderParity ==
  ASSUME NEW p \in SUBSET Nat, IsFiniteSet(p), NEW n \in Nat
  PROVE  /\ IsFiniteSet(Remainder(p, n))
         /\ Cardinality(Remainder(p, n)) % 2 = Cardinality(p) % 2
<1>1. PICK r \in Dividends(p, n) : Remainder(p, n) = r[n]
  BY RemainderIsLastDividend
<1> DEFINE T == {k \in 0..n : /\ IsFiniteSet(r[k])
                              /\ Cardinality(r[k]) % 2 = Cardinality(p) % 2}
<1>2. 0 \in T
  BY DEF Dividends
<1>3. ASSUME NEW k \in 1..n, k - 1 \in T PROVE k \in T
  <2>1. n - k \in Nat /\ r[k] = Reduced(r[k - 1], n - k)
    BY DEF Dividends
  <2>2. r[k] = r[k - 1] \/ r[k] = Plus(r[k - 1], Up(Generator, n - k))
    BY <2>1 DEF Reduced
  <2> QED BY <1>3, <2>1, <2>2, GeneratorIsEven, SumParity
<1>4. n \in T
  <2>1. \A k \in 0..n : k \in T
    <3> HIDE DEF T
    <3> QED BY <1>2, <1>3, Induction
  <2>2. n \in 0..n
    OBVIOUS
  <2> HIDE DEF T
  <2> QED BY <2>1, <2>2
<1> QED BY <1>1, <1>4

\* An odd number of errors, wherever they are, changes the CRC.
THEOREM OddChangeIsNoticed ==
  ASSUME NEW data \in Seq(Octet), NEW errors \in SUBSET (0..(8 * Len(data) - 1)),
         Cardinality(errors) % 2 = 1
  PROVE  ezm_crc16_ccitt(Changed(data, errors)) # ezm_crc16_ccitt(data)
<1> DEFINE n == 8 * Len(data)  q == Up(errors, 16)
<1>1. n \in Nat /\ IsFiniteSet(errors)
  <2>1. n \in Nat
    OBVIOUS
  <2>2. IsFiniteSet(0..(n - 1))
    BY <2>1, FS_Interval
  <2> QED BY <2>1, <2>2, FS_Subset
<1>2. q \in SUBSET Nat
  BY DEF Up
<1>3. IsFiniteSet(q) /\ Cardinality(q) = Cardinality(errors)
  <2> DEFINE f == [e \in errors |-> e + 16]
  <2>1. f \in Bijection(errors, q)
    <3>1. f \in [errors -> q]
      BY DEF Up
    <3>2. \A x, y \in errors : f[x] = f[y] => x = y
      BY <1>1
    <3>3. \A y \in q : \E x \in errors : f[x] = y
      BY DEF Up
    <3> HIDE DEF f, q
    <3> QED BY <3>1, <3>2, <3>3 DEF Bijection, Injection, Surjection, IsInjective
  <2>2. ExistsBijection(errors, q)
    BY <2>1 DEF ExistsBijection
  <2> QED BY <1>1, <2>2, FS_Bijection
<1> HIDE DEF q, n
<1>4. Cardinality(Remainder(q, n)) % 2 = 1
  BY <1>1, <1>2, <1>3, RemainderParity
<1>5. Remainder(q, n) # {}
  <2>1. Cardinality({}) % 2 = 0
    BY FS_EmptySet
  <2> SUFFICES ASSUME Remainder(q, n) = {} PROVE FALSE
    OBVIOUS
  <2>2. Cardinality({}) % 2 = 1
    BY <1>4
  <2> QED BY <2>1, <2>2
<1>6. ezm_crc16_ccitt(Changed(data, errors)) = Plus(ezm_crc16_ccitt(data), Remainder(q, n))
  BY ChangeInDivision DEF q, n
<1>7. \A a, b : b # {} => Plus(a, b) # a
  BY DEF Plus
<1> QED BY <1>5, <1>6, <1>7

\* What Spoil of EzmPpFrame assumes: data of any length that differ in one byte or in two
\* adjacent ones have different CRCs.
THEOREM TwoBytesAreNoticed ==
  ASSUME NEW data \in Seq(Octet), NEW other \in Seq(Octet), Len(other) = Len(data),
         NEW k \in 1..(Len(data) - 1),
         data[k] # other[k] \/ data[k + 1] # other[k + 1],
         \A i \in 1..Len(data) : i \notin {k, k + 1} => data[i] = other[i]
  PROVE  ezm_crc16_ccitt(other) # ezm_crc16_ccitt(data)
<1> DEFINE n == Len(data)
           x == Plus(data[k], other[k])
           y == Plus(data[k + 1], other[k + 1])
           flip == Up(x, 8) \cup y
           at == 8 * (n - (k + 1))
           Flip(i) == {e \in 0..7 : 8 * (n - i) + e \in Up(flip, at)}
<1>1. n \in Nat /\ k \in 1..n /\ k + 1 \in 1..n
  OBVIOUS
<1>2. \A i \in 1..n : data[i] \in Octet /\ other[i] \in Octet
  OBVIOUS
<1>3. x \in Octet /\ y \in Octet
  <2>1. \A a, b \in Octet : Plus(a, b) \in Octet
    BY DEF Plus, Octet
  <2> QED BY <1>1, <1>2, <2>1
<1>4. x # {} \/ y # {}
  <2>1. \A a, b : a # b => Plus(a, b) # {}
    BY DEF Plus
  <2> QED BY <2>1
<1>5. Plus(data[k], x) = other[k] /\ Plus(data[k + 1], y) = other[k + 1]
  BY DEF Plus
<1> HIDE DEF x, y
<1>6. flip \in Word /\ flip # {}
  <2>1. Up(x, 8) \in Word /\ (x # {} => Up(x, 8) # {})
    BY <1>3, UpWord DEF Up
  <2>2. y \in Word
    BY <1>3 DEF Octet, Word
  <2>3. flip \in Word
    BY <2>1, <2>2 DEF Word
  <2> QED BY <1>4, <2>1, <2>3
<1>7. \A e \in Int : e \in flip <=> (e \in 8..15 /\ e - 8 \in x) \/ e \in y
  <2>1. ASSUME NEW e \in Int PROVE e \in Up(x, 8) <=> e \in 8..15 /\ e - 8 \in x
    BY <1>3 DEF Up, Octet
  <2> QED BY <2>1
<1> HIDE DEF flip
<1>8. at \in 0..(8 * n - 16)
  BY <1>1
<1>9. ASSUME NEW e \in Int PROVE e \in Up(flip, at) <=> e - at \in flip
  <2>1. \A d \in flip : d \in Int /\ (d + at) - at = d
    BY <1>6, <1>8 DEF Word
  <2>2. e = (e - at) + at
    BY <1>8
  <2> HIDE DEF at
  <2> QED BY <2>1, <2>2 DEF Up
<1>10. ASSUME NEW i \in 1..n, NEW e \in 0..7
       PROVE  e \in Flip(i) <=> (i = k /\ e \in x) \/ (i = k + 1 /\ e \in y)
  <2> DEFINE d == 8 * (n - i) + e
  <2>1. d \in Int /\ d - at = 8 * ((k + 1) - i) + e
    BY <1>1
  <2>2. e \in Flip(i) <=> d \in Up(flip, at)
    OBVIOUS
  <2> HIDE DEF d, Flip
  <2>3. e \in Flip(i) <=> d - at \in flip
    BY <1>9, <2>1, <2>2
  <2> HIDE DEF at
  <2>4. CASE i = k
    <3>1. d - at = e + 8
      BY <1>1, <2>1, <2>4
    <3>2. e + 8 \in flip <=> e \in x
      BY <1>3, <1>7 DEF Octet
    <3> QED BY <1>1, <2>3, <2>4, <3>1, <3>2
  <2>5. CASE i = k + 1
    <3>1. d - at = e
      BY <1>1, <2>1, <2>5
    <3>2. e \in flip <=> e \in y
      BY <1>7
    <3> QED BY <1>1, <2>3, <2>5, <3>1, <3>2
  <2>6. CASE i < k \/ i > k + 1
    <3>1. d - at \in Int /\ d - at \notin 0..15
      BY <1>1, <2>1, <2>6, SMTT(30)
    <3>2. d - at \notin flip
      BY <1>6, <3>1 DEF Word
    <3> QED BY <1>1, <2>3, <2>6, <3>2
  <2> QED BY <1>1, <2>4, <2>5, <2>6
<1>11. \A i \in 1..n : Plus(data[i], Flip(i)) = other[i]
  <2> TAKE i \in 1..n
  <2>4. Flip(i) \in Octet /\ (\A e \in x : e \in 0..7) /\ (\A e \in y : e \in 0..7)
    BY <1>3 DEF Octet
  <2> HIDE DEF Flip
  <2>1. CASE i = k
    <3>1. Flip(i) = x
      <4>1. \A e \in 0..7 : e \in Flip(i) <=> e \in x
        BY <1>1, <1>10, <2>1
      <4> QED BY <2>4, <4>1 DEF Octet
    <3> QED BY <1>5, <2>1, <3>1
  <2>2. CASE i = k + 1
    <3>1. Flip(i) = y
      <4>1. \A e \in 0..7 : e \in Flip(i) <=> e \in y
        BY <1>1, <1>10, <2>2
      <4> QED BY <2>4, <4>1 DEF Octet
    <3> QED BY <1>5, <2>2, <3>1
  <2>3. CASE i \notin {k, k + 1}
    <3>1. Flip(i) = {}
      <4>1. \A e \in 0..7 : e \notin Flip(i)
        BY <1>10, <2>3
      <4> QED BY <2>4, <4>1 DEF Octet
    <3>2. Plus(data[i], {}) = data[i]
      BY DEF Plus
    <3> QED BY <2>3, <3>1, <3>2
  <2> QED BY <2>1, <2>2, <2>3
<1>12. Changed(data, Up(flip, at)) = other
  <2>1. Changed(data, Up(flip, at)) = [i \in 1..n |-> Plus(data[i], Flip(i))]
    BY DEF Changed
  <2>2. other = [i \in 1..n |-> other[i]]
    OBVIOUS
  <2> HIDE DEF Flip, at, n
  <2> QED BY <1>11, <2>1, <2>2
<1> HIDE DEF at
<1> QED BY <1>6, <1>8, <1>12, BurstIsNoticed

=============================================================================
