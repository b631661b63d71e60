---------------------------- MODULE WinLossProofs ----------------------------
(***************************************************************************)
(* What bytes that the line loses cost the Windows host: the frames they   *)
(* are of, and those behind them, whose beginnings the parser takes for    *)
(* the ends of the first.                                                  *)
(*                                                                         *)
(* Kept says that nothing but lost bytes is missing between the bytes on   *)
(* their way; WithinTwoFrames that what the parser has of a frame is of    *)
(* that one and the one behind it; Accounted that a frame the parser has   *)
(* passed was taken or is excused.                                         *)
(***************************************************************************)
EXTENDS WinConsoleProofs, FiniteSetTheorems

IsLost(x) == \E i \in DOMAIN lost : lost[i] = x
HasLost(f) == \E i \in DOMAIN lost : lost[i].frame = f
IsHad(x) == \E k \in DOMAIN out : out[k] = x
OnItsWay(x) == \E i \in DOMAIN Stream : Stream[i] = x
IsTaken(f) == \E i \in DOMAIN taken : taken[i] = f
Excused(f) == \E i \in DOMAIN lost : f \in {lost[i].frame, lost[i].frame + 1}

\* A byte sent is on its way, lost, or older than all that are on their way.
Kept ==
  \A f \in DOMAIN len : \A k \in 0..(len[f] - 1) :
    \/ OnItsWay(Byte(f, k)) \/ IsLost(Byte(f, k))
    \/ \A i \in DOMAIN Stream : Before(Byte(f, k), Stream[i])

\* The parser has no bytes but of frame g and the one behind it; the first four, and all if
\* none of g was lost, are where they belong; and a byte of the two that is not later than
\* those it has, it has too, or the line lost it.
Begun(g) ==
  /\ \A k \in DOMAIN out :
       /\ out[k].frame \in {g, g + 1} \cap DOMAIN len
       /\ k <= 4 \/ ~HasLost(g) => out[k] = Byte(g, k - 1)
  /\ \A f \in {g, g + 1} \cap DOMAIN len : \A a \in 0..(len[f] - 1) :
       \/ IsHad(Byte(f, a)) \/ IsLost(Byte(f, a))
       \/ Before(out[Len(out)], Byte(f, a))

\* The parser has begun a frame, and knows its length when it has five bytes.
WithinTwoFrames ==
  /\ state \in {"WAIT_LEN", "WAIT_PAYLOAD"} \/ pending =>
       \E g \in DOMAIN len :
         /\ Begun(g)
         /\ state = "WAIT_PAYLOAD" => expected = len[g]
         /\ pending => Len(out) = len[g]
  /\ state = "WAIT_LEN" => Len(out) \in 1..4
  /\ state = "WAIT_PAYLOAD" => Len(out) >= 5 /\ Len(out) < expected

\* A frame whose first byte the parser has passed was taken or is excused.
Accounted ==
  \A f \in DOMAIN len : OnItsWay(Byte(f, 0)) \/ IsTaken(f) \/ Excused(f)

LossInv == FewLost => Kept /\ WithinTwoFrames /\ Accounted

----------------------------------------------------------------------------
(* Bytes lost stay lost *)

\* What the parser and the driver have, what is on its way and what was lost are bytes.
Sequences ==
  /\ Stream \in Seq(Bytes) /\ Live \in Seq(Bytes) /\ out \in Seq(Bytes) /\ copy \in Seq(Bytes)
  /\ lost \in Seq(Bytes) /\ len \in Seq(Lengths) /\ Len(len) \in Nat /\ taken \in Seq(Nat)

\* As the types say.
LEMMA SequencesType == TypeInv => Sequences
<1> SUFFICES ASSUME TypeInv PROVE Sequences
  OBVIOUS
<1>1. Stream \in Seq(Bytes) /\ Live \in Seq(Bytes)
  BY StreamType DEF StreamParts
<1>2. /\ out \in Seq(Bytes) /\ copy \in Seq(Bytes) /\ lost \in Seq(Bytes)
      /\ len \in Seq(Lengths) /\ taken \in Seq(Nat)
  BY DEF TypeInv
<1>3. Len(len) \in Nat
  BY <1>2
<1> QED
  BY <1>1, <1>2, <1>3 DEF Sequences

\* The same after a step.
LEMMA SequencesTypeNext == TypeInv' => Sequences'
BY SequencesType, PTL

\* The list of lost bytes only grows.
LostGrows ==
  /\ Len(lost) <= Len(lost')
  /\ \A i \in DOMAIN lost : i \in DOMAIN lost' /\ lost'[i] = lost[i]

\* A step loses one byte or none.
LEMMA LostNext ==
  ASSUME TypeInv, [WNext]_wvars
  PROVE  LostGrows /\ (lost' = lost \/ LoseByte)
<1>1. lost \in Seq(Bytes) /\ line \in Seq(Bytes)
  BY DEF TypeInv
<1>2. CASE LoseByte
  <2>1. lost' = Append(lost, Head(line)) /\ Head(line) \in Bytes
    BY <1>1, <1>2 DEF LoseByte
  <2> QED
    BY <1>1, <1>2, <2>1 DEF LostGrows
<1>3. CASE ~LoseByte
  <2>1. lost' = lost
    BY <1>3 DEF WNext, DeviceSends, Uart, ReadFile, PushByte, Parser, SeesByte, WaitSync, WaitLen,
       WaitPayload, TakesByte, Resume, Main, Copies, Clears, wvars, portVars
  <2> QED
    BY <1>1, <2>1 DEF LostGrows
<1> QED
  BY <1>2, <1>3

\* Losses beyond those the property is about cannot be undone, and what the loss of a
\* byte excuses remains excused.
LEMMA LostStays ==
  ASSUME TypeInv, TypeInv', LostGrows
  PROVE  /\ FewLost' => FewLost
         /\ \A x : IsLost(x) => \E i \in DOMAIN lost' : lost'[i] = x
         /\ \A f : HasLost(f) => \E i \in DOMAIN lost' : lost'[i].frame = f
         /\ \A f : Excused(f) => \E i \in DOMAIN lost' : f \in {lost'[i].frame, lost'[i].frame + 1}
<1>1. Len(lost) \in Nat /\ Len(lost') \in Nat
  <2>1. lost \in Seq(Bytes) /\ lost' \in Seq(Bytes)
    BY DEF TypeInv
  <2> QED
    BY <2>1
<1>2. FewLost' => FewLost
  <2>1. \A n \in Lengths : n \in Nat
    BY LengthsAreLong
  <2> QED
    BY <1>1, <2>1 DEF FewLost, LostGrows
<1> QED
  BY <1>2 DEF LostGrows, IsLost, HasLost, Excused

\* The lost bytes are of the payloads.
LEMMA TheLost ==
  ASSUME TypeInv, FewLost, NEW i \in DOMAIN lost
  PROVE  lost[i].at >= 4 /\ lost[i].at \in Nat /\ lost[i].frame \in Nat
<1>1. lost \in Seq(Bytes)
  BY DEF TypeInv
<1>2. lost[i] \in Bytes
  BY <1>1
<1> QED
  BY <1>2 DEF Bytes, FewLost

----------------------------------------------------------------------------
(* Nothing else is missing *)

\* The elements of one sequence behind another.
LEMMA ConcatElements ==
  ASSUME NEW S, NEW x \in Seq(S), NEW y \in Seq(S)
  PROVE  /\ Len(x) \in Nat /\ DOMAIN (x \o y) = 1..(Len(x) + Len(y))
         /\ \A i \in 1..Len(x) : (x \o y)[i] = x[i]
         /\ \A k \in 1..Len(y) : (x \o y)[Len(x) + k] = y[k]
OBVIOUS

\* A frame sent comes behind all that was sent before it.
LEMMA KeptGrows ==
  ASSUME TypeInv, TypeInv', OrderInv, Kept, NEW n \in Lengths, DeviceSends(n)
  PROVE  Kept'
<1> DEFINE l == Len(len)  b == FrameBytes(l + 1, n)
<1>1. Stream' = Stream \o b /\ len' = Append(len, n) /\ lost' = lost
  BY StreamGrows
<1>2. l \in Nat /\ len \in Seq(Lengths)
  BY DEF TypeInv
<1>3. /\ n \in Nat /\ n >= 6 /\ b \in Seq(Bytes) /\ Len(b) = n
      /\ \A k \in 1..n : b[k] = [frame |-> l + 1, at |-> k - 1]
  BY <1>2, FrameType
<1>4. Stream \in Seq(Bytes)
  BY SequencesType DEF Sequences
<1> HIDE DEF b
<1>5. /\ Len(Stream) \in Nat /\ DOMAIN Stream' = 1..(Len(Stream) + n)
      /\ \A i \in 1..Len(Stream) : Stream'[i] = Stream[i]
      /\ \A k \in 1..n : Stream'[Len(Stream) + k] = b[k]
  <2>1. b \in Seq(Bytes) /\ Len(b) = n /\ Stream' = Stream \o b
    BY <1>1, <1>3
  <2>2. /\ Len(Stream) \in Nat /\ DOMAIN (Stream \o b) = 1..(Len(Stream) + Len(b))
        /\ \A i \in 1..Len(Stream) : (Stream \o b)[i] = Stream[i]
        /\ \A k \in 1..Len(b) : (Stream \o b)[Len(Stream) + k] = b[k]
    BY <1>4, <2>1, ConcatElements
  <2> QED
    BY <2>1, <2>2
<1>6. DOMAIN Stream = 1..Len(Stream) /\ lost' = lost
  BY <1>1, <1>4
<1> SUFFICES ASSUME NEW f \in DOMAIN len', NEW k \in 0..(len'[f] - 1)
             PROVE  \/ \E i \in DOMAIN Stream' : Stream'[i] = Byte(f, k)
                    \/ IsLost(Byte(f, k))
                    \/ \A i \in DOMAIN Stream' : Before(Byte(f, k), Stream'[i])
  BY <1>6 DEF Kept, OnItsWay, IsLost, Before, Byte
<1>7. CASE f = l + 1
  <2>1. len'[f] = n
    BY <1>1, <1>2, <1>7
  <2>2. k + 1 \in 1..n /\ (k + 1) - 1 = k
    BY <1>3, <2>1
  <2>3. b[k + 1] = Byte(f, k)
    BY <1>3, <1>7, <2>2 DEF Byte
  <2>4. Len(Stream) + (k + 1) \in DOMAIN Stream' /\ Stream'[Len(Stream) + (k + 1)] = Byte(f, k)
    BY <1>3, <1>5, <2>2, <2>3
  <2> QED
    BY <2>4
<1>8. CASE f # l + 1
  <2>1. f \in DOMAIN len /\ len'[f] = len[f] /\ f \in Nat /\ f < l + 1
    BY <1>1, <1>2, <1>8
  <2>2. \/ OnItsWay(Byte(f, k)) \/ IsLost(Byte(f, k))
        \/ \A i \in DOMAIN Stream : Before(Byte(f, k), Stream[i])
    BY <2>1 DEF Kept
  <2>3. CASE OnItsWay(Byte(f, k))
    <3>1. PICK i \in 1..Len(Stream) : Stream[i] = Byte(f, k)
      BY <1>6, <2>3 DEF OnItsWay
    <3>2. i \in DOMAIN Stream' /\ Stream'[i] = Byte(f, k)
      BY <1>3, <1>5, <3>1, SMTT(30)
    <3> QED
      BY <3>2
  <2>4. CASE \A i \in DOMAIN Stream : Before(Byte(f, k), Stream[i])
    <3> SUFFICES ASSUME NEW i \in DOMAIN Stream' PROVE Before(Byte(f, k), Stream'[i])
      OBVIOUS
    <3>1. CASE i <= Len(Stream)
      BY <1>5, <1>6, <2>4, <3>1
    <3>2. CASE i > Len(Stream)
      <4>1. PICK j \in 1..n : i = Len(Stream) + j
        <5>1. i \in 1..(Len(Stream) + n) /\ Len(Stream) \in Nat /\ n \in Nat
          BY <1>3, <1>5
        <5>2. i - Len(Stream) \in 1..n /\ i = Len(Stream) + (i - Len(Stream))
          BY <3>2, <5>1
        <5> QED
          BY <5>2
      <4>2. Stream'[i].frame = l + 1
        <5>1. Stream'[i] = b[j]
          BY <1>5, <4>1
        <5>2. b[j] = [frame |-> l + 1, at |-> j - 1]
          BY <1>3
        <5> QED
          BY <5>1, <5>2
      <4> QED
        BY <2>1, <4>2 DEF Before, Byte
    <3> QED
      BY <1>5, <3>1, <3>2
  <2> QED
    BY <2>2, <2>3, <2>4
<1> QED
  BY <1>7, <1>8

\* Bytes that leave the front are older than those that stay.
LEMMA KeptShrinks ==
  ASSUME TypeInv, TypeInv', OrderInv, Kept, len' = len, lost' = lost,
         NEW d \in Nat, d <= Len(Stream), Len(Stream') = Len(Stream) - d,
         \A i \in DOMAIN Stream' : Stream'[i] = Stream[d + i]
  PROVE  Kept'
<1>1. Stream \in Seq(Bytes) /\ Stream' \in Seq(Bytes)
  BY SequencesType, SequencesTypeNext DEF Sequences
<1>2. /\ Len(Stream) \in Nat /\ DOMAIN Stream = 1..Len(Stream)
      /\ DOMAIN Stream' = 1..(Len(Stream) - d)
  BY <1>1
<1> SUFFICES ASSUME NEW f \in DOMAIN len, NEW k \in 0..(len[f] - 1)
             PROVE  \/ \E i \in DOMAIN Stream' : Stream'[i] = Byte(f, k)
                    \/ IsLost(Byte(f, k))
                    \/ \A i \in DOMAIN Stream' : Before(Byte(f, k), Stream'[i])
  BY DEF Kept, OnItsWay, IsLost, Before, Byte
<1>3. \/ OnItsWay(Byte(f, k)) \/ IsLost(Byte(f, k))
      \/ \A i \in DOMAIN Stream : Before(Byte(f, k), Stream[i])
  BY DEF Kept
<1>4. CASE OnItsWay(Byte(f, k))
  <2>1. PICK i \in DOMAIN Stream : Stream[i] = Byte(f, k)
    BY <1>4 DEF OnItsWay
  <2>2. CASE i <= d
    <3>1. \A j \in DOMAIN Stream' : d + j \in DOMAIN Stream /\ i < d + j
      BY <1>2, <2>2
    <3> QED
      BY <2>1, <3>1 DEF OrderInv
  <2>3. CASE i > d
    <3>1. i - d \in DOMAIN Stream' /\ d + (i - d) = i
      BY <1>2, <2>3
    <3>2. Stream'[i - d] = Byte(f, k)
      BY <2>1, <3>1
    <3> QED
      BY <3>1, <3>2
  <2> QED
    BY <1>2, <2>2, <2>3
<1>5. CASE \A i \in DOMAIN Stream : Before(Byte(f, k), Stream[i])
  <2>1. \A j \in DOMAIN Stream' : d + j \in DOMAIN Stream
    BY <1>2
  <2> QED
    BY <1>5, <2>1
<1> QED
  BY <1>3, <1>4, <1>5

\* The byte the line loses is then a lost one.
LEMMA KeptThinned ==
  ASSUME TypeInv, TypeInv', Kept, LoseByte
  PROVE  Kept'
<1>1. PICK p \in 0..(Len(Stream) - 1) :
        /\ Len(Stream') = Len(Stream) - 1
        /\ \A i \in DOMAIN Stream' : Stream'[i] = Stream[IF i <= p THEN i ELSE i + 1]
        /\ lost' = Append(lost, Stream[p + 1])
  BY StreamShrinks
<1>2. len' = len
  BY StreamShrinks
<1>3. Stream \in Seq(Bytes) /\ Stream' \in Seq(Bytes) /\ lost \in Seq(Bytes)
  BY SequencesType, SequencesTypeNext DEF Sequences
<1>4. /\ Len(Stream) \in Nat /\ DOMAIN Stream = 1..Len(Stream)
      /\ DOMAIN Stream' = 1..(Len(Stream) - 1)
  BY <1>1, <1>3
<1>5. /\ Len(lost) + 1 \in DOMAIN lost' /\ lost'[Len(lost) + 1] = Stream[p + 1]
      /\ \A i \in DOMAIN lost : i \in DOMAIN lost' /\ lost'[i] = lost[i]
  <2>1. Stream[p + 1] \in Bytes
    BY <1>3, <1>4
  <2> QED
    BY <1>1, <1>3, <2>1
<1> SUFFICES ASSUME NEW f \in DOMAIN len, NEW k \in 0..(len[f] - 1)
             PROVE  \/ \E i \in DOMAIN Stream' : Stream'[i] = Byte(f, k)
                    \/ \E i \in DOMAIN lost' : lost'[i] = Byte(f, k)
                    \/ \A i \in DOMAIN Stream' : Before(Byte(f, k), Stream'[i])
  BY <1>2 DEF Kept, OnItsWay, IsLost, Before, Byte
<1>6. \/ OnItsWay(Byte(f, k)) \/ IsLost(Byte(f, k))
      \/ \A i \in DOMAIN Stream : Before(Byte(f, k), Stream[i])
  BY DEF Kept
<1>7. CASE OnItsWay(Byte(f, k))
  <2>1. PICK i \in DOMAIN Stream : Stream[i] = Byte(f, k)
    BY <1>7 DEF OnItsWay
  <2>2. CASE i = p + 1
    BY <1>5, <2>1, <2>2
  <2>3. CASE i <= p
    <3>1. i \in DOMAIN Stream'
      BY <1>4, <2>3
    <3> QED
      BY <1>1, <2>1, <2>3, <3>1
  <2>4. CASE i > p + 1
    <3>1. i - 1 \in DOMAIN Stream' /\ ~(i - 1 <= p) /\ (i - 1) + 1 = i
      BY <1>4, <2>4
    <3>2. Stream'[i - 1] = Stream[(i - 1) + 1]
      BY <1>1, <3>1
    <3> QED
      BY <2>1, <3>1, <3>2
  <2> QED
    BY <1>4, <2>2, <2>3, <2>4
<1>8. CASE IsLost(Byte(f, k))
  BY <1>5, <1>8 DEF IsLost
<1>9. CASE \A i \in DOMAIN Stream : Before(Byte(f, k), Stream[i])
  <2>1. \A i \in DOMAIN Stream' : (IF i <= p THEN i ELSE i + 1) \in DOMAIN Stream
    BY <1>4
  <2> QED
    BY <1>1, <1>9, <2>1
<1> QED
  BY <1>6, <1>7, <1>8, <1>9

----------------------------------------------------------------------------
(* Where the parser is *)

\* The byte behind one on its way is the next that was sent and not lost.
LEMMA NoneBetween ==
  ASSUME TypeInv, OrderInv, Kept, NEW i \in DOMAIN Stream, i + 1 \in DOMAIN Stream,
         NEW f \in DOMAIN len, NEW k \in 0..(len[f] - 1), ~IsLost(Byte(f, k)),
         Before(Stream[i], Byte(f, k))
  PROVE  Stream[i + 1] = Byte(f, k) \/ Before(Stream[i + 1], Byte(f, k))
<1>1. Stream \in Seq(Bytes) /\ f \in Nat /\ k \in Nat
  <2>1. Stream \in Seq(Bytes) /\ len \in Seq(Lengths)
    BY SequencesType, SequencesTypeNext DEF Sequences
  <2> QED
    BY <2>1
<1>2. Stream[i].frame \in Nat /\ Stream[i].at \in Nat /\ i \in Nat /\ DOMAIN Stream \subseteq Nat
  <2>1. Stream[i] \in Bytes /\ DOMAIN Stream = 1..Len(Stream) /\ Len(Stream) \in Nat
    BY <1>1
  <2> QED
    BY <2>1 DEF Bytes
<1>3. ~Before(Byte(f, k), Stream[i])
  BY <1>1, <1>2 DEF Before, Byte
<1>4. PICK j \in DOMAIN Stream : Stream[j] = Byte(f, k)
  BY <1>3 DEF Kept, OnItsWay
<1>5. ~(j < i)
  BY <1>3, <1>4 DEF OrderInv
<1>6. j # i
  BY <1>1, <1>4 DEF Before, Byte
<1>7. j = i + 1 \/ i + 1 < j
  BY <1>2, <1>4, <1>5, <1>6
<1> QED
  BY <1>4, <1>7 DEF OrderInv

\* The types of two bytes that follow each other, and how they compare.
LEMMA Neighbours ==
  ASSUME TypeInv, OrderInv, NEW i \in DOMAIN Stream, i + 1 \in DOMAIN Stream
  PROVE  /\ Stream[i] \in Bytes /\ Stream[i + 1] \in Bytes
         /\ Before(Stream[i], Stream[i + 1])
         /\ Stream[i + 1].frame \in DOMAIN len /\ Stream[i + 1].at < len[Stream[i + 1].frame]
         /\ len \in Seq(Lengths) /\ \A f \in DOMAIN len : len[f] \in Nat /\ len[f] >= 6
<1>1. Stream \in Seq(Bytes) /\ len \in Seq(Lengths)
  BY SequencesType, SequencesTypeNext DEF Sequences
<1>2. Stream[i] \in Bytes /\ Stream[i + 1] \in Bytes /\ i < i + 1
  <2>1. i \in Nat
    BY <1>1
  <2> QED
    BY <1>1, <2>1
<1>3. /\ Stream[i + 1].frame \in (Line!Last + 1)..Len(len)
      /\ Stream[i + 1].at < len[Stream[i + 1].frame] /\ Line!Last \in 0..Len(len)
  BY DEF OrderInv
<1>4. Stream[i + 1].frame \in DOMAIN len
  BY <1>1, <1>3
<1>5. \A f \in DOMAIN len : len[f] \in Nat /\ len[f] >= 6
  BY <1>1, LengthsAreLong
<1> QED
  BY <1>1, <1>2, <1>3, <1>4, <1>5 DEF OrderInv

\* The frame behind one that the next byte is later than was sent, and begins with a byte
\* that was not lost.
LEMMA NextBegins ==
  ASSUME TypeInv, OrderInv, FewLost, NEW i \in DOMAIN Stream, i + 1 \in DOMAIN Stream,
         NEW g \in DOMAIN len, g < Stream[i + 1].frame
  PROVE  /\ g + 1 \in DOMAIN len /\ 0 \in 0..(len[g + 1] - 1)
         /\ ~IsLost(Byte(g + 1, 0))
<1>1. /\ Stream[i + 1].frame \in DOMAIN len /\ len \in Seq(Lengths)
      /\ \A f \in DOMAIN len : len[f] \in Nat /\ len[f] >= 6
  BY Neighbours
<1>2. g + 1 \in DOMAIN len
  BY <1>1
<1>3. ~IsLost(Byte(g + 1, 0))
  BY TheLost DEF IsLost, Byte
<1> QED
  BY <1>1, <1>2, <1>3

\* As long as the parser has fewer bytes than the frame it has begun, some byte of it or
\* of the next is yet to come: no more were lost than the next has.
LEMMA NotAllLost ==
  ASSUME TypeInv, FewLost, NEW g \in DOMAIN len, g + 1 \in DOMAIN len, Len(out) < len[g]
  PROVE  ~ \A f \in {g, g + 1} : \A a \in 0..(len[f] - 1) :
             IsHad(Byte(f, a)) \/ IsLost(Byte(f, a))
<1> SUFFICES ASSUME \A f \in {g, g + 1} : \A a \in 0..(len[f] - 1) :
                      IsHad(Byte(f, a)) \/ IsLost(Byte(f, a))
             PROVE  FALSE
  OBVIOUS
<1> DEFINE n == len[g] + len[g + 1]  m == Len(out) + Len(lost)
           c == out \o lost
           p == [i \in 1..n |-> IF i <= len[g] THEN Byte(g, i - 1)
                                ELSE Byte(g + 1, i - len[g] - 1)]
<1>1. out \in Seq(Bytes) /\ lost \in Seq(Bytes) /\ len \in Seq(Lengths)
  BY SequencesType DEF Sequences
<1>2. /\ len[g] \in Nat /\ len[g + 1] \in Nat /\ g \in Nat
      /\ Len(out) \in Nat /\ Len(lost) \in Nat /\ Len(lost) <= len[g + 1]
  <2>1. /\ len[g] \in Lengths /\ len[g + 1] \in Lengths /\ g \in Nat
        /\ Len(out) \in Nat /\ Len(lost) \in Nat
    BY <1>1
  <2> QED
    BY <2>1, LengthsAreLong DEF FewLost
<1>3. \A i \in 1..Len(out) : i \in 1..m /\ c[i] = out[i]
  BY <1>1, <1>2
<1>4. \A i \in 1..Len(lost) : Len(out) + i \in 1..m /\ c[Len(out) + i] = lost[i]
  BY <1>1, <1>2
<1>5. DOMAIN out = 1..Len(out) /\ DOMAIN lost = 1..Len(lost)
  BY <1>1
<1>6. ASSUME NEW i \in 1..n PROVE \E q \in 1..m : c[q] = p[i]
  <2>1. PICK f \in {g, g + 1} : \E a \in 0..(len[f] - 1) : p[i] = Byte(f, a)
    <3>1. CASE i <= len[g]
      <4>1. i - 1 \in 0..(len[g] - 1) /\ p[i] = Byte(g, i - 1)
        BY <1>2, <3>1
      <4> QED
        BY <4>1
    <3>2. CASE ~(i <= len[g])
      <4>1. i - len[g] - 1 \in 0..(len[g + 1] - 1) /\ p[i] = Byte(g + 1, i - len[g] - 1)
        BY <1>2, <3>2
      <4> QED
        BY <4>1
    <3> QED
      BY <3>1, <3>2
  <2>2. PICK a \in 0..(len[f] - 1) : p[i] = Byte(f, a)
    BY <2>1
  <2> HIDE DEF c, p, m, n
  <2>3. CASE IsHad(Byte(f, a))
    BY <1>3, <1>5, <2>2, <2>3 DEF IsHad
  <2>4. CASE IsLost(Byte(f, a))
    BY <1>4, <1>5, <2>2, <2>4 DEF IsLost
  <2> QED
    BY <2>3, <2>4
<1>7. ASSUME NEW i \in 1..n, NEW j \in 1..n, p[i] = p[j] PROVE i = j
  <2>1. /\ p[i].frame = IF i <= len[g] THEN g ELSE g + 1
        /\ p[i].at = IF i <= len[g] THEN i - 1 ELSE i - len[g] - 1
        /\ p[j].frame = IF j <= len[g] THEN g ELSE g + 1
        /\ p[j].at = IF j <= len[g] THEN j - 1 ELSE j - len[g] - 1
    BY DEF Byte
  <2>2. i \in Nat /\ j \in Nat
    BY <1>2
  <2> HIDE DEF p
  <2> QED
    BY <1>2, <1>7, <2>1, <2>2
<1>8. n \in Nat /\ m \in Nat /\ n > m
  BY <1>2
<1> HIDE DEF n, m, c, p
<1> DEFINE h == [i \in 1..n |-> CHOOSE q \in 1..m : c[q] = p[i]]
<1>9. \A i \in 1..n : h[i] \in 1..m /\ c[h[i]] = p[i]
  BY <1>6
<1>10. h \in [1..n -> 1..m]
  BY <1>9
<1>11. \A i, j \in 1..n : h[i] = h[j] => i = j
  BY <1>7, <1>9
<1> HIDE DEF h
<1>12. h \in Injection(1..n, 1..m)
  BY <1>10, <1>11 DEF Injection, IsInjective
<1>13. IsFiniteSet(1..m) /\ Cardinality(1..m) = m /\ Cardinality(1..n) = n
  BY <1>8, FS_Interval
<1>14. Cardinality(1..n) <= Cardinality(1..m)
  BY <1>12, <1>13, FS_Injection
<1> QED
  BY <1>8, <1>13, <1>14

\* The next byte is of the frame begun or of the one behind it, and where it belongs if
\* none of the frame was lost; what it passes over was lost.
LEMMA NextOfTwo ==
  ASSUME TypeInv, OrderInv, FewLost, Kept, NEW g \in DOMAIN len, Begun(g),
         NEW k \in DOMAIN Stream, k + 1 \in DOMAIN Stream,
         k = Len(out), k >= 1, k < len[g], Stream[k] = out[k]
  PROVE  /\ Stream[k + 1].frame \in {g, g + 1} \cap DOMAIN len
         /\ k + 1 <= 4 \/ ~HasLost(g) => Stream[k + 1] = Byte(g, k)
         /\ \A f \in {g, g + 1} \cap DOMAIN len : \A a \in 0..(len[f] - 1) :
              \/ IsHad(Byte(f, a)) \/ IsLost(Byte(f, a)) \/ Stream[k + 1] = Byte(f, a)
              \/ Before(Stream[k + 1], Byte(f, a))
<1> DEFINE x == Stream[k]  y == Stream[k + 1]
<1>1. /\ x \in Bytes /\ y \in Bytes /\ Before(x, y)
      /\ y.frame \in DOMAIN len /\ y.at < len[y.frame]
      /\ len \in Seq(Lengths) /\ \A f \in DOMAIN len : len[f] \in Nat /\ len[f] >= 6
  BY Neighbours
<1>2. /\ k \in Nat /\ g \in Nat /\ len[g] \in Nat
      /\ x.frame \in Nat /\ x.at \in Nat /\ y.frame \in Nat /\ y.at \in Nat
      /\ \A f \in DOMAIN len : f \in Nat
  <2>1. Stream \in Seq(Bytes)
    BY SequencesType DEF Sequences
  <2>2. k \in Nat /\ g \in Nat /\ \A f \in DOMAIN len : f \in Nat
    BY <1>1, <2>1
  <2> QED
    BY <1>1, <2>2 DEF Bytes
<1>3. k \in DOMAIN out /\ x = out[k]
  <2>1. out \in Seq(Bytes)
    BY SequencesType DEF Sequences
  <2> QED
    BY <1>2, <2>1
<1>4. x.frame \in {g, g + 1} \cap DOMAIN len /\ (k <= 4 \/ ~HasLost(g) => x = Byte(g, k - 1))
  BY <1>3 DEF Begun
<1>5. \A f \in DOMAIN len : \A a \in 0..(len[f] - 1) :
        ~IsLost(Byte(f, a)) /\ Before(x, Byte(f, a)) => y = Byte(f, a) \/ Before(y, Byte(f, a))
  BY NoneBetween
<1>6. \A f \in {g, g + 1} \cap DOMAIN len : \A a \in 0..(len[f] - 1) :
        IsHad(Byte(f, a)) \/ IsLost(Byte(f, a)) \/ Before(x, Byte(f, a))
  BY <1>3 DEF Begun
<1>7. g < y.frame =>
        /\ g + 1 \in DOMAIN len /\ 0 \in 0..(len[g + 1] - 1) /\ ~IsLost(Byte(g + 1, 0))
  BY NextBegins
<1> HIDE DEF x, y
<1>8. y.frame \in {g, g + 1}
  <2>1. CASE x.frame = g /\ g < y.frame
    <3>1. Before(x, Byte(g + 1, 0))
      BY <1>2, <2>1 DEF Before, Byte
    <3>2. y = Byte(g + 1, 0) \/ Before(y, Byte(g + 1, 0))
      BY <1>5, <1>7, <2>1, <3>1
    <3> QED
      BY <1>2, <2>1, <3>2 DEF Before, Byte
  <2>2. CASE x.frame = g + 1
    <3> SUFFICES ASSUME y.frame > g + 1 PROVE FALSE
      BY <1>1, <1>2, <2>2 DEF Before
    <3>1. g + 1 \in DOMAIN len
      BY <1>4, <2>2
    <3>2. ASSUME NEW f \in {g, g + 1}, NEW a \in 0..(len[f] - 1)
          PROVE  IsHad(Byte(f, a)) \/ IsLost(Byte(f, a))
      <4>1. IsHad(Byte(f, a)) \/ IsLost(Byte(f, a)) \/ Before(x, Byte(f, a))
        BY <1>6, <3>1
      <4>2. ASSUME ~IsLost(Byte(f, a)), Before(x, Byte(f, a)) PROVE FALSE
        <5>1. y = Byte(f, a) \/ Before(y, Byte(f, a))
          BY <1>5, <3>1, <4>2
        <5>2. Byte(f, a).frame = f /\ f <= g + 1
          BY <1>2 DEF Byte
        <5> QED
          BY <1>2, <5>1, <5>2 DEF Before
      <4> QED
        BY <4>1, <4>2
    <3> QED
      BY <3>1, <3>2, NotAllLost
  <2>3. x.frame = g /\ ~(g < y.frame) => y.frame = g
    BY <1>1, <1>2 DEF Before
  <2> QED
    BY <1>4, <2>1, <2>2, <2>3
<1>9. ASSUME k + 1 <= 4 \/ ~HasLost(g) PROVE y = Byte(g, k)
  <2>1. x = Byte(g, k - 1)
    BY <1>2, <1>4, <1>9
  <2>2. ~IsLost(Byte(g, k))
    <3> SUFFICES ASSUME NEW i \in DOMAIN lost, lost[i] = Byte(g, k) PROVE FALSE
      BY DEF IsLost
    <3>1. lost[i].frame = g /\ lost[i].at = k
      BY DEF Byte
    <3> QED
      BY <1>2, <1>9, <3>1, TheLost DEF HasLost
  <2>3. k \in 0..(len[g] - 1) /\ Before(x, Byte(g, k))
    BY <1>2, <2>1 DEF Before, Byte
  <2>4. y = Byte(g, k) \/ Before(y, Byte(g, k))
    BY <1>5, <2>2, <2>3
  <2>5. ~Before(y, Byte(g, k))
    BY <1>1, <1>2, <2>1 DEF Before, Byte
  <2> QED
    BY <2>4, <2>5
<1>10. ASSUME NEW f \in {g, g + 1} \cap DOMAIN len, NEW a \in 0..(len[f] - 1)
       PROVE  \/ IsHad(Byte(f, a)) \/ IsLost(Byte(f, a)) \/ y = Byte(f, a)
              \/ Before(y, Byte(f, a))
  BY <1>5, <1>6
<1> QED
  BY <1>1, <1>8, <1>9, <1>10 DEF y

\* The next byte the parser puts behind those it has leaves it within the two frames.
LEMMA FitsParsed ==
  ASSUME TypeInv, TypeInv', RoomInv, OfferInv, OrderInv, FewLost, Kept, WithinTwoFrames,
         WaitLen \/ WaitPayload
  PROVE  \E g \in DOMAIN len :
           /\ Begun(g)'
           /\ state = "WAIT_PAYLOAD" => expected = len[g]
           /\ Len(out') = Len(out) + 1 /\ Len(out) < len[g]
<1>1. /\ state \in {"WAIT_LEN", "WAIT_PAYLOAD"} /\ Live = out /\ out' = Append(out, rxByte)
  BY DEF WaitLen, WaitPayload, Live
<1>2. PICK g \in DOMAIN len : Begun(g) /\ (state = "WAIT_PAYLOAD" => expected = len[g])
  BY <1>1 DEF WithinTwoFrames
<1>3. out \in Seq(Bytes) /\ out' \in Seq(Bytes) /\ Stream \in Seq(Bytes) /\ len \in Seq(Lengths)
  BY SequencesType, SequencesTypeNext DEF Sequences
<1>4. len[g] \in Nat /\ len[g] >= 6
  BY <1>3, LengthsAreLong
<1>5. Len(out) \in Nat /\ Len(out) >= 1 /\ Len(out) < len[g]
  <2>1. Len(out) \in Nat
    BY <1>3
  <2>2. state = "WAIT_LEN" => Len(out) \in 1..4
    BY DEF WithinTwoFrames
  <2>3. state = "WAIT_PAYLOAD" => Len(out) >= 5 /\ Len(out) < expected
    BY DEF WithinTwoFrames
  <2>4. CASE state = "WAIT_LEN"
    <3> DEFINE a == Len(out)  n == len[g]
    <3>1. a \in 1..4 /\ n \in Nat /\ n >= 6
      BY <1>4, <2>2, <2>4
    <3> HIDE DEF a, n
    <3>2. a \in Nat /\ a >= 1 /\ a < n
      BY <3>1
    <3> QED
      BY <3>2 DEF a, n
  <2>5. CASE state = "WAIT_PAYLOAD"
    <3>1. expected = len[g]
      BY <1>2, <2>5
    <3> QED
      BY <1>4, <2>1, <2>3, <2>5, <3>1
  <2> QED
    BY <1>1, <2>4, <2>5
<1> DEFINE k == Len(out)
<1>6. k + 1 \in DOMAIN Stream /\ Stream[k + 1] = rxByte /\ len' = len /\ lost' = lost
  BY <1>1, StreamParsed
<1>7. k \in DOMAIN Stream /\ Stream[k] = out[k]
  BY <1>1, <1>3, <1>5, LiveIsPrefix
<1>8. /\ Len(out') = k + 1 /\ DOMAIN out' = 1..(k + 1) /\ DOMAIN out = 1..k
      /\ out'[k + 1] = rxByte /\ \A j \in 1..k : out'[j] = out[j]
  <2>1. rxByte \in Bytes
    BY <1>3, <1>6
  <2> QED
    BY <1>1, <1>3, <2>1
<1>9. /\ rxByte.frame \in {g, g + 1} \cap DOMAIN len
      /\ k + 1 <= 4 \/ ~HasLost(g) => rxByte = Byte(g, k)
      /\ \A f \in {g, g + 1} \cap DOMAIN len : \A a \in 0..(len[f] - 1) :
           \/ IsHad(Byte(f, a)) \/ IsLost(Byte(f, a)) \/ rxByte = Byte(f, a)
           \/ Before(rxByte, Byte(f, a))
  BY <1>2, <1>5, <1>6, <1>7, NextOfTwo
<1> HIDE DEF k
<1>10. k \in Nat
  BY <1>5 DEF k
<1>11. ASSUME NEW j \in DOMAIN out'
       PROVE  /\ out'[j].frame \in {g, g + 1} \cap DOMAIN len
              /\ j <= 4 \/ ~HasLost(g) => out'[j] = Byte(g, j - 1)
  <2>1. j \in 1..k \/ (j = k + 1 /\ j - 1 = k)
    BY <1>8, <1>10
  <2>2. CASE j \in 1..k
    BY <1>2, <1>8, <2>2 DEF Begun
  <2>3. CASE j = k + 1 /\ j - 1 = k
    BY <1>8, <1>9, <2>3
  <2> QED
    BY <2>1, <2>2, <2>3
<1>12. ASSUME NEW z, IsHad(z) \/ z = rxByte PROVE IsHad(z)'
  <2>1. k + 1 \in DOMAIN out' /\ \A j \in DOMAIN out : j \in DOMAIN out'
    BY <1>8, <1>10
  <2> QED
    BY <1>8, <1>12, <2>1 DEF IsHad
<1>13. out'[Len(out')] = rxByte
  BY <1>8
<1>14. Begun(g)'
  <2> SUFFICES /\ \A j \in DOMAIN out' :
                    /\ out'[j].frame \in {g, g + 1} \cap DOMAIN len
                    /\ j <= 4 \/ ~HasLost(g) => out'[j] = Byte(g, j - 1)
               /\ \A f \in {g, g + 1} \cap DOMAIN len : \A a \in 0..(len[f] - 1) :
                    \/ IsHad(Byte(f, a))' \/ IsLost(Byte(f, a))
                    \/ Before(rxByte, Byte(f, a))
    BY <1>6, <1>13 DEF Begun, HasLost, IsLost, Byte, Before, IsHad
  <2>1. ASSUME NEW f \in {g, g + 1} \cap DOMAIN len, NEW a \in 0..(len[f] - 1)
        PROVE  IsHad(Byte(f, a))' \/ IsLost(Byte(f, a)) \/ Before(rxByte, Byte(f, a))
    BY <1>9, <1>12 DEF Byte
  <2> QED
    BY <1>11, <2>1
<1> QED
  BY <1>2, <1>5, <1>8, <1>14 DEF k

\* The first bytes of a frame are where they belong.
LEMMA LengthKnown ==
  ASSUME TypeInv', len' = len, NEW g \in DOMAIN len, Begun(g)', Len(out') = 5
  PROVE  LengthRead(out') = {len[g]}
<1>1. 3 \in DOMAIN out' /\ 4 \in DOMAIN out'
  <2>1. out' \in Seq(Bytes)
    BY SequencesTypeNext DEF Sequences
  <2> QED
    BY <2>1
<1>2. out'[3] = Byte(g, 2) /\ out'[4] = Byte(g, 3)
  BY <1>1 DEF Begun, Byte
<1>3. out'[3].frame = g
  BY <1>2 DEF Byte
<1> QED
  BY <1>2, <1>3 DEF LengthRead, Byte

\* The parser stays within the frame it has begun and the one behind it.
LEMMA WithinParsed ==
  ASSUME TypeInv, TypeInv', RoomInv, OfferInv, OrderInv, FewLost, Kept, WithinTwoFrames,
         WaitSync \/ WaitLen \/ WaitPayload
  PROVE  WithinTwoFrames'
<1>1. /\ len' = len /\ lost' = lost /\ ~pending
      /\ Len(Live) + 1 \in DOMAIN Stream /\ Stream[Len(Live) + 1] = rxByte
  BY StreamParsed
<1>2. out \in Seq(Bytes) /\ out' \in Seq(Bytes) /\ Stream \in Seq(Bytes) /\ len \in Seq(Lengths)
  BY SequencesType, SequencesTypeNext DEF Sequences
<1>3. \A f \in DOMAIN len : f \in Nat /\ len[f] \in Nat /\ len[f] >= 6
  BY <1>2, LengthsAreLong
<1>4. ASSUME NEW g \in DOMAIN len, Begun(g)',
             state' = "WAIT_PAYLOAD" => expected' = len[g], pending' => Len(out') = len[g],
             state' = "WAIT_LEN" => Len(out') \in 1..4,
             state' = "WAIT_PAYLOAD" => Len(out') >= 5 /\ Len(out') < expected'
      PROVE  WithinTwoFrames'
  BY <1>1, <1>4 DEF WithinTwoFrames
<1>5. CASE WaitSync /\ IsSync(rxByte)
  <2>1. out' = <<rxByte>> /\ state' = "WAIT_LEN" /\ pending' = pending /\ Live = <<>>
    BY <1>1, <1>5 DEF WaitSync, Live
  <2>2. Stream[1] = rxByte /\ 1 \in DOMAIN Stream
    BY <1>1, <2>1
  <2>3. rxByte \in Bytes /\ rxByte.at = 0 /\ rxByte.frame \in DOMAIN len
    <3>1. rxByte.frame \in (Line!Last + 1)..Len(len) /\ Line!Last \in 0..Len(len)
      BY <2>2 DEF OrderInv
    <3> QED
      BY <1>2, <1>5, <2>2, <3>1 DEF IsSync, FewLost
  <2>4. PICK g \in DOMAIN len : rxByte = Byte(g, 0)
    BY <2>3 DEF Bytes, Byte
  <2>5. DOMAIN out' = {1} /\ out'[1] = rxByte /\ Len(out') = 1
    BY <2>1
  <2>6. g \in Nat
    BY <1>3
  <2>7. Begun(g)'
    <3>1. ASSUME NEW f \in {g, g + 1} \cap DOMAIN len, NEW a \in 0..(len[f] - 1)
          PROVE  Byte(g, 0) = Byte(f, a) \/ Before(Byte(g, 0), Byte(f, a))
      <4>1. a \in Nat /\ f \in Nat
        BY <1>3
      <4> QED
        BY <2>6, <4>1 DEF Before, Byte
    <3>2. ASSUME NEW z, z = Byte(g, 0) PROVE IsHad(z)'
      BY <2>4, <2>5, <3>2 DEF IsHad, Byte
    <3>3. \A k \in DOMAIN out' : out'[k] = Byte(g, 0) /\ k - 1 = 0 /\ out'[k].frame = g
      BY <2>4, <2>5 DEF Byte
    <3>4. out'[Len(out')] = Byte(g, 0)
      BY <2>4, <2>5
    <3> QED
      BY <1>1, <3>1, <3>2, <3>3, <3>4 DEF Begun, Byte, Before
  <2> QED
    BY <1>1, <1>4, <2>1, <2>5, <2>7
<1>6. CASE WaitSync /\ ~IsSync(rxByte)
  BY <1>1, <1>6 DEF WaitSync, WithinTwoFrames
<1>7. CASE WaitLen \/ WaitPayload
  <2>1. PICK g \in DOMAIN len :
           /\ Begun(g)'
           /\ state = "WAIT_PAYLOAD" => expected = len[g]
           /\ Len(out') = Len(out) + 1 /\ Len(out) < len[g]
    BY <1>7, FitsParsed
  <2>2. Len(out) \in Nat /\ len[g] \in Nat /\ len[g] >= 6 /\ DOMAIN out' = 1..Len(out')
    BY <1>2, <1>3
  <2>3. CASE WaitLen /\ Len(out') > 4
    <3>1. Len(out') = 5 /\ state' = "WAIT_PAYLOAD" /\ expected' \in LengthRead(out') /\ ~pending'
      <4>1. Len(out) \in 1..4
        BY <2>3 DEF WaitLen, WithinTwoFrames
      <4> DEFINE a == Len(out)  b == Len(out')
      <4>2. a \in 1..4 /\ b = a + 1 /\ b > 4
        BY <2>1, <2>3, <4>1
      <4> HIDE DEF a, b
      <4>3. b = 5
        BY <4>2
      <4> QED
        BY <1>1, <2>3, <4>3 DEF WaitLen, b
    <3>2. LengthRead(out') = {len[g]}
      BY <1>1, <2>1, <3>1, LengthKnown
    <3>3. expected' = len[g]
      BY <3>1, <3>2
    <3>4. Len(out') >= 5 /\ Len(out') < expected' /\ state' # "WAIT_LEN"
      BY <2>2, <3>1, <3>3
    <3> QED
      BY <1>4, <2>1, <3>1, <3>3, <3>4
  <2>4. CASE WaitLen /\ ~(Len(out') > 4)
    <3>1. Len(out') \in 1..4 /\ state' = "WAIT_LEN" /\ ~pending'
      BY <1>1, <2>1, <2>2, <2>4 DEF WaitLen, WithinTwoFrames
    <3> QED
      BY <1>4, <2>1, <3>1
  <2>5. CASE WaitPayload /\ Complete(out')
    <3>1. state' = "OFFERED" /\ expected = len[g] /\ Len(out') >= expected
      BY <2>1, <2>5 DEF WaitPayload, Complete
    <3>2. Len(out') = len[g]
      BY <2>1, <2>2, <3>1
    <3> QED
      BY <1>4, <2>1, <3>1, <3>2
  <2>6. CASE WaitPayload /\ ~Complete(out')
    <3>1. /\ state' = "WAIT_PAYLOAD" /\ expected' = expected /\ expected = len[g] /\ ~pending'
          /\ Len(out) >= 5 /\ ~(Len(out') >= expected)
      BY <1>1, <2>1, <2>6 DEF WaitPayload, Complete, WithinTwoFrames
    <3>2. Len(out') >= 5 /\ Len(out') < expected'
      BY <2>1, <2>2, <3>1
    <3> QED
      BY <1>4, <2>1, <3>1, <3>2
  <2> QED
    BY <1>7, <2>3, <2>4, <2>5, <2>6
<1> QED
  BY <1>5, <1>6, <1>7

\* What the parser has stays within the two frames when others are sent or bytes are lost.
LEMMA BegunStays ==
  ASSUME TypeInv, TypeInv', LostGrows, NEW g \in DOMAIN len, Begun(g), out' = out, Len(out) >= 1,
         \A f \in DOMAIN len : f \in DOMAIN len' /\ len'[f] = len[f]
  PROVE  Begun(g)'
<1>1. /\ \A z : IsLost(z) => IsLost(z)'
      /\ HasLost(g) => HasLost(g)'
  BY DEF LostGrows, IsLost, HasLost
<1>2. \A z : IsHad(z) => IsHad(z)'
  BY DEF IsHad
<1>3. /\ len \in Seq(Lengths) /\ len' \in Seq(Lengths) /\ out \in Seq(Bytes)
  BY SequencesType, SequencesTypeNext DEF Sequences
<1>4. Len(out) \in DOMAIN out
  BY <1>3
<1>5. ASSUME NEW f \in {g, g + 1} \cap DOMAIN len', NEW a \in 0..(len'[f] - 1)
      PROVE  IsHad(Byte(f, a))' \/ IsLost(Byte(f, a))' \/ Before(out[Len(out)], Byte(f, a))
  <2>1. CASE f \in DOMAIN len
    <3>1. IsHad(Byte(f, a)) \/ IsLost(Byte(f, a)) \/ Before(out[Len(out)], Byte(f, a))
      BY <2>1 DEF Begun
    <3> QED
      BY <1>1, <1>2, <3>1 DEF Byte
  <2>2. CASE f \notin DOMAIN len
    <3>1. out[Len(out)].frame = g
      BY <1>4, <2>2 DEF Begun
    <3>2. f = g + 1 /\ g \in Nat
      BY <1>3, <2>2
    <3> QED
      BY <3>1, <3>2 DEF Before, Byte
  <2> QED
    BY <2>1, <2>2
<1>6. ASSUME NEW k \in DOMAIN out
      PROVE  /\ out[k].frame \in {g, g + 1} \cap DOMAIN len'
             /\ k <= 4 \/ ~HasLost(g)' => out[k] = Byte(g, k - 1)
  BY <1>1 DEF Begun
<1> QED
  BY <1>5, <1>6 DEF Begun, Byte, Before

\* No other step moves the parser in a frame.
LEMMA WithinNext ==
  ASSUME TypeInv, TypeInv', RoomInv, OfferInv, OrderInv, FewLost, Kept, WithinTwoFrames,
         [WNext]_wvars
  PROVE  WithinTwoFrames'
<1>1. LostGrows
  BY LostNext
<1>2. ASSUME UNCHANGED <<state, out, expected, pending>>,
             \A g \in DOMAIN len : g \in DOMAIN len' /\ len'[g] = len[g]
      PROVE  WithinTwoFrames'
  <2>1. ASSUME state \in {"WAIT_LEN", "WAIT_PAYLOAD"} \/ pending,
               NEW g \in DOMAIN len, pending => Len(out) = len[g]
        PROVE  Len(out) >= 1
    <3>1. out \in Seq(Bytes) /\ len \in Seq(Lengths)
      BY SequencesType DEF Sequences
    <3>2. Len(out) \in Nat /\ len[g] \in Lengths
      BY <3>1
    <3>3. len[g] \in Nat /\ len[g] >= 6
      BY <3>2, LengthsAreLong
    <3>4. state = "WAIT_LEN" => Len(out) >= 1
      <4>1. ASSUME NEW n \in 1..4 PROVE n >= 1
        OBVIOUS
      <4> QED
        BY <4>1 DEF WithinTwoFrames
    <3> QED
      BY <2>1, <3>2, <3>3, <3>4 DEF WithinTwoFrames
  <2>2. ASSUME state \in {"WAIT_LEN", "WAIT_PAYLOAD"} \/ pending
        PROVE  \E g \in DOMAIN len' :
                 /\ Begun(g)'
                 /\ state = "WAIT_PAYLOAD" => expected = len'[g]
                 /\ pending => Len(out) = len'[g]
    <3>1. PICK g \in DOMAIN len :
            /\ Begun(g)
            /\ state = "WAIT_PAYLOAD" => expected = len[g]
            /\ pending => Len(out) = len[g]
      BY <2>2 DEF WithinTwoFrames
    <3>2. Begun(g)'
      BY <1>1, <1>2, <2>1, <2>2, <3>1, BegunStays
    <3> QED
      BY <1>2, <3>1, <3>2
  <2> QED
    BY <1>2, <2>2 DEF WithinTwoFrames
<1>3. ASSUME NEW n \in Lengths, DeviceSends(n) PROVE WithinTwoFrames'
  <2>1. len' = Append(len, n) /\ UNCHANGED <<state, out, expected, pending>>
    BY <1>3 DEF DeviceSends, parserVars
  <2>2. len \in Seq(Lengths)
    BY DEF TypeInv
  <2>3. \A g \in DOMAIN len : g \in DOMAIN len' /\ len'[g] = len[g]
    BY <2>1, <2>2
  <2> QED
    BY <1>2, <2>1, <2>3
<1>4. CASE WaitSync \/ WaitLen \/ WaitPayload
  BY <1>4, WithinParsed
<1>5. CASE Resume \/ Clears
  BY <1>5 DEF Resume, Clears, WithinTwoFrames, OfferInv, CopyIsStable, parserVars
<1>6. CASE LoseByte \/ Uart \/ SeesByte \/ Copies \/ UNCHANGED wvars
  <2>1. UNCHANGED <<len, state, out, expected, pending>>
    BY <1>6 DEF LoseByte, Uart, ReadFile, PushByte, SeesByte, Copies, wvars, portVars, parserVars
  <2> QED
    BY <1>2, <2>1
<1> QED
  BY <1>3, <1>4, <1>5, <1>6 DEF WNext, Parser, Main

----------------------------------------------------------------------------
(* What becomes of the frames *)

\* A frame sent later, or excused, stays so.
LEMMA AccountedStays ==
  ASSUME TypeInv, TypeInv', LostGrows, Accounted, len' = len,
         \A f \in DOMAIN len : OnItsWay(Byte(f, 0)) /\ ~IsTaken(f) /\ ~Excused(f) =>
            \/ \E i \in DOMAIN Stream' : Stream'[i] = Byte(f, 0)
            \/ \E i \in DOMAIN taken' : taken'[i] = f
            \/ \E i \in DOMAIN lost' : f \in {lost'[i].frame, lost'[i].frame + 1},
         \A f : IsTaken(f) => \E i \in DOMAIN taken' : taken'[i] = f
  PROVE  Accounted'
<1>1. \A f : Excused(f) => \E i \in DOMAIN lost' : f \in {lost'[i].frame, lost'[i].frame + 1}
  BY LostStays
<1> QED
  BY <1>1 DEF Accounted, OnItsWay, IsTaken, Excused, Byte

\* The frame the driver collects is accepted or was spoiled by the loss; so was the one
\* whose first bytes stand at the end of it.
LEMMA AccountedTaken ==
  ASSUME TypeInv, TypeInv', OfferInv, WithinTwoFrames, Accounted, Clears
  PROVE  Accounted'
<1>1. /\ Stream = copy \o Stream' /\ copy # <<>> /\ copy = out /\ pending
      /\ len' = len /\ lost' = lost
  BY StreamTaken
<1>2. /\ copy \in Seq(Bytes) /\ Stream' \in Seq(Bytes) /\ Stream \in Seq(Bytes)
      /\ taken \in Seq(Nat) /\ len \in Seq(Lengths) /\ lost \in Seq(Bytes)
  BY SequencesType, SequencesTypeNext DEF Sequences
<1>3. PICK g \in DOMAIN len : Begun(g) /\ Len(copy) = len[g]
  BY <1>1 DEF WithinTwoFrames
<1>4. \A f : IsTaken(f) => \E i \in DOMAIN taken' : taken'[i] = f
  <2>1. taken' = taken \/ \E f \in DOMAIN len : taken' = Append(taken, f)
    BY ClearsNext
  <2>2. \A f \in DOMAIN len : f \in Nat
    BY <1>2
  <2>3. ASSUME NEW f \in DOMAIN len, taken' = Append(taken, f)
        PROVE  \A i \in DOMAIN taken : i \in DOMAIN taken' /\ taken'[i] = taken[i]
    BY <1>2, <2>2, <2>3
  <2> QED
    BY <2>1, <2>3 DEF IsTaken
<1>5. ASSUME ~HasLost(g) PROVE \E i \in DOMAIN taken' : taken'[i] = g
  <2>1. \A k \in DOMAIN copy : copy[k] = Byte(g, k - 1)
    BY <1>1, <1>3, <1>5 DEF Begun
  <2>2. g \in Nat /\ len[g] \in Lengths
    BY <1>2
  <2>3. /\ FrameBytes(g, len[g]) \in Seq(Bytes) /\ Len(FrameBytes(g, len[g])) = len[g]
        /\ \A k \in 1..len[g] : FrameBytes(g, len[g])[k] = Byte(g, k - 1)
    BY <2>2, FrameType DEF Byte
  <2>4. \A k \in 1..Len(copy) : copy[k] = FrameBytes(g, len[g])[k]
    <3>1. DOMAIN copy = 1..Len(copy)
      BY <1>2
    <3> QED
      BY <1>3, <2>1, <2>3, <3>1
  <2>5. copy = FrameBytes(g, len[g])
    BY <1>2, <1>3, <2>3, <2>4, SeqEqual
  <2>6. g \in Validated(copy)
    BY <2>5 DEF Validated
  <2>7. PICK f \in Validated(copy) : taken' = Append(taken, f)
    BY <2>6 DEF Clears
  <2>8. f = g
    <3>1. f \in DOMAIN len /\ copy = FrameBytes(f, len[f])
      BY DEF Validated
    <3>2. f \in Nat /\ len[f] \in Lengths /\ Len(copy) >= 1 /\ Len(copy) \in Nat
      BY <1>1, <1>2, <3>1
    <3>3. copy[1] = [frame |-> f, at |-> 1 - 1]
      BY <3>1, <3>2, FrameType
    <3>4. copy[1] = Byte(g, 1 - 1)
      BY <2>1, <3>2, <1>2
    <3> QED
      BY <3>3, <3>4 DEF Byte
  <2>9. Len(taken) + 1 \in DOMAIN taken' /\ taken'[Len(taken) + 1] = g
    BY <1>2, <2>2, <2>7, <2>8
  <2> QED
    BY <2>9
<1>6. HasLost(g) => Excused(g) /\ Excused(g + 1)
  BY DEF HasLost, Excused
<1>7. ASSUME NEW f \in DOMAIN len, OnItsWay(Byte(f, 0)), ~Excused(f)
      PROVE  \/ \E i \in DOMAIN Stream' : Stream'[i] = Byte(f, 0)
             \/ \E i \in DOMAIN taken' : taken'[i] = f
  <2>1. PICK i \in DOMAIN Stream : Stream[i] = Byte(f, 0)
    BY <1>7 DEF OnItsWay
  <2>2. i \in 1..(Len(copy) + Len(Stream')) /\ Len(copy) \in Nat /\ Len(Stream') \in Nat
    BY <1>1, <1>2
  <2>3. CASE i <= Len(copy)
    <3>1. i \in DOMAIN copy /\ copy[i] = Byte(f, 0) /\ i \in Nat /\ i >= 1
      BY <1>1, <1>2, <2>1, <2>2, <2>3
    <3>2. f \in {g, g + 1} /\ (~HasLost(g) => f = g)
      BY <1>1, <1>3, <3>1 DEF Begun, Byte
    <3>3. f = g \/ (f = g + 1 /\ HasLost(g))
      BY <3>2
    <3> QED
      BY <1>5, <1>6, <1>7, <3>3
  <2>4. CASE i > Len(copy)
    <3>1. PICK j \in 1..Len(Stream') : i = Len(copy) + j
      <4>1. i - Len(copy) \in 1..Len(Stream') /\ i = Len(copy) + (i - Len(copy))
        BY <2>2, <2>4
      <4> QED
        BY <4>1
    <3>2. (copy \o Stream')[Len(copy) + j] = Stream'[j] /\ j \in DOMAIN Stream'
      BY <1>2
    <3> QED
      BY <1>1, <2>1, <3>1, <3>2
  <2> QED
    BY <2>2, <2>3, <2>4
<1>8. LostGrows
  BY <1>1, <1>2 DEF LostGrows
<1> QED
  BY <1>1, <1>4, <1>7, <1>8, AccountedStays

\* A frame sent is on its way.
LEMMA AccountedGrows ==
  ASSUME TypeInv, TypeInv', Accounted, NEW n \in Lengths, DeviceSends(n)
  PROVE  Accounted'
<1> DEFINE l == Len(len)  b == FrameBytes(l + 1, n)
<1>1. Stream' = Stream \o b /\ len' = Append(len, n) /\ lost' = lost /\ taken' = taken
  BY StreamGrows
<1>2. l \in Nat /\ len \in Seq(Lengths) /\ Stream \in Seq(Bytes)
  BY SequencesType, SequencesTypeNext DEF Sequences
<1>3. /\ n \in Nat /\ n >= 6 /\ b \in Seq(Bytes) /\ Len(b) = n
      /\ b[1] = [frame |-> l + 1, at |-> 1 - 1]
  <2>1. n \in Nat /\ n >= 6
    BY <1>2, FrameType
  <2>2. 1 \in 1..n
    BY <2>1
  <2> QED
    BY <1>2, <2>1, <2>2, FrameType
<1> HIDE DEF b
<1>4. /\ Len(Stream) + 1 \in DOMAIN Stream' /\ Stream'[Len(Stream) + 1] = b[1]
      /\ \A i \in DOMAIN Stream : i \in DOMAIN Stream' /\ Stream'[i] = Stream[i]
  BY <1>1, <1>2, <1>3
<1>5. b[1] = Byte(l + 1, 0)
  BY <1>3 DEF Byte
<1>6. DOMAIN len' = DOMAIN len \cup {l + 1}
  BY <1>1, <1>2
<1>7. taken' = taken /\ lost' = lost
  BY <1>1
<1> SUFFICES ASSUME NEW f \in DOMAIN len'
             PROVE  (\E i \in DOMAIN Stream' : Stream'[i] = Byte(f, 0)) \/ IsTaken(f) \/ Excused(f)
  BY <1>7 DEF Accounted, OnItsWay, IsTaken, Excused, Byte
<1>8. CASE f = l + 1
  BY <1>4, <1>5, <1>8
<1>9. CASE f \in DOMAIN len
  BY <1>4, <1>9 DEF Accounted, OnItsWay
<1> QED
  BY <1>6, <1>8, <1>9

\* A frame that a step takes from those on their way is taken or excused.
LEMMA AccountedNext ==
  ASSUME TypeInv, TypeInv', RoomInv, OfferInv, OrderInv, FewLost, FewLost',
         WithinTwoFrames, Accounted, [WNext]_wvars
  PROVE  Accounted'
<1>1. LostGrows
  BY LostNext
<1>2. CASE \E n \in Lengths : DeviceSends(n)
  BY <1>2, AccountedGrows
<1>3. CASE LoseByte
  <2>1. PICK p \in 0..(Len(Stream) - 1) :
          /\ Len(Stream') = Len(Stream) - 1
          /\ \A i \in DOMAIN Stream' : Stream'[i] = Stream[IF i <= p THEN i ELSE i + 1]
          /\ lost' = Append(lost, Stream[p + 1])
    BY <1>3, StreamShrinks
  <2>2. len' = len /\ taken' = taken
    BY <1>3, StreamShrinks
  <2>3. Stream \in Seq(Bytes) /\ Stream' \in Seq(Bytes) /\ lost \in Seq(Bytes)
    BY SequencesType, SequencesTypeNext DEF Sequences
  <2>4. /\ Len(Stream) \in Nat /\ DOMAIN Stream = 1..Len(Stream)
        /\ DOMAIN Stream' = 1..(Len(Stream) - 1)
    BY <2>1, <2>3
  <2>5. Stream[p + 1].at >= 4
    <3>1. Stream[p + 1] \in Bytes
      BY <2>3, <2>4
    <3>2. Len(lost) + 1 \in DOMAIN lost' /\ lost'[Len(lost) + 1] = Stream[p + 1]
      BY <2>1, <2>3, <3>1
    <3> QED
      BY <3>2 DEF FewLost
  <2>6. ASSUME NEW f \in DOMAIN len, OnItsWay(Byte(f, 0))
        PROVE  \E i \in DOMAIN Stream' : Stream'[i] = Byte(f, 0)
    <3>1. PICK i \in DOMAIN Stream : Stream[i] = Byte(f, 0)
      BY <2>6 DEF OnItsWay
    <3>2. i # p + 1
      BY <2>5, <3>1 DEF Byte
    <3>3. CASE i <= p
      <4>1. i \in DOMAIN Stream'
        BY <2>4, <3>3
      <4> QED
        BY <2>1, <3>1, <3>3, <4>1
    <3>4. CASE i > p + 1
      <4>1. i - 1 \in DOMAIN Stream' /\ ~(i - 1 <= p) /\ (i - 1) + 1 = i
        BY <2>4, <3>4
      <4>2. Stream'[i - 1] = Stream[(i - 1) + 1]
        BY <2>1, <4>1
      <4> QED
        BY <3>1, <4>1, <4>2
    <3> QED
      BY <2>4, <3>2, <3>3, <3>4
  <2> QED
    BY <1>1, <2>2, <2>6, AccountedStays DEF IsTaken
<1>4. CASE WaitSync \/ WaitLen \/ WaitPayload
  <2>1. /\ UNCHANGED <<len, lost, taken>> /\ ~pending
        /\ Len(Live) + 1 \in DOMAIN Stream /\ Stream[Len(Live) + 1] = rxByte
        /\ \/ Stream' = Stream
           \/ Stream' = Tail(Stream) /\ state = "WAIT_SYNC" /\ ~IsSync(rxByte)
    BY <1>4, StreamParsed
  <2>2. CASE Stream' = Stream
    BY <1>1, <2>1, <2>2, AccountedStays DEF OnItsWay, IsTaken
  <2>3. CASE Stream' = Tail(Stream) /\ state = "WAIT_SYNC" /\ ~IsSync(rxByte)
    <3>1. Len(Live) = 0
      BY <2>1, <2>3 DEF Live
    <3>2. Stream[1] = rxByte /\ 1 \in DOMAIN Stream /\ Stream[1].at # 0
      BY <2>1, <2>3, <3>1 DEF IsSync
    <3>3. Stream \in Seq(Bytes) /\ Stream # <<>>
      <4>1. Stream \in Seq(Bytes)
        BY SequencesType DEF Sequences
      <4> QED
        BY <3>2, <4>1
    <3>4. /\ DOMAIN Stream = 1..Len(Stream) /\ Len(Stream) \in Nat
          /\ DOMAIN Stream' = 1..(Len(Stream) - 1)
          /\ \A i \in 1..(Len(Stream) - 1) : Stream'[i] = Stream[i + 1]
      BY <2>3, <3>3
    <3>5. ASSUME NEW f \in DOMAIN len, OnItsWay(Byte(f, 0))
          PROVE  \E i \in DOMAIN Stream' : Stream'[i] = Byte(f, 0)
      <4>1. PICK i \in DOMAIN Stream : Stream[i] = Byte(f, 0)
        BY <3>5 DEF OnItsWay
      <4>2. i # 1
        BY <3>2, <4>1 DEF Byte
      <4>3. i - 1 \in 1..(Len(Stream) - 1) /\ (i - 1) + 1 = i
        BY <3>4, <4>2
      <4>4. Stream'[i - 1] = Stream[(i - 1) + 1]
        BY <3>4, <4>3
      <4> QED
        BY <3>4, <4>1, <4>3, <4>4
    <3> QED
      BY <1>1, <2>1, <3>5, AccountedStays DEF IsTaken
  <2> QED
    BY <2>1, <2>2, <2>3
<1>5. CASE Clears
  BY <1>5, AccountedTaken
<1>6. CASE Uart \/ SeesByte \/ Resume \/ Copies \/ UNCHANGED wvars
  <2>1. Stream' = Stream /\ UNCHANGED <<len, lost, taken>>
    BY <1>6, StreamMoves
  <2> QED
    BY <1>1, <2>1, AccountedStays DEF OnItsWay, IsTaken
<1> QED
  BY <1>2, <1>3, <1>4, <1>5, <1>6 DEF WNext, Parser, Main

\* Nothing but lost bytes is missing after any step.
LEMMA KeptNext ==
  ASSUME TypeInv, TypeInv', RoomInv, OfferInv, OrderInv, Kept, [WNext]_wvars
  PROVE  Kept'
<1>1. Stream \in Seq(Bytes) /\ Stream' \in Seq(Bytes)
  BY SequencesType, SequencesTypeNext DEF Sequences
<1>2. ASSUME Stream' = Stream, len' = len, lost' = lost PROVE Kept'
  BY <1>2 DEF Kept, OnItsWay, IsLost, Before, Byte
<1>3. CASE \E n \in Lengths : DeviceSends(n)
  BY <1>3, KeptGrows
<1>4. CASE LoseByte
  BY <1>4, KeptThinned
<1>5. CASE WaitSync \/ WaitLen \/ WaitPayload
  <2>1. /\ len' = len /\ lost' = lost /\ Len(Live) + 1 \in DOMAIN Stream
        /\ Stream' = Stream \/ Stream' = Tail(Stream)
    BY <1>5, StreamParsed
  <2>2. CASE Stream' = Tail(Stream)
    <3>1. Stream # <<>>
      <4>1. Len(Live) \in Nat
        <5>1. Live \in Seq(Bytes)
          BY SequencesType DEF Sequences
        <5> QED
          BY <5>1
      <4> QED
        BY <1>1, <2>1, <4>1
    <3>2. /\ 1 <= Len(Stream) /\ Len(Stream') = Len(Stream) - 1
          /\ \A i \in DOMAIN Stream' : Stream'[i] = Stream[1 + i]
      BY <1>1, <2>2, <3>1
    <3> QED
      BY <2>1, <3>2, KeptShrinks
  <2> QED
    BY <1>2, <2>1, <2>2
<1>6. CASE Clears
  <2>1. Stream = copy \o Stream' /\ len' = len /\ lost' = lost
    BY <1>6, StreamTaken
  <2>2. copy \in Seq(Bytes)
    BY DEF TypeInv
  <2>3. /\ Len(copy) \in Nat /\ Len(copy) <= Len(Stream) /\ Len(Stream') = Len(Stream) - Len(copy)
        /\ \A i \in DOMAIN Stream' : Stream'[i] = Stream[Len(copy) + i]
    <3>1. Len(copy) \in Nat /\ Len(Stream') \in Nat /\ DOMAIN Stream' = 1..Len(Stream')
      BY <1>1, <2>2
    <3>2. Len(copy \o Stream') = Len(copy) + Len(Stream')
      BY <1>1, <2>2
    <3>3. \A i \in 1..Len(Stream') : (copy \o Stream')[Len(copy) + i] = Stream'[i]
      BY <1>1, <2>2
    <3>4. Len(Stream) = Len(copy) + Len(Stream')
      BY <2>1, <3>2
    <3> QED
      BY <2>1, <3>1, <3>3, <3>4
  <2> QED
    BY <2>1, <2>3, KeptShrinks
<1>7. CASE Uart \/ SeesByte \/ Resume \/ Copies \/ UNCHANGED wvars
  BY <1>2, <1>7, StreamMoves
<1> QED
  BY <1>3, <1>4, <1>5, <1>6, <1>7 DEF WNext, Parser, Main

----------------------------------------------------------------------------
(* The result *)

\* Bytes lost in payloads cost their frames and at most the next ones, as long as no more
\* are lost than the shortest frame has: for frames of any lengths, rings of any size and
\* any number of frames sent, whatever the order the threads run in.
THEOREM LossCostsTwoFrames_Correct == WSpec => []LossCostsTwoFrames
<1>1. WInit => LossInv
  <2> SUFFICES ASSUME WInit PROVE Kept /\ WithinTwoFrames /\ Accounted
    BY DEF LossInv
  <2>1. DOMAIN len = {}
    BY DEF WInit
  <2> QED
    BY <2>1 DEF WInit, Kept, WithinTwoFrames, Accounted
<1>2. WinInv /\ WinInv' /\ LossInv /\ [WNext]_wvars => LossInv'
  <2> SUFFICES ASSUME WinInv, WinInv', LossInv, [WNext]_wvars, FewLost'
               PROVE  Kept' /\ WithinTwoFrames' /\ Accounted'
    BY DEF LossInv
  <2> USE DEF WinInv
  <2>1. LostGrows
    BY LostNext
  <2>2. FewLost /\ Kept /\ WithinTwoFrames /\ Accounted
    BY <2>1, LostStays DEF LossInv
  <2> QED
    BY <2>2, KeptNext, WithinNext, AccountedNext
<1>3. WinInv /\ LossInv => LossCostsTwoFrames
  <2> SUFFICES ASSUME WinInv, LossInv, FewLost, NEW f \in Missing
               PROVE  Excused(f)
    BY DEF LossCostsTwoFrames, FewLost, Excused
  <2>1. /\ f \in 1..Line!Last /\ ~IsTaken(f)
    BY DEF Missing, Line!Last, IsTaken
  <2>2. Line!Last \in 0..Len(len) /\ len \in Seq(Lengths)
    BY DEF WinInv, OrderInv, TypeInv
  <2>3. f \in DOMAIN len /\ f <= Line!Last
    BY <2>1, <2>2
  <2>4. ~OnItsWay(Byte(f, 0))
    <3> SUFFICES ASSUME NEW i \in DOMAIN Stream, Stream[i] = Byte(f, 0) PROVE FALSE
      BY DEF OnItsWay
    <3>1. Stream[i].frame \in (Line!Last + 1)..Len(len) /\ Stream[i].frame = f
      BY DEF WinInv, OrderInv, Byte
    <3> QED
      BY <2>2, <2>3, <3>1
  <2> QED
    BY <2>1, <2>3, <2>4 DEF LossInv, Accounted
<1> QED
  BY <1>1, <1>2, <1>3, WinInvariant, PTL DEF WSpec

=============================================================================
