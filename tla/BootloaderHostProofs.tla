------------------------ MODULE BootloaderHostProofs ------------------------
(***************************************************************************)
(* What a download of the earlier host guarantees for every file and block *)
(* size, on a line that delays and loses as many frames as it likes, with  *)
(* a client that resets, asks again and fails when it likes.               *)
(*                                                                         *)
(* The host numbers blocks from 0 again for a client that was reset, and   *)
(* goes on reading where it was.  That such a download cannot end well is  *)
(* a matter of counting: every block served moves the file on, so a block  *)
(* that carries the wrong bytes is of a place behind its number, as is     *)
(* every later one, and the file ends before the last number is reached.   *)
(***************************************************************************)
EXTENDS BootloaderHost, TLAPS

\* The bytes of the file that block n is to carry.
Slice(n) ==
  SubSeq(file, n * client.bs + 1, Smaller((n + 1) * client.bs, Len(file)))

\* The file has been read beyond block n.
Beyond(n) == (n + 1) * client.bs < pos

\* The file is ahead of the block counter.
Ahead == dl.actual_block_nbr * client.bs < pos

IsBlock(m) == m.cmd = "DOWNLOAD_BLOCK_RES"
Wrong(m) == IsBlock(m) /\ m.data # Slice(m.nbr)

\* What is true of a frame to the client, and of the one the host would repeat.
FrameInv(m) ==
  /\ IsBlock(m) =>
       /\ m.nbr * client.bs < pos
       /\ Wrong(m) => Beyond(m.nbr) /\ Ahead
  /\ m.cmd = "DOWNLOAD_PARAM_RES" => m.nbr * client.bs >= Len(file)
  /\ m.cmd = "BOOT_APP" => boot

\* Behind a wrong block all others are late too.
AnswersInv ==
  /\ FrameInv(digest)
  /\ \A k \in DOMAIN toClient :
       /\ FrameInv(toClient[k])
       /\ Wrong(toClient[k]) =>
            /\ IsBlock(digest) => Beyond(digest.nbr)
            /\ \A j \in DOMAIN toClient :
                 k < j /\ IsBlock(toClient[j]) => Beyond(toClient[j].nbr)

\* The file is read block by block, and the counter never gets ahead of it.
FileInv ==
  /\ dl.block_size \in {0, client.bs}
  /\ \/ pos = Len(file)
     \/ dl.actual_block_nbr * client.bs <= pos /\ \E k \in 0..Len(file) : pos = k * client.bs
  /\ \A k \in DOMAIN toHost : toHost[k].cmd = "DOWNLOAD_PARAM_REQ" => toHost[k].size = client.bs

\* The client has taken a wrong block: those it still waits for come too late.
Doomed ==
  /\ Ahead
  /\ IsBlock(digest) /\ digest.nbr >= client.want => Beyond(digest.nbr)
  /\ \A k \in DOMAIN toClient :
       IsBlock(toClient[k]) /\ toClient[k].nbr >= client.want => Beyond(toClient[k].nbr)

Begins == img = SubSeq(file, 1, Smaller(client.want * client.bs, Len(file)))

\* What the client holds while it waits for the answer it has asked for.
Waits ==
  /\ client.st = "idle" => ~client.asked
  /\ client.st = "param" => img = <<>>
  /\ client.st = "block" => client.blocks * client.bs >= Len(file) /\ (Begins \/ Doomed)

ClientInv ==
  /\ Waits
  /\ \A k \in DOMAIN toHost : toHost[k].cmd = "END" => client.st = "done" /\ (boot \/ img = file)

\* The parameters are only asked for before the first block, unless the client is reset.
InOrder ==
  /\ ~Ahead
  /\ client.st \in {"idle", "hello", "param"} =>
       /\ pos = 0
       /\ \A k \in DOMAIN toHost : toHost[k].cmd # "DOWNLOAD_BLOCK_REQ"
  /\ \A k \in DOMAIN toHost : toHost[k].cmd = "DOWNLOAD_PARAM_REQ" =>
       /\ pos = 0
       /\ \A j \in DOMAIN toHost : j < k => toHost[j].cmd # "DOWNLOAD_BLOCK_REQ"

OrderInv == "reset" \notin odd => InOrder

HostInv == BTypeOK /\ FileInv /\ AnswersInv /\ ClientInv /\ OrderInv

----------------------------------------------------------------------------
(* Numbers of blocks *)

\* A product by a block size grows with its factor.
LEMMA Multiples ==
  ASSUME NEW b \in Nat \ {0}, NEW i \in Nat, NEW j \in Nat
  PROVE  /\ i * b \in Nat /\ (i + 1) * b = i * b + b
         /\ i * b < j * b => i < j
         /\ i * b <= j * b => i <= j
         /\ i < j => (i + 1) * b <= j * b
         /\ i <= i * b
<1>1. i * b \in Nat /\ (i + 1) * b = i * b + b
  OBVIOUS
<1>2. i < j => (i + 1) * b <= j * b
  OBVIOUS
<1>3. i >= j => i * b >= j * b
  OBVIOUS
<1>4. i > j => i * b > j * b
  OBVIOUS
<1>5. i <= i * b
  OBVIOUS
<1>6. i * b < j * b => i < j
  BY <1>1, <1>3
<1>7. i * b <= j * b => i <= j
  BY <1>1, <1>4
<1> QED
  BY <1>1, <1>2, <1>5, <1>6, <1>7

\* The blocks the host announces cover the file.
LEMMA BlocksCover ==
  ASSUME NEW b \in Nat \ {0}, NEW l \in Nat
  PROVE  /\ (l + b - 1) \div b \in Nat
         /\ ((l + b - 1) \div b) * b >= l
OBVIOUS

\* The end of a piece of the file.
LEMMA SmallerType ==
  ASSUME NEW i \in Nat, NEW j \in Nat
  PROVE  Smaller(i, j) \in Nat /\ Smaller(i, j) <= i /\ Smaller(i, j) <= j
         /\ (Smaller(i, j) = i \/ Smaller(i, j) = j)
BY DEF Smaller

\* A sequence is determined by its length and its elements.
LEMMA SeqEqual ==
  ASSUME NEW S, NEW s \in Seq(S), NEW t \in Seq(S), Len(s) = Len(t),
         \A i \in 1..Len(s) : s[i] = t[i]
  PROVE  s = t
<1>1. \A u \in Seq(S) : u = [i \in 1..Len(u) |-> u[i]]
  OBVIOUS
<1>2. s = [i \in 1..Len(s) |-> s[i]] /\ t = [i \in 1..Len(s) |-> t[i]]
  BY <1>1
<1>3. [i \in 1..Len(s) |-> s[i]] = [i \in 1..Len(s) |-> t[i]]
  OBVIOUS
<1> QED
  BY <1>2, <1>3

\* The elements of a concatenation.
LEMMA ConcatElements ==
  ASSUME NEW S, NEW x \in Seq(S), NEW y \in Seq(S)
  PROVE  /\ x \o y \in Seq(S) /\ Len(x \o y) = Len(x) + Len(y)
         /\ \A i \in 1..(Len(x) + Len(y)) :
              (x \o y)[i] = IF i <= Len(x) THEN x[i] ELSE y[i - Len(x)]
OBVIOUS

\* Concatenation is associative.
LEMMA ConcatAssociates ==
  ASSUME NEW S, NEW x \in Seq(S), NEW y \in Seq(S), NEW z \in Seq(S)
  PROVE  (x \o y) \o z = x \o (y \o z)
<1>1. x \o y \in Seq(S) /\ y \o z \in Seq(S)
  OBVIOUS
<1>2. (x \o y) \o z \in Seq(S) /\ x \o (y \o z) \in Seq(S)
  BY <1>1
<1>3. Len((x \o y) \o z) = Len(x \o (y \o z))
  BY <1>1
<1>4. \A i \in 1..Len((x \o y) \o z) : ((x \o y) \o z)[i] = (x \o (y \o z))[i]
  BY <1>1
<1> QED
  BY <1>2, <1>3, <1>4, SeqEqual

\* A beginning of a sequence and the piece behind it are a longer beginning.
LEMMA PrefixGrows ==
  ASSUME NEW S, NEW s \in Seq(S), NEW i \in 0..Len(s), NEW j \in 0..Len(s), i <= j
  PROVE  SubSeq(s, 1, i) \o SubSeq(s, i + 1, j) = SubSeq(s, 1, j)
<1> DEFINE x == SubSeq(s, 1, i)  y == SubSeq(s, i + 1, j)  z == SubSeq(s, 1, j)
<1>1. x \in Seq(S) /\ Len(x) = i /\ \A k \in 1..i : x[k] = s[k]
  OBVIOUS
<1>2. y \in Seq(S) /\ Len(y) = j - i /\ \A k \in 1..(j - i) : y[k] = s[i + k]
  <2>1. y \in Seq(S)
    OBVIOUS
  <2>2. Len(y) = j - i
    OBVIOUS
  <2>3. \A k \in 1..(j - i) : y[k] = s[i + k]
    <3> SUFFICES ASSUME NEW k \in 1..(j - i) PROVE y[k] = s[i + k]
      OBVIOUS
    <3>1. y[k] = s[(i + 1) + k - 1]
      OBVIOUS
    <3>2. (i + 1) + k - 1 = i + k
      OBVIOUS
    <3> QED
      BY <3>1, <3>2
  <2> QED
    BY <2>1, <2>2, <2>3
<1>3. z \in Seq(S) /\ Len(z) = j /\ \A k \in 1..j : z[k] = s[k]
  OBVIOUS
<1> HIDE DEF x, y, z
<1>4. x \o y \in Seq(S) /\ Len(x \o y) = j
  BY <1>1, <1>2
<1>5. \A k \in 1..j : (x \o y)[k] = z[k]
  <2> SUFFICES ASSUME NEW k \in 1..j PROVE (x \o y)[k] = z[k]
    OBVIOUS
  <2>1. CASE k <= i
    BY <1>1, <1>2, <1>3, <2>1
  <2>2. CASE k > i
    <3>1. (x \o y)[k] = y[k - i]
      BY <1>1, <1>2, <2>2
    <3>2. k - i \in 1..(j - i) /\ i + (k - i) = k
      BY <2>2
    <3> QED
      BY <1>2, <1>3, <3>1, <3>2
  <2>3. k <= i \/ k > i
    <3>1. Len(s) \in Nat
      OBVIOUS
    <3>2. i \in Nat /\ j \in Nat
      BY <3>1
    <3> QED
      BY <3>2
  <2> QED
    BY <2>1, <2>2, <2>3
<1>6. x \o y = z
  BY <1>3, <1>4, <1>5, SeqEqual
<1> QED
  BY <1>6 DEF x, y, z

----------------------------------------------------------------------------
(* Frames, reads and answers *)

\* What is built is a frame.
LEMMA FramesBuilt ==
  /\ HostHello \in Frame /\ Hello \in Frame /\ End \in Frame /\ BootApp \in Frame
  /\ Error \in Frame /\ Retransmit \in Frame /\ Rest \in Frame
  /\ \A n \in Nat : DlReq(n) \in Frame /\ ParamReq(n) \in Frame /\ BlockReq(n) \in Frame
  /\ \A n, m \in Nat : ParamRes(n, m) \in Frame
  /\ \A n \in Nat, d \in Seq(Byte) : BlockRes(n, d) \in Frame
<1>1. <<>> \in Seq(Byte) /\ \A d \in Seq(Byte) : Len(d) \in Nat
  OBVIOUS
<1>2. \A c \in Cmd \cup {"REST"}, n \in Nat, m \in Nat, d \in Seq(Byte) : Build(c, n, m, d) \in Frame
  BY DEF Build, Frame
<1>3. \A c \in Cmd \cup {"REST"} : Signal(c) \in Frame
  BY <1>1, <1>2 DEF Signal
<1>4. /\ HostHello \in Frame /\ Hello \in Frame /\ End \in Frame /\ BootApp \in Frame
      /\ Error \in Frame /\ Retransmit \in Frame /\ Rest \in Frame
  BY <1>3 DEF HostHello, Hello, End, BootApp, Error, Retransmit, Rest, Cmd
<1>5. \A n \in Nat : DlReq(n) \in Frame /\ ParamReq(n) \in Frame /\ BlockReq(n) \in Frame
  BY <1>1, <1>2 DEF DlReq, ParamReq, BlockReq, Cmd
<1>6. \A n, m \in Nat : ParamRes(n, m) \in Frame
  BY <1>1, <1>2 DEF ParamRes, Cmd
<1>7. \A n \in Nat, d \in Seq(Byte) : BlockRes(n, d) \in Frame
  BY <1>1, <1>2 DEF BlockRes, Cmd
<1> QED
  BY <1>4, <1>5, <1>6, <1>7

\* A read takes frames from the front of the line; in their place there may be the rest
\* of one of them.
LEMMA ReadsNext ==
  ASSUME BTypeOK, NEW cmds, Reads(cmds)
  PROVE  /\ rx \in Frame /\ rx.cmd \in cmds /\ 1 \in DOMAIN toHost /\ rx = toHost[1]
         /\ toHost' \in Seq(Frame)
         /\ \E n \in 1..Len(toHost) : \A k \in DOMAIN toHost' :
              /\ k + n \in DOMAIN toHost
              /\ toHost'[k] = Rest \/ toHost'[k] = toHost[k + n]
         /\ odd \subseteq odd' /\ odd' \subseteq FaultKinds \cup {"no end"}
         /\ state \in {"INIT", "READY"} /\ UNCHANGED <<boot, file, client, img, lost>>
<1>1. toHost \in Seq(Frame) /\ toHost # <<>> /\ rx.cmd \in cmds /\ Runs
      /\ UNCHANGED <<boot, file, client, img, lost>>
  BY DEF Reads, BTypeOK, clientVars
<1>2. rx \in Frame /\ 1 \in DOMAIN toHost /\ rx = toHost[1]
  BY <1>1 DEF rx
<1>3. PICK n \in DOMAIN toHost :
        \/ /\ toHost' = SubSeq(toHost, n + 1, Len(toHost))
           /\ Without(SubSeq(toHost, 2, n))
        \/ /\ n < Len(toHost)
           /\ toHost' = <<Rest>> \o SubSeq(toHost, n + 2, Len(toHost))
           /\ odd' = odd \cup {"split"}
  BY DEF Reads
<1>4. odd \subseteq odd' /\ odd' \subseteq FaultKinds \cup {"no end"}
  <2>1. odd' \in {odd, odd \cup {"no end"}, odd \cup {"split"}}
    BY <1>3 DEF Without
  <2> QED
    BY <2>1 DEF BTypeOK, FaultKinds
<1>5. n \in 1..Len(toHost) /\ Len(toHost) \in Nat
  BY <1>1
<1>6. CASE toHost' = SubSeq(toHost, n + 1, Len(toHost))
  <2>1. toHost' \in Seq(Frame) /\ Len(toHost') = Len(toHost) - n
    BY <1>1, <1>5, <1>6
  <2>2. \A k \in DOMAIN toHost' : k + n \in DOMAIN toHost /\ toHost'[k] = toHost[k + n]
    <3> SUFFICES ASSUME NEW k \in DOMAIN toHost'
                 PROVE  k + n \in DOMAIN toHost /\ toHost'[k] = toHost[k + n]
      OBVIOUS
    <3>1. k \in 1..(Len(toHost) - n)
      BY <2>1
    <3>2. toHost'[k] = toHost[(n + 1) + k - 1]
      BY <1>1, <1>5, <1>6, <3>1, SMTT(30)
    <3>3. (n + 1) + k - 1 = k + n /\ k + n \in 1..Len(toHost)
      BY <1>5, <3>1
    <3> QED
      BY <1>1, <3>2, <3>3
  <2> QED
    BY <1>1, <1>2, <1>4, <1>5, <2>1, <2>2 DEF Runs
<1>7. CASE /\ n < Len(toHost)
           /\ toHost' = <<Rest>> \o SubSeq(toHost, n + 2, Len(toHost))
  <2> DEFINE t == SubSeq(toHost, n + 2, Len(toHost))  r == <<Rest>>
  <2>0. n \in Nat /\ n >= 1 /\ n < Len(toHost) /\ Len(toHost) \in Nat
    BY <1>5, <1>7
  <2>1. t \in Seq(Frame) /\ Len(t) = Len(toHost) - n - 1
    <3>1. t \in Seq(Frame)
      BY <1>1, <2>0
    <3>2. Len(t) = Len(toHost) - (n + 2) + 1
      BY <1>1, <2>0
    <3> QED
      BY <2>0, <3>1, <3>2
  <2>2. \A k \in 1..(Len(toHost) - n - 1) : t[k] = toHost[(n + 2) + k - 1]
    <3> SUFFICES ASSUME NEW k \in 1..(Len(toHost) - n - 1) PROVE t[k] = toHost[(n + 2) + k - 1]
      OBVIOUS
    <3>1. k \in 1..(Len(toHost) - (n + 2) + 1)
      BY <2>0
    <3> QED
      BY <1>1, <2>0, <3>1, SMTT(30)
  <2>3. r \in Seq(Frame) /\ Len(r) = 1 /\ r[1] = Rest
    BY FramesBuilt
  <2>4. toHost' = r \o t
    BY <1>7
  <2> HIDE DEF t, r
  <2>5. toHost' \in Seq(Frame) /\ Len(toHost') = Len(toHost) - n
    <3>1. r \o t \in Seq(Frame) /\ Len(r \o t) = 1 + Len(t)
      BY <2>1, <2>3, ConcatElements, ZenonT(40)
    <3>2. 1 + (Len(toHost) - n - 1) = Len(toHost) - n
      BY <2>0
    <3> QED
      BY <2>1, <2>4, <3>1, <3>2
  <2>7. \A k \in 1..(Len(toHost) - n) : (r \o t)[k] = IF k = 1 THEN Rest ELSE t[k - 1]
    <3> SUFFICES ASSUME NEW k \in 1..(Len(toHost) - n)
                 PROVE  (r \o t)[k] = IF k = 1 THEN Rest ELSE t[k - 1]
      OBVIOUS
    <3>1. k \in 1..(Len(r) + Len(t))
      BY <2>0, <2>1, <2>3
    <3>2. (r \o t)[k] = IF k <= Len(r) THEN r[k] ELSE t[k - Len(r)]
      BY <2>1, <2>3, <3>1, ConcatElements
    <3> QED
      BY <2>0, <2>3, <3>2
  <2>6. \A k \in DOMAIN toHost' :
          k + n \in DOMAIN toHost /\ (toHost'[k] = Rest \/ toHost'[k] = toHost[k + n])
    <3> SUFFICES ASSUME NEW k \in DOMAIN toHost'
                 PROVE  k + n \in DOMAIN toHost /\ (toHost'[k] = Rest \/ toHost'[k] = toHost[k + n])
      OBVIOUS
    <3>1. k \in 1..(Len(toHost) - n)
      BY <2>5
    <3>2. k + n \in 1..Len(toHost)
      BY <1>5, <3>1
    <3>3. CASE k = 1
      BY <1>1, <2>4, <2>7, <3>1, <3>2, <3>3
    <3>4. CASE k # 1
      <4>1. toHost'[k] = t[k - 1]
        BY <2>4, <2>7, <3>1, <3>4
      <4>2. k - 1 \in 1..(Len(toHost) - n - 1) /\ (n + 2) + (k - 1) - 1 = k + n
        BY <1>5, <3>1, <3>4
      <4> QED
        BY <1>1, <2>2, <3>2, <4>1, <4>2
    <3> QED
      BY <3>3, <3>4
  <2> QED
    BY <1>1, <1>2, <1>4, <1>5, <2>5, <2>6 DEF Runs
<1> QED
  BY <1>3, <1>6, <1>7

\* Behind the frames that are on their way to the client there are new ones.
Follow(frames) ==
  /\ toClient' \in Seq(Frame) /\ Len(toClient) <= Len(toClient')
  /\ \A k \in 1..Len(toClient) : toClient'[k] = toClient[k]
  /\ \A k \in (Len(toClient) + 1)..Len(toClient') : toClient'[k] \in frames

\* Frames put behind others follow them.
LEMMA Appended ==
  ASSUME BTypeOK, NEW fs \in Seq(Frame), NEW frames, toClient' = toClient \o fs,
         \A k \in 1..Len(fs) : fs[k] \in frames
  PROVE  Follow(frames)
<1>0. toClient \in Seq(Frame)
  BY DEF BTypeOK
<1>1. toClient \in Seq(Frame) /\ Len(toClient) \in Nat /\ Len(fs) \in Nat
  BY <1>0
<1>2. toClient' \in Seq(Frame) /\ Len(toClient') = Len(toClient) + Len(fs)
  BY <1>1
<1>3. \A k \in 1..Len(toClient) : toClient'[k] = toClient[k]
  BY <1>1
<1>4. \A k \in (Len(toClient) + 1)..Len(toClient') : toClient'[k] \in frames
  <2> SUFFICES ASSUME NEW k \in (Len(toClient) + 1)..(Len(toClient) + Len(fs))
               PROVE  toClient'[k] \in frames
    BY <1>2
  <2>1. toClient'[k] = fs[k - Len(toClient)]
    BY <1>1
  <2>2. k - Len(toClient) \in 1..Len(fs)
    BY <1>1
  <2> QED
    BY <2>1, <2>2
<1> QED
  BY <1>1, <1>2, <1>3, <1>4 DEF Follow

\* An answer, and the greeting before it, follow what was sent.
LEMMA AnswersNext ==
  ASSUME BTypeOK, NEW frame \in Frame \cup {NoFrame}, Answers(frame)
  PROVE  digest' = frame /\ Follow({HostHello, frame})
<1> DEFINE a == IF frame = NoFrame THEN <<>> ELSE <<frame>>
<1>1. digest' = frame /\ toClient' = (toClient \o Greeting) \o a
  BY DEF Answers
<1>2. Greeting \in Seq(Frame) /\ \A k \in 1..Len(Greeting) : Greeting[k] = HostHello
  <2>1. HostHello \in Frame
    BY FramesBuilt
  <2>2. CASE state = "INIT"
    <3>1. Greeting = <<HostHello>>
      BY <2>2 DEF Greeting
    <3> QED
      BY <2>1, <3>1
  <2>3. CASE state # "INIT"
    <3>1. Greeting = <<>>
      BY <2>3 DEF Greeting
    <3> QED
      BY <3>1
  <2> QED
    BY <2>2, <2>3
<1>3. a \in Seq(Frame) /\ \A k \in 1..Len(a) : a[k] = frame
  <2>1. CASE frame = NoFrame
    <3>1. a = <<>>
      BY <2>1
    <3> HIDE DEF a
    <3> QED
      BY <3>1
  <2>2. CASE frame # NoFrame
    <3>1. a = <<frame>> /\ frame \in Frame
      BY <2>2
    <3> HIDE DEF a
    <3> QED
      BY <3>1
  <2> QED
    BY <2>1, <2>2
<1> HIDE DEF a
<1> DEFINE fs == Greeting \o a
<1>4. fs \in Seq(Frame) /\ Len(fs) = Len(Greeting) + Len(a)
  BY <1>2, <1>3
<1>5. \A k \in 1..Len(fs) : fs[k] \in {HostHello, frame}
  <2> SUFFICES ASSUME NEW k \in 1..(Len(Greeting) + Len(a)) PROVE fs[k] \in {HostHello, frame}
    BY <1>4
  <2>1. Len(Greeting) \in Nat /\ Len(a) \in Nat
    BY <1>2, <1>3
  <2>2. CASE k <= Len(Greeting)
    <3>1. fs[k] = Greeting[k]
      BY <1>2, <1>3, <2>1, <2>2
    <3> QED
      BY <1>2, <2>1, <2>2, <3>1
  <2>3. CASE k > Len(Greeting)
    <3>1. fs[k] = a[k - Len(Greeting)]
      BY <1>2, <1>3, <2>1, <2>3
    <3>2. k - Len(Greeting) \in 1..Len(a)
      BY <2>1, <2>3
    <3> QED
      BY <1>3, <3>1, <3>2
  <2> QED
    BY <2>1, <2>2, <2>3
<1>6. toClient' = toClient \o fs
  <2>1. toClient \in Seq(Frame)
    BY DEF BTypeOK
  <2> HIDE DEF fs
  <2>2. toClient \o (Greeting \o a) = (toClient \o Greeting) \o a
    BY <1>2, <1>3, <2>1, ConcatAssociates, SMTT(30)
  <2> QED
    BY <1>1, <2>2 DEF fs
<1> HIDE DEF fs
<1> QED
  BY <1>1, <1>4, <1>5, <1>6, Appended

----------------------------------------------------------------------------
(* A round of the host *)

\* What the host leaves on the line to it.
Drains ==
  \E n \in 0..Len(toHost) : \A k \in DOMAIN toHost' :
    k + n \in DOMAIN toHost /\ (toHost'[k] = Rest \/ toHost'[k] = toHost[k + n])

\* What a round does that concerns the client: the file moves on, what is sent is the
\* greeting and what was built, and a block built when the file is ahead of the counter
\* is of a place behind its number.
Round ==
  /\ UNCHANGED <<boot, file, client, img>>
  /\ pos <= pos' /\ (Ahead => Ahead')
  /\ Drains
  /\ Follow({HostHello, digest'})
  /\ FrameInv(digest)'
  /\ digest' = digest \/ (IsBlock(digest') /\ Ahead => Beyond(digest.nbr)')

\* A sequence's domain.
LEMMA Domains ==
  BTypeOK => /\ DOMAIN toHost = 1..Len(toHost) /\ DOMAIN toClient = 1..Len(toClient)
             /\ Len(toHost) \in Nat /\ Len(toClient) \in Nat
             /\ client.bs \in Nat \ {0} /\ client.want \in Nat /\ Len(file) \in Nat /\ pos \in Nat
             /\ pos <= Len(file) /\ dl.actual_block_nbr \in Nat /\ dl.block_size \in Nat
             /\ \A k \in DOMAIN toClient : toClient[k] \in Frame /\ toClient[k].nbr \in Nat
<1> SUFFICES ASSUME BTypeOK
             PROVE  /\ DOMAIN toHost = 1..Len(toHost) /\ DOMAIN toClient = 1..Len(toClient)
                    /\ Len(toHost) \in Nat /\ Len(toClient) \in Nat
                    /\ client.bs \in Nat \ {0} /\ client.want \in Nat
                    /\ Len(file) \in Nat /\ pos \in Nat
                    /\ pos <= Len(file) /\ dl.actual_block_nbr \in Nat /\ dl.block_size \in Nat
                    /\ \A k \in DOMAIN toClient : toClient[k] \in Frame /\ toClient[k].nbr \in Nat
  OBVIOUS
<1>1. toHost \in Seq(Frame) /\ toClient \in Seq(Frame) /\ file \in Seq(Byte) /\ pos \in 0..Len(file)
  BY DEF BTypeOK
<1>2. Len(file) \in Nat /\ pos \in Nat /\ pos <= Len(file)
  BY <1>1
<1>3. client.bs \in BlockSizes /\ client.want \in Nat
  BY DEF BTypeOK
<1>6. client.bs \in Nat \ {0}
  BY <1>3, BlockSizesAssumption
<1>4. dl.actual_block_nbr \in Nat /\ dl.block_size \in Nat
  BY DEF BTypeOK
<1>5. \A m \in Frame : m.nbr \in Nat
  BY DEF Frame
<1> QED
  BY <1>1, <1>2, <1>3, <1>4, <1>5, <1>6

\* The number of the block the host would repeat.
LEMMA DigestNumber ==
  ASSUME BTypeOK, IsBlock(digest)
  PROVE  digest.nbr \in Nat /\ digest.data \in Seq(Byte)
<1>1. digest \in Frame \cup {NoFrame}
  BY DEF BTypeOK
<1>2. NoFrame.cmd # "DOWNLOAD_BLOCK_RES"
  BY DEF NoFrame
<1> QED
  BY <1>1, <1>2 DEF IsBlock, Frame

\* A round keeps what is known of the frames to the client.
LEMMA RoundKeepsAnswers ==
  ASSUME BTypeOK, BTypeOK', AnswersInv, Round
  PROVE  AnswersInv'
<1>1. /\ boot' = boot /\ file' = file /\ client' = client /\ pos <= pos' /\ (Ahead => Ahead')
      /\ FrameInv(digest)'
      /\ digest' = digest \/ (IsBlock(digest') /\ Ahead => Beyond(digest.nbr)')
  BY DEF Round
<1>2. /\ DOMAIN toClient = 1..Len(toClient) /\ Len(toClient) \in Nat /\ client.bs \in Nat \ {0}
      /\ pos \in Nat /\ \A k \in DOMAIN toClient : toClient[k] \in Frame /\ toClient[k].nbr \in Nat
  BY Domains
<1>3. /\ DOMAIN toClient' = 1..Len(toClient') /\ Len(toClient') \in Nat
      /\ Len(toClient) <= Len(toClient')
      /\ \A k \in 1..Len(toClient) : toClient'[k] = toClient[k]
      /\ \A k \in (Len(toClient) + 1)..Len(toClient') : toClient'[k] \in {HostHello, digest'}
  BY DEF Round, Follow
<1>4. pos' \in Nat
  <2>1. file' \in Seq(Byte) /\ pos' \in 0..Len(file')
    BY DEF BTypeOK
  <2> QED
    BY <2>1
<1>5. \A n : Slice(n)' = Slice(n)
  BY <1>1 DEF Slice
<1>6. \A n \in Nat : Beyond(n) => (n + 1) * client.bs < pos'
  BY <1>1, <1>2, <1>4, Multiples DEF Beyond
<1>7. ~IsBlock(HostHello) /\ FrameInv(HostHello)'
  BY DEF HostHello, Signal, Build, IsBlock, FrameInv
<1>8. ASSUME NEW k \in DOMAIN toClient
      PROVE  /\ FrameInv(toClient[k])' /\ toClient'[k] = toClient[k]
             /\ Wrong(toClient[k])' <=> Wrong(toClient[k])
  <2>1. FrameInv(toClient[k]) /\ toClient'[k] = toClient[k] /\ toClient[k].nbr \in Nat
    BY <1>2, <1>3 DEF AnswersInv
  <2>2. Wrong(toClient[k])' <=> Wrong(toClient[k])
    BY <1>5, <2>1 DEF Wrong, IsBlock
  <2>3. toClient[k].nbr * client.bs < pos => toClient[k].nbr * client.bs < pos'
    BY <1>1, <1>2, <1>4, <2>1, Multiples
  <2> QED
    BY <1>1, <1>6, <2>1, <2>2, <2>3 DEF FrameInv, IsBlock, Beyond
<1>9. ASSUME NEW k \in DOMAIN toClient' \ DOMAIN toClient
      PROVE  toClient'[k] \in {HostHello, digest'}
  BY <1>2, <1>3
<1>10. ASSUME NEW k \in DOMAIN toClient' PROVE FrameInv(toClient[k])'
  <2>1. CASE k \in DOMAIN toClient
    BY <1>8, <2>1
  <2>2. CASE k \notin DOMAIN toClient /\ toClient'[k] = HostHello
    BY <1>7, <2>2 DEF FrameInv
  <2>3. CASE k \notin DOMAIN toClient /\ toClient'[k] = digest'
    BY <1>1, <2>3 DEF FrameInv
  <2> QED
    BY <1>9, <2>1, <2>2, <2>3
<1>11. ASSUME NEW k \in DOMAIN toClient', Wrong(toClient[k])', IsBlock(digest')
       PROVE  Beyond(digest.nbr)'
  <2>1. CASE k \in DOMAIN toClient
    <3>1. Wrong(toClient[k]) /\ IsBlock(toClient[k])
      BY <1>8, <1>11, <2>1 DEF Wrong
    <3>2. Ahead /\ (IsBlock(digest) => Beyond(digest.nbr))
      BY <2>1, <3>1 DEF AnswersInv, FrameInv
    <3>3. CASE digest' = digest
      <4>1. digest.nbr \in Nat
        BY <1>11, <3>3, DigestNumber
      <4>2. Beyond(digest.nbr) /\ digest'.nbr = digest.nbr
        BY <1>11, <3>2, <3>3
      <4> QED
        BY <1>1, <1>6, <4>1, <4>2 DEF Beyond
    <3> QED
      BY <1>1, <1>11, <3>2, <3>3
  <2>2. CASE k \notin DOMAIN toClient
    <3>1. toClient'[k] = digest'
      BY <1>7, <1>9, <1>11, <2>2 DEF Wrong
    <3> QED
      BY <1>1, <1>11, <3>1 DEF FrameInv, Wrong, IsBlock, Beyond, Slice
  <2> QED
    BY <2>1, <2>2
<1>12. ASSUME NEW k \in DOMAIN toClient', Wrong(toClient[k])',
              NEW j \in DOMAIN toClient', k < j, IsBlock(toClient'[j])
       PROVE  Beyond(toClient[j].nbr)'
  <2>1. CASE j \in DOMAIN toClient
    <3>1. k \in DOMAIN toClient
      BY <1>2, <1>3, <1>12, <2>1
    <3>2. Wrong(toClient[k]) /\ toClient'[j] = toClient[j]
      BY <1>8, <1>12, <2>1, <3>1
    <3>3. Beyond(toClient[j].nbr) /\ toClient[j].nbr \in Nat
      BY <1>2, <1>12, <2>1, <3>1, <3>2 DEF AnswersInv
    <3> QED
      BY <1>1, <1>6, <3>2, <3>3 DEF Beyond
  <2>2. CASE j \notin DOMAIN toClient
    <3>1. toClient'[j] = digest' /\ IsBlock(digest')
      BY <1>7, <1>9, <1>12, <2>2
    <3> QED
      BY <1>11, <1>12, <3>1 DEF Beyond
  <2> QED
    BY <2>1, <2>2
<1> QED
  BY <1>1, <1>10, <1>11, <1>12 DEF AnswersInv, IsBlock, Wrong

\* A round keeps what is known of the client.
LEMMA RoundKeepsClient ==
  ASSUME BTypeOK, BTypeOK', AnswersInv, ClientInv, Round
  PROVE  ClientInv'
<1>1. /\ boot' = boot /\ file' = file /\ client' = client /\ img' = img
      /\ pos <= pos' /\ (Ahead => Ahead')
      /\ digest' = digest \/ (IsBlock(digest') /\ Ahead => Beyond(digest.nbr)')
  BY DEF Round
<1>2. /\ DOMAIN toClient = 1..Len(toClient) /\ Len(toClient) \in Nat /\ client.bs \in Nat \ {0}
      /\ pos \in Nat /\ \A k \in DOMAIN toClient : toClient[k] \in Frame /\ toClient[k].nbr \in Nat
  BY Domains
<1>3. /\ DOMAIN toClient' = 1..Len(toClient') /\ Len(toClient') \in Nat
      /\ \A k \in 1..Len(toClient) : toClient'[k] = toClient[k]
      /\ \A k \in (Len(toClient) + 1)..Len(toClient') : toClient'[k] \in {HostHello, digest'}
  BY DEF Round, Follow
<1>4. pos' \in Nat
  <2>1. file' \in Seq(Byte) /\ pos' \in 0..Len(file')
    BY DEF BTypeOK
  <2> QED
    BY <2>1
<1>5. \A n \in Nat : Beyond(n) => (n + 1) * client.bs < pos'
  BY <1>1, <1>2, <1>4, Multiples DEF Beyond
<1>6. ~IsBlock(HostHello)
  BY DEF HostHello, Signal, Build, IsBlock
<1>7. ASSUME Doomed PROVE Doomed'
  <2>1. ASSUME IsBlock(digest'), digest'.nbr >= client.want PROVE Beyond(digest.nbr)'
    <3>1. CASE digest' = digest
      <4>1. digest.nbr \in Nat
        BY <2>1, <3>1, DigestNumber
      <4>2. Beyond(digest.nbr) /\ digest'.nbr = digest.nbr
        BY <1>7, <2>1, <3>1 DEF Doomed
      <4> QED
        BY <1>1, <1>5, <4>1, <4>2 DEF Beyond
    <3> QED
      BY <1>1, <1>7, <2>1, <3>1 DEF Doomed
  <2>2. ASSUME NEW k \in DOMAIN toClient', IsBlock(toClient'[k]), toClient'[k].nbr >= client.want
        PROVE  Beyond(toClient[k].nbr)'
    <3>1. CASE k \in DOMAIN toClient
      <4>1. toClient'[k] = toClient[k] /\ toClient[k].nbr \in Nat
        BY <1>2, <1>3, <3>1
      <4>2. Beyond(toClient[k].nbr)
        BY <1>7, <2>2, <3>1, <4>1 DEF Doomed
      <4> QED
        BY <1>1, <1>5, <4>1, <4>2 DEF Beyond
    <3>2. CASE k \notin DOMAIN toClient
      <4>1. toClient'[k] = digest'
        BY <1>2, <1>3, <1>6, <2>2, <3>2
      <4> QED
        BY <2>1, <2>2, <4>1 DEF Beyond
    <3> QED
      BY <3>1, <3>2
  <2> QED
    BY <1>1, <1>7, <2>1, <2>2 DEF Doomed, IsBlock
<1>8. ASSUME NEW k \in DOMAIN toHost', toHost'[k].cmd = "END"
      PROVE  client.st = "done" /\ (boot \/ img = file)
  <2>1. PICK n \in 0..Len(toHost) :
          k + n \in DOMAIN toHost /\ (toHost'[k] = Rest \/ toHost'[k] = toHost[k + n])
    BY DEF Round, Drains
  <2>2. Rest.cmd # "END"
    BY DEF Rest, Signal, Build
  <2> QED
    BY <1>8, <2>1, <2>2 DEF ClientInv
<1>9. Begins' <=> Begins
  BY <1>1 DEF Begins
<1> QED
  BY <1>1, <1>7, <1>8, <1>9 DEF ClientInv, Waits

\* No frame of another kind appears on the line to the host, and the order stays.
LEMMA DrainsFrames ==
  ASSUME Drains
  PROVE  /\ \A k \in DOMAIN toHost' :
              toHost'[k].cmd # "REST" => \E j \in DOMAIN toHost : toHost'[k] = toHost[j]
         /\ \A k, j \in DOMAIN toHost' :
              /\ j < k /\ k \in Int /\ j \in Int
              /\ toHost'[k].cmd # "REST" /\ toHost'[j].cmd # "REST"
              => \E l, i \in DOMAIN toHost : i < l /\ toHost'[k] = toHost[l] /\ toHost'[j] = toHost[i]
<1>1. PICK n \in 0..Len(toHost) : \A k \in DOMAIN toHost' :
        k + n \in DOMAIN toHost /\ (toHost'[k] = Rest \/ toHost'[k] = toHost[k + n])
  BY DEF Drains
<1>2. Rest.cmd = "REST"
  BY DEF Rest, Signal, Build
<1>3. \A k \in DOMAIN toHost' :
        toHost'[k].cmd # "REST" => k + n \in DOMAIN toHost /\ toHost'[k] = toHost[k + n]
  BY <1>1, <1>2
<1>4. ASSUME NEW k \in DOMAIN toHost', NEW j \in DOMAIN toHost', j < k, k \in Int, j \in Int,
             toHost'[k].cmd # "REST", toHost'[j].cmd # "REST"
      PROVE  \E l, i \in DOMAIN toHost : i < l /\ toHost'[k] = toHost[l] /\ toHost'[j] = toHost[i]
  <2>1. j + n < k + n
    <3>1. n \in Int
      OBVIOUS
    <3> QED
      BY <1>4, <3>1
  <2> QED
    BY <1>3, <1>4, <2>1
<1> QED
  BY <1>3, <1>4

\* When the file does not move a round keeps the order of the requests.
LEMMA RoundKeepsOrder ==
  ASSUME BTypeOK, BTypeOK', OrderInv, Drains, UNCHANGED <<client, pos>>, odd \subseteq odd',
         InOrder => ~Ahead'
  PROVE  OrderInv'
<1> SUFFICES ASSUME "reset" \notin odd' PROVE InOrder'
  BY DEF OrderInv
<1>1. InOrder
  BY DEF OrderInv
<1>2. ~Ahead'
  BY <1>1
<1>3. \A k \in DOMAIN toHost' : k \in Int
  <2>1. toHost' \in Seq(Frame)
    BY DEF BTypeOK
  <2> QED
    BY <2>1
<1>4. ASSUME client.st \in {"idle", "hello", "param"}, NEW k \in DOMAIN toHost'
      PROVE  toHost'[k].cmd # "DOWNLOAD_BLOCK_REQ"
  BY <1>1, <1>4, DrainsFrames DEF InOrder
<1>5. ASSUME NEW k \in DOMAIN toHost', toHost'[k].cmd = "DOWNLOAD_PARAM_REQ"
      PROVE  /\ pos = 0
             /\ \A j \in DOMAIN toHost' : j < k => toHost'[j].cmd # "DOWNLOAD_BLOCK_REQ"
  <2>1. pos = 0
    BY <1>1, <1>5, DrainsFrames DEF InOrder
  <2>2. ASSUME NEW j \in DOMAIN toHost', j < k, toHost'[j].cmd = "DOWNLOAD_BLOCK_REQ" PROVE FALSE
    <3>1. PICK l \in DOMAIN toHost, i \in DOMAIN toHost :
            i < l /\ toHost'[k] = toHost[l] /\ toHost'[j] = toHost[i]
      BY <1>3, <1>5, <2>2, DrainsFrames
    <3> QED
      BY <1>1, <1>5, <2>2, <3>1 DEF InOrder
  <2> QED
    BY <2>1, <2>2
<1> QED
  BY <1>1, <1>2, <1>4, <1>5 DEF InOrder

\* The client asks for one block size.
LEMMA SizesStay ==
  ASSUME FileInv, Drains
  PROVE  \A k \in DOMAIN toHost' :
           toHost'[k].cmd = "DOWNLOAD_PARAM_REQ" => toHost'[k].size = client.bs
<1> SUFFICES ASSUME NEW k \in DOMAIN toHost', toHost'[k].cmd = "DOWNLOAD_PARAM_REQ"
             PROVE  toHost'[k].size = client.bs
  OBVIOUS
<1>1. PICK j \in DOMAIN toHost : toHost'[k] = toHost[j]
  BY DrainsFrames
<1>2. toHost[j].cmd = "DOWNLOAD_PARAM_REQ"
  BY <1>1
<1> QED
  BY <1>1, <1>2 DEF FileInv

\* A file that is not read has not moved back.
LEMMA FileStays ==
  ASSUME BTypeOK, pos' = pos
  PROVE  pos <= pos'
<1>1. pos \in Nat
  BY Domains
<1> QED
  BY <1>1

\* A round in which no block is read and no block counter is set.
LEMMA QuietRound ==
  ASSUME HostInv, UNCHANGED <<boot, file, client, img, dl, pos>>,
         toHost' \in Seq(Frame), Drains, Follow({HostHello, digest'}),
         digest' \in Frame \cup {NoFrame},
         \/ digest' = digest
         \/ /\ digest'.cmd \notin {"DOWNLOAD_BLOCK_RES", "DOWNLOAD_PARAM_RES"}
            /\ digest'.cmd = "BOOT_APP" => boot,
         state' \in {"INIT", "READY", "FINISH", "crashed", "hung"}, lost' \in 0..MaxLost,
         odd \subseteq odd', odd' \subseteq FaultKinds \cup {"no end"}
  PROVE  HostInv'
<1>1. BTypeOK'
  <2>1. toClient' \in Seq(Frame)
    BY DEF Follow
  <2> QED
    BY <2>1 DEF HostInv, BTypeOK
<1>2. Ahead' <=> Ahead
  BY DEF Ahead
<1>3. FrameInv(digest)'
  <2>1. CASE digest' = digest
    BY <1>2, <2>1 DEF HostInv, AnswersInv, FrameInv, IsBlock, Wrong, Slice, Beyond
  <2>2. CASE /\ digest'.cmd \notin {"DOWNLOAD_BLOCK_RES", "DOWNLOAD_PARAM_RES"}
             /\ digest'.cmd = "BOOT_APP" => boot
    BY <2>2 DEF FrameInv, IsBlock
  <2> QED
    BY <2>1, <2>2
<1>4. Round
  <2>1. pos <= pos'
    BY FileStays DEF HostInv
  <2>2. digest' = digest \/ ~IsBlock(digest')
    BY DEF IsBlock
  <2> QED
    BY <1>2, <1>3, <2>1, <2>2 DEF Round
<1>5. AnswersInv' /\ ClientInv'
  BY <1>1, <1>4, RoundKeepsAnswers, RoundKeepsClient DEF HostInv
<1>6. OrderInv'
  <2>1. InOrder => ~Ahead'
    BY <1>2 DEF InOrder
  <2> QED
    BY <1>1, <2>1, RoundKeepsOrder DEF HostInv
<1>7. FileInv'
  BY SizesStay DEF HostInv, FileInv
<1> QED
  BY <1>1, <1>5, <1>6, <1>7 DEF HostInv

\* Nothing new is sent.
LEMMA FollowNothing ==
  ASSUME BTypeOK, toClient' = toClient, NEW frames
  PROVE  Follow(frames)
<1>1. toClient \in Seq(Frame) /\ Len(toClient) \in Nat
  <2>1. toClient \in Seq(Frame)
    BY DEF BTypeOK
  <2> QED
    BY <2>1
<1> QED
  BY <1>1 DEF Follow

\* A read drains the line to the host.
LEMMA ReadsDrain ==
  ASSUME BTypeOK, NEW cmds, Reads(cmds)
  PROVE  /\ Drains /\ toHost' \in Seq(Frame)
         /\ odd \subseteq odd' /\ odd' \subseteq FaultKinds \cup {"no end"}
         /\ UNCHANGED <<boot, file, client, img, lost>>
<1>1. toHost \in Seq(Frame)
  BY DEF BTypeOK
<1>2. 1..Len(toHost) \subseteq 0..Len(toHost)
  BY <1>1
<1> QED
  BY <1>2, ReadsNext DEF Drains

\* A line that nothing was taken from, that was emptied, or that lost its oldest frame.
LEMMA DrainsSimply ==
  ASSUME BTypeOK,
         toHost' = toHost \/ toHost' = <<>> \/ (toHost # <<>> /\ toHost' = Tail(toHost))
  PROVE  Drains /\ toHost' \in Seq(Frame)
<1>1. toHost \in Seq(Frame)
  BY DEF BTypeOK
<1>2. DOMAIN toHost = 1..Len(toHost) /\ Len(toHost) \in Nat
  BY <1>1
<1>3. CASE toHost' = toHost
  <2>1. \A k \in DOMAIN toHost' : k + 0 = k
    BY <1>2, <1>3
  <2>2. 0 \in 0..Len(toHost)
    BY <1>2
  <2> QED
    BY <1>1, <1>3, <2>1, <2>2 DEF Drains
<1>4. CASE toHost' = <<>>
  <2>1. toHost' \in Seq(Frame) /\ DOMAIN toHost' = {}
    BY <1>4
  <2>2. 0 \in 0..Len(toHost)
    BY <1>2
  <2> QED
    BY <2>1, <2>2 DEF Drains
<1>5. CASE toHost # <<>> /\ toHost' = Tail(toHost)
  <2> DEFINE t == Tail(toHost)
  <2>1. t \in Seq(Frame) /\ Len(t) = Len(toHost) - 1 /\ Len(toHost) >= 1
    BY <1>1, <1>5
  <2>2. \A k \in 1..(Len(toHost) - 1) : t[k] = toHost[k + 1]
    BY <1>1, <1>5
  <2> HIDE DEF t
  <2>3. DOMAIN t = 1..(Len(toHost) - 1)
    BY <2>1
  <2>4. \A k \in DOMAIN t : k + 1 \in DOMAIN toHost /\ t[k] = toHost[k + 1]
    BY <1>2, <2>2, <2>3
  <2>5. 1 \in 0..Len(toHost)
    BY <1>2, <2>1
  <2>6. toHost' = t
    BY <1>5 DEF t
  <2> QED
    BY <2>1, <2>4, <2>5, <2>6 DEF Drains
<1> QED
  BY <1>3, <1>4, <1>5

\* The rounds of the host that neither set the counter nor read a block.
LEMMA QuietRounds ==
  ASSUME HostInv,
         \/ Greets \/ HostOnHello \/ HostRefusesBlock \/ HostOnRetransmit \/ HostOnEnd
         \/ HostOnOther \/ HostWaitsForRest \/ HostOnMore \/ LoseToHost
  PROVE  HostInv'
<1>1. /\ BTypeOK /\ state \in {"INIT", "READY", "FINISH", "crashed", "hung"} /\ lost \in 0..MaxLost
      /\ digest \in Frame \cup {NoFrame} /\ odd \subseteq FaultKinds \cup {"no end"}
      /\ toHost \in Seq(Frame) /\ Len(file) \in Nat
  BY Domains DEF HostInv, BTypeOK
<1>2. /\ HostHello \in Frame /\ HostHello.cmd = "HOST_HELLO" /\ NoFrame.cmd = "NULL"
      /\ BootApp \in Frame /\ BootApp.cmd = "BOOT_APP"
      /\ DlReq(Len(file)) \in Frame /\ DlReq(Len(file)).cmd = "DOWNLOAD_REQ"
  BY <1>1, FramesBuilt DEF HostHello, Signal, Build, NoFrame, BootApp, DlReq
<1>3. Digest \in Frame \cup {NoFrame} /\ (Digest = digest \/ Digest = HostHello)
  BY <1>1, <1>2 DEF Digest
<1>4. CASE Greets
  <2>1. Follow({HostHello, digest'})
    <3> DEFINE fs == <<HostHello>>
    <3>1. fs \in Seq(Frame) /\ Len(fs) = 1 /\ fs[1] = HostHello
      BY <1>2
    <3>2. toClient' = toClient \o fs
      <4>1. toClient \in Seq(Frame) /\ HostHello \in Frame
        BY <1>1, <1>2 DEF BTypeOK
      <4>2. toClient' = Append(toClient, HostHello)
        BY <1>4 DEF Greets
      <4>3. Append(toClient, HostHello) = toClient \o <<HostHello>>
        BY <4>1
      <4> QED
        BY <4>2, <4>3
    <3>3. digest' = HostHello
      BY <1>4 DEF Greets
    <3>4. \A k \in 1..Len(fs) : fs[k] \in {HostHello, digest'}
      BY <3>1, <3>3
    <3>5. fs \in Seq(Frame)
      BY <3>1
    <3> HIDE DEF fs
    <3> QED
      BY <1>1, <3>2, <3>4, <3>5, Appended
  <2>2. Drains
    <3>1. toHost' = toHost
      BY <1>4 DEF Greets
    <3> QED
      BY <1>1, <3>1, DrainsSimply
  <2>3. /\ digest' = HostHello
        /\ UNCHANGED <<boot, file, pos, state, dl, toHost, client, img, lost, odd>>
    BY <1>4 DEF Greets, clientVars
  <2> QED
    BY <1>1, <1>2, <2>1, <2>2, <2>3, QuietRound
<1>5. CASE HostOnHello
  <2> DEFINE f == IF boot THEN BootApp ELSE DlReq(Len(file))
  <2>1. Reads({"HELLO"}) /\ state' = "READY" /\ Answers(f) /\ UNCHANGED <<pos, dl>>
    BY <1>5 DEF HostOnHello
  <2>2. f \in Frame /\ (f.cmd = "BOOT_APP" => boot)
        /\ f.cmd \notin {"DOWNLOAD_BLOCK_RES", "DOWNLOAD_PARAM_RES"}
    BY <1>2
  <2> HIDE DEF f
  <2>3. digest' = f /\ Follow({HostHello, f})
    BY <1>1, <2>1, <2>2, AnswersNext
  <2>4. /\ Drains /\ toHost' \in Seq(Frame)
        /\ odd \subseteq odd' /\ odd' \subseteq FaultKinds \cup {"no end"}
        /\ UNCHANGED <<boot, file, client, img, lost>>
    BY <1>1, <2>1, ReadsDrain
  <2> QED
    BY <1>1, <2>1, <2>2, <2>3, <2>4, QuietRound
<1>6. CASE HostRefusesBlock \/ HostOnEnd
  <2>1. PICK cmds : Reads(cmds)
    BY <1>6 DEF HostRefusesBlock, HostOnEnd
  <2>2. Answers(NoFrame) /\ UNCHANGED <<pos, dl>> /\ (state' = state \/ state' = "FINISH")
    BY <1>6 DEF HostRefusesBlock, HostOnEnd
  <2>3. digest' = NoFrame /\ Follow({HostHello, NoFrame})
    BY <1>1, <2>2, AnswersNext
  <2>4. /\ Drains /\ toHost' \in Seq(Frame)
        /\ odd \subseteq odd' /\ odd' \subseteq FaultKinds \cup {"no end"}
        /\ UNCHANGED <<boot, file, client, img, lost>>
    BY <1>1, <2>1, ReadsDrain
  <2>5. state' \in {"INIT", "READY", "FINISH", "crashed", "hung"}
    BY <1>1, <2>2
  <2> QED
    BY <1>1, <1>2, <2>2, <2>3, <2>4, <2>5, QuietRound
<1>7. CASE HostOnRetransmit
  <2>1. Reads({"RETRANSMIT"}) /\ Answers(Digest) /\ UNCHANGED <<state, dl, pos>>
    BY <1>7 DEF HostOnRetransmit
  <2>2. digest' = Digest /\ Follow({HostHello, Digest})
    BY <1>1, <1>3, <2>1, AnswersNext
  <2>3. /\ Drains /\ toHost' \in Seq(Frame)
        /\ odd \subseteq odd' /\ odd' \subseteq FaultKinds \cup {"no end"}
        /\ UNCHANGED <<boot, file, client, img, lost>>
    BY <1>1, <2>1, ReadsDrain
  <2> QED
    BY <1>1, <1>2, <1>3, <2>1, <2>2, <2>3, QuietRound
<1>8. CASE HostOnOther \/ HostWaitsForRest
  <2>1. PICK cmds : Reads(cmds)
    BY <1>8 DEF HostOnOther, HostWaitsForRest
  <2>2. /\ digest' = Digest /\ toClient' = toClient \o Greeting
        /\ UNCHANGED <<pos, dl>> /\ state' \in {"crashed", "hung"}
    BY <1>8 DEF HostOnOther, HostWaitsForRest
  <2>3. Follow({HostHello, digest'})
    <3>1. Greeting \in Seq(Frame) /\ \A k \in 1..Len(Greeting) : Greeting[k] = HostHello
      <4>1. CASE state = "INIT"
        <5>1. Greeting = <<HostHello>>
          BY <4>1 DEF Greeting
        <5> QED
          BY <1>2, <5>1
      <4>2. CASE state # "INIT"
        <5>1. Greeting = <<>>
          BY <4>2 DEF Greeting
        <5> QED
          BY <5>1
      <4> QED
        BY <4>1, <4>2
    <3> QED
      BY <1>1, <2>2, <3>1, Appended
  <2>4. /\ Drains /\ toHost' \in Seq(Frame)
        /\ odd \subseteq odd' /\ odd' \subseteq FaultKinds \cup {"no end"}
        /\ UNCHANGED <<boot, file, client, img, lost>>
    BY <1>1, <2>1, ReadsDrain
  <2>5. state' \in {"INIT", "READY", "FINISH", "crashed", "hung"}
    BY <2>2
  <2> QED
    BY <1>1, <1>2, <1>3, <2>2, <2>3, <2>4, <2>5, QuietRound
<1>9. CASE HostOnMore
  <2>1. /\ toHost' = <<>> /\ state' \in {"hung", "crashed"}
        /\ UNCHANGED <<boot, file, pos, dl, digest, toClient, client, img, lost, odd>>
    BY <1>9 DEF HostOnMore, clientVars
  <2>2. Follow({HostHello, digest'})
    BY <1>1, <2>1, FollowNothing
  <2>3. toHost' \in Seq(Frame)
    BY <1>1, <2>1, DrainsSimply
  <2>4. Drains
    BY <1>1, <2>1, DrainsSimply
  <2>5. state' \in {"INIT", "READY", "FINISH", "crashed", "hung"}
    BY <2>1
  <2> QED
    BY <1>1, <2>1, <2>2, <2>3, <2>4, <2>5, QuietRound
<1>10. CASE LoseToHost
  <2>1. /\ toHost # <<>> /\ toHost' = Tail(toHost) /\ lost < MaxLost /\ lost' = lost + 1
        /\ UNCHANGED <<boot, file, pos, state, dl, digest, toClient, client, img>>
        /\ (odd' = odd \/ odd' = odd \cup {"no end"})
    BY <1>10 DEF LoseToHost, hostVars, clientVars, Without
  <2>2. Follow({HostHello, digest'})
    BY <1>1, <2>1, FollowNothing
  <2>3. toHost' \in Seq(Frame)
    BY <1>1, <2>1, DrainsSimply
  <2>5. Drains
    BY <1>1, <2>1, DrainsSimply
  <2>6. lost' \in 0..MaxLost
    <3>1. lost \in 0..MaxLost /\ lost < MaxLost /\ lost' = lost + 1 /\ MaxLost \in Nat
      BY <1>1, <2>1, LegacyBounds
    <3> QED
      BY <3>1
  <2>7. odd \subseteq odd' /\ odd' \subseteq FaultKinds \cup {"no end"}
    BY <1>1, <2>1
  <2> QED
    BY <1>1, <2>1, <2>2, <2>3, <2>5, <2>6, <2>7, QuietRound
<1> QED
  BY <1>4, <1>5, <1>6, <1>7, <1>8, <1>9, <1>10

\* The host numbers the blocks from 0: a file that was read is ahead.
LEMMA ParamRound ==
  ASSUME HostInv, HostOnParamReq
  PROVE  HostInv'
<1> DEFINE blocks == (Len(file) + rx.size - 1) \div rx.size
<1>1. /\ BTypeOK /\ client.bs \in Nat \ {0} /\ Len(file) \in Nat /\ pos \in Nat
      /\ dl.actual_block_nbr \in Nat
  BY Domains DEF HostInv
<1>2. Reads({"DOWNLOAD_PARAM_REQ"})
  BY DEF HostOnParamReq
<1>3. 1 \in DOMAIN toHost /\ toHost[1].cmd = "DOWNLOAD_PARAM_REQ" /\ rx = toHost[1]
  <2>1. rx.cmd \in {"DOWNLOAD_PARAM_REQ"} /\ 1 \in DOMAIN toHost /\ rx = toHost[1]
    BY <1>1, <1>2, ReadsNext
  <2> QED
    BY <2>1
<1>4. rx.size = client.bs
  BY <1>3 DEF HostInv, FileInv
<1>5. blocks \in Nat /\ blocks * client.bs >= Len(file)
  BY <1>1, <1>4, BlocksCover
<1>6. /\ dl' = [total_block_nbr |-> blocks, actual_block_nbr |-> 0, block_size |-> client.bs]
      /\ Answers(ParamRes(blocks, client.bs)) /\ UNCHANGED <<state, pos>>
  BY <1>4 DEF HostOnParamReq
<1> HIDE DEF blocks
<1>7. /\ dl'.total_block_nbr = blocks /\ dl'.actual_block_nbr = 0 /\ dl'.block_size = client.bs
      /\ dl' \in [total_block_nbr : Nat, actual_block_nbr : Nat, block_size : Nat]
  BY <1>1, <1>5, <1>6
<1>8. /\ ParamRes(blocks, client.bs) \in Frame
      /\ ParamRes(blocks, client.bs).cmd = "DOWNLOAD_PARAM_RES"
      /\ ParamRes(blocks, client.bs).nbr = blocks
  BY <1>1, <1>5, FramesBuilt DEF ParamRes, Build
<1>9. digest' = ParamRes(blocks, client.bs) /\ Follow({HostHello, digest'})
  BY <1>1, <1>6, <1>8, AnswersNext
<1>10. /\ Drains /\ toHost' \in Seq(Frame)
       /\ odd \subseteq odd' /\ odd' \subseteq FaultKinds \cup {"no end"}
       /\ UNCHANGED <<boot, file, client, img, lost>>
  BY <1>1, <1>2, ReadsDrain
<1>11. BTypeOK'
  <2>1. toClient' \in Seq(Frame)
    BY <1>9 DEF Follow
  <2> QED
    BY <1>6, <1>7, <1>8, <1>9, <1>10, <2>1 DEF HostInv, BTypeOK
<1>12. Ahead' <=> 0 < pos
  <2>1. dl'.actual_block_nbr * client'.bs = 0
    <3>1. 0 * client.bs = 0
      BY <1>1
    <3>2. client' = client /\ dl'.actual_block_nbr = 0
      BY <1>7, <1>10
    <3> QED
      BY <3>1, <3>2
  <2>2. pos' = pos
    BY <1>6
  <2> QED
    BY <2>1, <2>2 DEF Ahead
<1>13. Ahead => 0 < pos
  BY <1>1, Multiples DEF Ahead
<1>14. FrameInv(digest)'
  BY <1>5, <1>8, <1>9, <1>10 DEF FrameInv, IsBlock
<1>15. Round
  <2>1. pos <= pos'
    BY <1>1, <1>6, FileStays
  <2>2. ~IsBlock(digest')
    BY <1>8, <1>9 DEF IsBlock
  <2> QED
    BY <1>9, <1>10, <1>12, <1>13, <1>14, <2>1, <2>2 DEF Round
<1>16. AnswersInv' /\ ClientInv'
  BY <1>11, <1>15, RoundKeepsAnswers, RoundKeepsClient DEF HostInv
<1>17. OrderInv'
  <2>1. InOrder => ~Ahead'
    <3>1. InOrder => pos = 0
      BY <1>3 DEF InOrder
    <3> QED
      BY <1>12, <3>1
  <2> QED
    BY <1>6, <1>10, <1>11, <2>1, RoundKeepsOrder DEF HostInv
<1>18. FileInv'
  <2>1. pos = Len(file) \/ \E k \in 0..Len(file) : pos = k * client.bs
    BY DEF HostInv, FileInv
  <2>2. dl'.actual_block_nbr * client.bs <= pos
    BY <1>1, <1>7
  <2> QED
    BY <1>6, <1>7, <1>10, <2>1, <2>2, SizesStay DEF HostInv, FileInv
<1> QED
  BY <1>11, <1>16, <1>17, <1>18 DEF HostInv

\* What is read for a block is the next piece of the file, of the size asked for unless
\* the file ends before.
LEMMA BlockRead ==
  ASSUME BTypeOK, FileInv, Block # <<>>
  PROVE  LET end == Smaller(pos + client.bs, Len(file)) IN
         /\ pos < end /\ end \in 0..Len(file) /\ dl.block_size = client.bs /\ pos < Len(file)
         /\ Block = SubSeq(file, pos + 1, end) /\ Block \in Seq(Byte) /\ Len(Block) = end - pos
<1> DEFINE end == Smaller(pos + client.bs, Len(file))
           e == Smaller(pos + Smaller(dl.block_size, Len(file)), Len(file))
<1>1. /\ client.bs \in Nat \ {0} /\ Len(file) \in Nat /\ pos \in Nat /\ pos <= Len(file)
      /\ dl.block_size \in Nat
  BY Domains
<1>2. file \in Seq(Byte)
  BY DEF BTypeOK
<1>3. Block = SubSeq(file, pos + 1, e)
  BY DEF Block
<1>4. e \in Nat /\ e <= Len(file)
  BY <1>1 DEF Smaller
<1>5. pos < e
  <2>1. SUFFICES ASSUME ~(pos < e) PROVE FALSE
    OBVIOUS
  <2>2. pos + 1 > e
    BY <1>1, <1>4, <2>1
  <2> HIDE DEF e
  <2>3. SubSeq(file, pos + 1, e) = <<>>
    BY <1>1, <1>2, <1>4, <2>2
  <2> QED
    BY <1>3, <2>3
<1>6. dl.block_size # 0 /\ pos < Len(file)
  BY <1>1, <1>5 DEF Smaller
<1>7. dl.block_size = client.bs
  BY <1>6 DEF FileInv
<1>8. e = end
  BY <1>1, <1>7 DEF Smaller
<1> HIDE DEF e, end
<1>9. SubSeq(file, pos + 1, end) \in Seq(Byte)
  BY <1>1, <1>2, <1>4, <1>8
<1>10. Len(SubSeq(file, pos + 1, end)) = end - pos
  <2>1. Len(SubSeq(file, pos + 1, end)) = end - (pos + 1) + 1
    BY <1>1, <1>2, <1>4, <1>5, <1>8
  <2>2. end - (pos + 1) + 1 = end - pos
    BY <1>1, <1>4, <1>8
  <2> QED
    BY <2>1, <2>2
<1>11. end \in 0..Len(file)
  BY <1>1, <1>4, <1>8
<1> QED
  BY <1>3, <1>5, <1>6, <1>7, <1>8, <1>9, <1>10, <1>11 DEF end

\* A block the host serves is the one its number names, or of a place behind it.
LEMMA BlockRound ==
  ASSUME HostInv, HostOnBlockReq
  PROVE  HostInv'
<1>0. BTypeOK /\ dl.actual_block_nbr \in Nat /\ client.bs \in Nat \ {0} /\ Len(file) \in Nat
      /\ pos \in Nat /\ pos <= Len(file)
  BY Domains DEF HostInv
<1>a. PICK a \in Nat : a = dl.actual_block_nbr
  BY <1>0
<1>b. PICK b \in Nat \ {0} : b = client.bs
  BY <1>0
<1>c. PICK end : end = Smaller(pos + b, Len(file))
  OBVIOUS
<1>1. BTypeOK /\ Len(file) \in Nat /\ pos \in Nat /\ pos <= Len(file)
  BY <1>0
<1>2. Reads({"DOWNLOAD_BLOCK_REQ"}) /\ Block # <<>> /\ UNCHANGED state
  BY DEF HostOnBlockReq
<1>3. 1 \in DOMAIN toHost /\ toHost[1].cmd = "DOWNLOAD_BLOCK_REQ"
  <2>1. rx.cmd \in {"DOWNLOAD_BLOCK_REQ"} /\ 1 \in DOMAIN toHost /\ rx = toHost[1]
    BY <1>1, <1>2, ReadsNext
  <2> QED
    BY <2>1
<1>4. /\ pos < end /\ end \in 0..Len(file) /\ dl.block_size = b /\ pos < Len(file)
      /\ Block = SubSeq(file, pos + 1, end) /\ Block \in Seq(Byte) /\ Len(Block) = end - pos
  BY <1>1, <1>2, <1>b, <1>c, BlockRead DEF HostInv
<1>5. a * b <= pos /\ \E k \in 0..Len(file) : pos = k * b
  <2>1. pos # Len(file)
    BY <1>1, <1>4
  <2> QED
    BY <1>a, <1>b, <2>1 DEF HostInv, FileInv
<1>6. PICK k \in 0..Len(file) : pos = k * b
  BY <1>5
<1>7. k \in Nat /\ a <= k
  BY <1>1, <1>5, <1>6, Multiples
<1>8. /\ end \in Nat /\ end <= pos + b
      /\ end = pos + b \/ end = Len(file)
  BY <1>1, <1>c DEF Smaller
<1>9. /\ dl' = [dl EXCEPT !.actual_block_nbr = @ + 1] /\ pos' = pos + Len(Block)
      /\ Answers(BlockRes(a, Block))
  BY <1>a DEF HostOnBlockReq
<1>10. pos' = end
  <2>1. pos + (end - pos) = end
    BY <1>1, <1>8
  <2> QED
    BY <1>4, <1>9, <2>1
<1>11. /\ dl' \in [total_block_nbr : Nat, actual_block_nbr : Nat, block_size : Nat]
       /\ dl'.actual_block_nbr = a + 1 /\ dl'.block_size = b
  <2>1. dl \in [total_block_nbr : Nat, actual_block_nbr : Nat, block_size : Nat]
    BY <1>1 DEF BTypeOK
  <2>2. /\ dl'.actual_block_nbr = dl.actual_block_nbr + 1
        /\ dl'.block_size = dl.block_size /\ dl'.total_block_nbr = dl.total_block_nbr
    BY <1>9, <2>1
  <2>3. dl' \in [total_block_nbr : Nat, actual_block_nbr : Nat, block_size : Nat]
    BY <1>9, <2>1
  <2> QED
    BY <1>4, <1>a, <2>2, <2>3
<1>12. /\ BlockRes(a, Block) \in Frame /\ BlockRes(a, Block).cmd = "DOWNLOAD_BLOCK_RES"
       /\ BlockRes(a, Block).nbr = a /\ BlockRes(a, Block).data = Block
  BY <1>1, <1>4, FramesBuilt DEF BlockRes, Build
<1>13. digest' = BlockRes(a, Block) /\ Follow({HostHello, digest'})
  BY <1>1, <1>9, <1>12, AnswersNext
<1>14. /\ Drains /\ toHost' \in Seq(Frame)
       /\ odd \subseteq odd' /\ odd' \subseteq FaultKinds \cup {"no end"}
       /\ UNCHANGED <<boot, file, client, img, lost>>
  BY <1>1, <1>2, ReadsDrain
<1>15. BTypeOK'
  <2>1. toClient' \in Seq(Frame)
    BY <1>13 DEF Follow
  <2>2. pos' \in 0..Len(file')
    BY <1>4, <1>10, <1>14
  <2> QED
    BY <1>2, <1>11, <1>12, <1>13, <1>14, <2>1, <2>2 DEF HostInv, BTypeOK
<1>16. /\ Ahead <=> a * b < pos
       /\ Ahead' <=> (a + 1) * b < end
       /\ \A n : Beyond(n)' <=> (n + 1) * b < end
       /\ \A n : Slice(n)' = SubSeq(file, n * b + 1, Smaller((n + 1) * b, Len(file)))
  BY <1>10, <1>11, <1>14, <1>a, <1>b DEF Ahead, Beyond, Slice
<1>17. a < k => (a + 1) * b < end
  <2>1. (a + 1) * b \in Nat
    BY <1>1
  <2>2. a < k => (a + 1) * b <= k * b
    BY <1>1, <1>7, Multiples
  <2> QED
    BY <1>1, <1>4, <1>6, <1>8, <2>1, <2>2, SMTT(30)
<1>18. a = k => Block = Slice(a)' /\ ~((a + 1) * b < end) /\ ~Ahead
  <2>1. a = k => (a + 1) * b = pos + b
    BY <1>1, <1>6, <1>7
  <2>2. end <= pos + b
    BY <1>8
  <2>3. ~(pos + b < end) /\ ~(pos < pos)
    BY <1>1, <1>8, <2>2
  <2>4. a = k => Slice(a)' = SubSeq(file, pos + 1, end)
    <3>1. Slice(a)' = SubSeq(file, a * b + 1, Smaller((a + 1) * b, Len(file)))
      BY <1>16
    <3> QED
      BY <1>6, <1>c, <2>1, <3>1
  <2> QED
    BY <1>4, <1>6, <1>16, <2>1, <2>3, <2>4
<1>19. a < k \/ a = k
  BY <1>1, <1>7
<1>20. FrameInv(digest)'
  <2>1. a * b < end
    <3>1. a * b \in Nat
      BY <1>1
    <3> QED
      BY <1>1, <1>4, <1>5, <1>8, <3>1
  <2>2. digest'.cmd = "DOWNLOAD_BLOCK_RES" /\ digest'.nbr = a /\ digest'.data = Block
    BY <1>12, <1>13
  <2>3. digest'.nbr * client'.bs < pos'
    BY <1>10, <1>14, <1>b, <2>1, <2>2
  <2>4. Wrong(digest)' => Beyond(digest.nbr)' /\ Ahead'
    <3>1. Wrong(digest)' => Block # Slice(a)'
      BY <2>2 DEF Wrong
    <3>2. Beyond(digest.nbr)' <=> Beyond(a)'
      BY <2>2 DEF Beyond
    <3> QED
      BY <1>16, <1>17, <1>18, <1>19, <3>1, <3>2
  <2> QED
    BY <2>2, <2>3, <2>4 DEF FrameInv, Beyond
<1>21. Ahead => a < k
  BY <1>18, <1>19
<1>22. Round
  <2>1. pos <= pos'
    BY <1>1, <1>4, <1>8, <1>10
  <2>2. Ahead => Ahead' /\ Beyond(digest.nbr)'
    <3>1. digest'.nbr = a
      BY <1>12, <1>13
    <3> QED
      BY <1>10, <1>14, <1>16, <1>17, <1>21, <3>1 DEF Beyond
  <2> QED
    BY <1>13, <1>14, <1>20, <2>1, <2>2 DEF Round
<1>23. AnswersInv' /\ ClientInv'
  BY <1>15, <1>22, RoundKeepsAnswers, RoundKeepsClient DEF HostInv
<1>24. FileInv'
  <2>1. \/ end = Len(file)
        \/ (a + 1) * b <= end /\ \E j \in 0..Len(file) : end = j * b
    <3>1. CASE end = Len(file)
      BY <3>1
    <3>2. CASE end = pos + b
      <4>1. end = (k + 1) * b
        BY <1>1, <1>6, <1>7, <3>2
      <4>2. k + 1 \in Nat /\ a + 1 \in Nat /\ a + 1 <= k + 1
        BY <1>1, <1>7
      <4>3. (a + 1) * b <= (k + 1) * b
        BY <1>1, <4>2
      <4>4. k + 1 <= (k + 1) * b
        BY <1>1, <4>2, Multiples
      <4>5. k + 1 \in 0..Len(file)
        BY <1>1, <1>4, <1>8, <4>1, <4>2, <4>4
      <4> QED
        BY <4>1, <4>3, <4>5
    <3> QED
      BY <1>8, <3>1, <3>2
  <2>2. dl'.block_size = client'.bs /\ dl'.actual_block_nbr * client'.bs = (a + 1) * b
    BY <1>11, <1>14, <1>b
  <2> QED
    BY <1>10, <1>14, <2>1, <2>2, <1>b, SizesStay DEF HostInv, FileInv
<1>25. OrderInv'
  <2> SUFFICES ASSUME "reset" \notin odd' PROVE InOrder'
    BY DEF OrderInv
  <2>1. InOrder
    BY <1>14 DEF HostInv, OrderInv
  <2>2. ~Ahead'
    <3>1. ~(a * b < pos)
      BY <1>16, <2>1 DEF InOrder
    <3>2. ~(a < k)
      <4>1. a < k => (a + 1) * b <= k * b /\ (a + 1) * b = a * b + b /\ a * b \in Nat
        BY <1>7, Multiples
      <4> QED
        BY <1>6, <3>1, <4>1
    <3> QED
      BY <1>16, <1>18, <1>19, <3>2
  <2>3. client.st \notin {"idle", "hello", "param"}
    BY <1>3, <2>1 DEF InOrder
  <2>4. ASSUME NEW i \in DOMAIN toHost', toHost'[i].cmd = "DOWNLOAD_PARAM_REQ" PROVE FALSE
    <3>1. PICK n \in 1..Len(toHost) :
            i + n \in DOMAIN toHost /\ (toHost'[i] = Rest \/ toHost'[i] = toHost[i + n])
      BY <1>1, <1>2, ReadsNext
    <3>2. Rest.cmd = "REST"
      BY DEF Rest, Signal, Build
    <3>3. toHost[i + n].cmd = "DOWNLOAD_PARAM_REQ"
      BY <2>4, <3>1, <3>2
    <3>4. DOMAIN toHost' = 1..Len(toHost')
      <4>1. toHost' \in Seq(Frame)
        BY <1>14
      <4> QED
        BY <4>1
    <3>5. 1 < i + n
      <4>1. i \in 1..Len(toHost')
        BY <3>4
      <4>2. i \in Nat /\ i >= 1 /\ n \in Nat /\ n >= 1
        BY <4>1
      <4> QED
        BY <4>2
    <3> QED
      BY <1>3, <2>1, <3>1, <3>3, <3>5 DEF InOrder
  <2> QED
    BY <1>14, <2>2, <2>3, <2>4 DEF InOrder
<1> QED
  BY <1>15, <1>23, <1>24, <1>25 DEF HostInv

----------------------------------------------------------------------------
(* The client *)

Clients == [st : {"idle", "hello", "param", "block", "done"}, want : Nat,
            blocks : Nat, bs : BlockSizes, asked : BOOLEAN]

\* The client has not got the number of blocks.
Early == client.st \in {"idle", "hello", "param"}

\* The line to the client stays, or its oldest frame leaves it.
Passes ==
  /\ toClient' \in Seq(Frame)
  /\ \E n \in {0, 1} : \A k \in DOMAIN toClient' :
       k + n \in DOMAIN toClient /\ toClient'[k] = toClient[k + n]

\* At most one frame is sent to the host, in the state it belongs to.
SendsFrame(f) ==
  /\ toHost' = toHost \o <<f>>
  /\ f.cmd = "DOWNLOAD_PARAM_REQ" => f.size = client.bs /\ Early
  /\ f.cmd = "DOWNLOAD_BLOCK_REQ" => ~Early'
  /\ f.cmd = "END" => client'.st = "done" /\ (boot \/ img' = file)

\* Frames that stay on the line to the client keep what is known of them.
LEMMA AnswersPass ==
  ASSUME BTypeOK, AnswersInv, Passes, UNCHANGED <<boot, file, pos, dl, digest>>,
         client'.bs = client.bs
  PROVE  AnswersInv'
<1>1. PICK n \in {0, 1} : \A k \in DOMAIN toClient' :
        k + n \in DOMAIN toClient /\ toClient'[k] = toClient[k + n]
  BY DEF Passes
<1>2. \A m : FrameInv(m)' <=> FrameInv(m)
  BY DEF FrameInv, IsBlock, Wrong, Slice, Beyond, Ahead
<1>3. \A m : Wrong(m)' <=> Wrong(m)
  BY DEF IsBlock, Wrong, Slice
<1>4. \A i : Beyond(i)' <=> Beyond(i)
  BY DEF Beyond
<1>5. DOMAIN toClient' = 1..Len(toClient')
  <2>1. toClient' \in Seq(Frame)
    BY DEF Passes
  <2> QED
    BY <2>1
<1>6. FrameInv(digest)'
  BY <1>2 DEF AnswersInv, FrameInv
<1>7. ASSUME NEW k \in DOMAIN toClient'
      PROVE  /\ FrameInv(toClient[k])'
             /\ Wrong(toClient[k])' =>
                  /\ IsBlock(digest') => Beyond(digest.nbr)'
                  /\ \A j \in DOMAIN toClient' :
                       k < j /\ IsBlock(toClient'[j]) => Beyond(toClient[j].nbr)'
  <2>1. k + n \in DOMAIN toClient /\ toClient'[k] = toClient[k + n]
    BY <1>1
  <2>2. FrameInv(toClient[k])'
    BY <1>2, <2>1 DEF AnswersInv, FrameInv, IsBlock, Wrong, Slice, Beyond, Ahead
  <2>3. ASSUME Wrong(toClient[k])' PROVE Wrong(toClient[k + n])
    BY <1>3, <2>1, <2>3 DEF Wrong, IsBlock, Slice
  <2>4. ASSUME Wrong(toClient[k])', IsBlock(digest') PROVE Beyond(digest.nbr)'
    BY <2>1, <2>3, <2>4 DEF AnswersInv, IsBlock, Beyond
  <2>5. ASSUME Wrong(toClient[k])', NEW j \in DOMAIN toClient', k < j, IsBlock(toClient'[j])
        PROVE  Beyond(toClient[j].nbr)'
    <3>1. j + n \in DOMAIN toClient /\ toClient'[j] = toClient[j + n]
      BY <1>1
    <3>2. k + n < j + n
      BY <1>5, <2>5
    <3>3. Beyond(toClient[j + n].nbr)
      BY <2>1, <2>3, <2>5, <3>1, <3>2 DEF AnswersInv
    <3> QED
      BY <3>1, <3>3 DEF Beyond
  <2> QED
    BY <2>2, <2>4, <2>5
<1> QED
  BY <1>6, <1>7 DEF AnswersInv, IsBlock

\* A client that is doomed stays so as long as it does not start again.
LEMMA DoomedStays ==
  ASSUME BTypeOK, Doomed, Passes, UNCHANGED <<pos, dl, digest>>, client' \in Clients,
         client'.bs = client.bs, client'.want >= client.want
  PROVE  Doomed'
<1>1. PICK n \in {0, 1} : \A k \in DOMAIN toClient' :
        k + n \in DOMAIN toClient /\ toClient'[k] = toClient[k + n]
  BY DEF Passes
<1>2. \A i : Beyond(i)' <=> Beyond(i)
  BY DEF Beyond
<1>3. Ahead'
  BY DEF Doomed, Ahead
<1>4. client.want \in Nat /\ client'.want \in Nat
  BY DEF BTypeOK, Clients
<1>5. \A i \in Nat : i >= client'.want => i >= client.want
  BY <1>4
<1>6. ASSUME IsBlock(digest'), digest'.nbr >= client'.want PROVE Beyond(digest.nbr)'
  <2>1. IsBlock(digest) /\ digest.nbr >= client'.want
    BY <1>6 DEF IsBlock
  <2>2. digest.nbr \in Nat
    BY <2>1, DigestNumber
  <2>3. Beyond(digest.nbr)
    BY <1>5, <2>1, <2>2 DEF Doomed
  <2> QED
    BY <2>3 DEF Beyond
<1>7. ASSUME NEW k \in DOMAIN toClient', IsBlock(toClient'[k]), toClient'[k].nbr >= client'.want
      PROVE  Beyond(toClient[k].nbr)'
  <2>1. k + n \in DOMAIN toClient /\ toClient'[k] = toClient[k + n]
    BY <1>1
  <2>2. toClient[k + n].nbr \in Nat
    BY <2>1, Domains
  <2>3. Beyond(toClient[k + n].nbr)
    BY <1>5, <1>7, <2>1, <2>2 DEF Doomed
  <2> QED
    BY <2>1, <2>3 DEF Beyond
<1> QED
  BY <1>3, <1>6, <1>7 DEF Doomed, IsBlock

\* A frame that is sent is the last one on the line to the host.
LEMMA LineGrows ==
  ASSUME toHost \in Seq(Frame), NEW f \in Frame, toHost' = toHost \o <<f>>
  PROVE  /\ toHost' \in Seq(Frame)
         /\ \A k \in DOMAIN toHost : toHost'[k] = toHost[k]
         /\ \A k \in DOMAIN toHost' : k \in DOMAIN toHost \/ toHost'[k] = f
         /\ \A k, j \in DOMAIN toHost' : j < k => j \in DOMAIN toHost
<1>1. Len(toHost) \in Nat /\ DOMAIN toHost = 1..Len(toHost)
  OBVIOUS
<1>2. toHost' \in Seq(Frame) /\ DOMAIN toHost' = 1..(Len(toHost) + 1)
  OBVIOUS
<1>3. \A k \in DOMAIN toHost : toHost'[k] = toHost[k]
  OBVIOUS
<1>4. toHost'[Len(toHost) + 1] = f
  OBVIOUS
<1>5. \A k \in 1..(Len(toHost) + 1) : k \in 1..Len(toHost) \/ k = Len(toHost) + 1
  BY <1>1
<1>6. \A k, j \in 1..(Len(toHost) + 1) : j < k => j \in 1..Len(toHost)
  BY <1>1
<1> QED
  BY <1>1, <1>2, <1>3, <1>4, <1>5, <1>6, Zenon

\* What a step of the client, or a frame lost on its way to it, keeps.
LEMMA ClientStep ==
  ASSUME HostInv, UNCHANGED <<boot, file, pos, state, dl, digest>>, Passes,
         toHost' = toHost \/ \E f \in Frame : SendsFrame(f),
         client' \in Clients, client'.bs = client.bs, img' \in Seq(Byte), lost' \in 0..MaxLost,
         odd \subseteq odd', odd' \subseteq FaultKinds \cup {"no end"},
         client.st = "done" => client'.st = "done" /\ img' = img,
         "reset" \in odd' \/ (Early' => Early),
         Waits'
  PROVE  HostInv'
<1>1. BTypeOK /\ FileInv /\ AnswersInv /\ ClientInv /\ OrderInv /\ toHost \in Seq(Frame)
  BY DEF HostInv, BTypeOK
<1>2. /\ toHost' \in Seq(Frame)
      /\ \A k \in DOMAIN toHost : toHost'[k] = toHost[k]
      /\ \A k \in DOMAIN toHost' : k \in DOMAIN toHost \/ SendsFrame(toHost'[k])
      /\ \A k, j \in DOMAIN toHost' : j < k => j \in DOMAIN toHost
  <2>1. CASE toHost' = toHost
    BY <1>1, <2>1
  <2>2. CASE \E f \in Frame : SendsFrame(f)
    <3>1. PICK f \in Frame : SendsFrame(f)
      BY <2>2
    <3>2. toHost' = toHost \o <<f>>
      BY <3>1 DEF SendsFrame
    <3>3. /\ toHost' \in Seq(Frame)
          /\ \A k \in DOMAIN toHost : toHost'[k] = toHost[k]
          /\ \A k \in DOMAIN toHost' : k \in DOMAIN toHost \/ toHost'[k] = f
          /\ \A k, j \in DOMAIN toHost' : j < k => j \in DOMAIN toHost
      BY <1>1, <3>2, LineGrows
    <3> QED
      BY <3>1, <3>3, Zenon
  <2> QED
    BY <2>1, <2>2
<1>3. BTypeOK'
  BY <1>1, <1>2 DEF BTypeOK, Clients, Passes
<1>4. AnswersInv'
  BY <1>1, AnswersPass
<1>5. \A k \in DOMAIN toHost : toHost'[k] = toHost[k]
  BY <1>2
<1>6. ASSUME NEW k \in DOMAIN toHost', k \notin DOMAIN toHost PROVE SendsFrame(toHost'[k])
  BY <1>2, <1>6
<1>7. FileInv'
  <2>1. ASSUME NEW k \in DOMAIN toHost', toHost'[k].cmd = "DOWNLOAD_PARAM_REQ"
        PROVE  toHost'[k].size = client.bs
    <3>1. CASE k \in DOMAIN toHost
      BY <1>1, <1>5, <2>1, <3>1 DEF FileInv
    <3>2. CASE k \notin DOMAIN toHost
      BY <1>6, <2>1, <3>2 DEF SendsFrame
    <3> QED
      BY <3>1, <3>2
  <2> QED
    BY <1>1, <2>1 DEF FileInv
<1>8. ClientInv'
  <2>1. ASSUME NEW k \in DOMAIN toHost', toHost'[k].cmd = "END"
        PROVE  client'.st = "done" /\ (boot \/ img' = file)
    <3>1. CASE k \in DOMAIN toHost
      BY <1>1, <1>5, <2>1, <3>1 DEF ClientInv
    <3>2. CASE k \notin DOMAIN toHost
      BY <1>6, <2>1, <3>2 DEF SendsFrame
    <3> QED
      BY <3>1, <3>2
  <2> QED
    BY <2>1 DEF ClientInv
<1>9. OrderInv'
  <2> SUFFICES ASSUME "reset" \notin odd' PROVE InOrder'
    BY DEF OrderInv
  <2>1. InOrder /\ (Early' => Early)
    BY <1>1 DEF OrderInv
  <2>2. ~Ahead'
    BY <2>1 DEF InOrder, Ahead
  <2>3. ASSUME Early' PROVE pos = 0 /\ \A k \in DOMAIN toHost' : toHost'[k].cmd # "DOWNLOAD_BLOCK_REQ"
    <3>1. pos = 0 /\ \A k \in DOMAIN toHost : toHost[k].cmd # "DOWNLOAD_BLOCK_REQ"
      BY <2>1, <2>3 DEF InOrder, Early
    <3> QED
      BY <1>5, <1>6, <2>3, <3>1 DEF SendsFrame
  <2>4. ASSUME NEW k \in DOMAIN toHost', toHost'[k].cmd = "DOWNLOAD_PARAM_REQ",
               NEW j \in DOMAIN toHost', j < k
        PROVE  pos = 0 /\ toHost'[j].cmd # "DOWNLOAD_BLOCK_REQ"
    <3>1. j \in DOMAIN toHost
      BY <1>2, <2>4
    <3>2. CASE k \in DOMAIN toHost
      BY <1>5, <2>1, <2>4, <3>1, <3>2 DEF InOrder
    <3>3. CASE k \notin DOMAIN toHost
      <4>1. Early
        BY <1>6, <2>4, <3>3 DEF SendsFrame
      <4>2. pos = 0 /\ \A i \in DOMAIN toHost : toHost[i].cmd # "DOWNLOAD_BLOCK_REQ"
        BY <2>1, <4>1 DEF InOrder, Early
      <4> QED
        BY <1>5, <3>1, <4>2
    <3> QED
      BY <3>2, <3>3
  <2>5. ASSUME NEW k \in DOMAIN toHost', toHost'[k].cmd = "DOWNLOAD_PARAM_REQ" PROVE pos = 0
    <3>1. CASE k \in DOMAIN toHost
      BY <1>5, <2>1, <2>5, <3>1 DEF InOrder
    <3>2. CASE k \notin DOMAIN toHost
      BY <1>6, <2>1, <2>5, <3>2 DEF InOrder, Early, SendsFrame
    <3> QED
      BY <3>1, <3>2
  <2> QED
    BY <2>2, <2>3, <2>4, <2>5 DEF InOrder, Early
<1> QED
  BY <1>3, <1>4, <1>7, <1>8, <1>9 DEF HostInv

\* The oldest frame leaves the line to the client.
LEMMA Passed ==
  ASSUME BTypeOK, toClient # <<>>, toClient' = Tail(toClient)
  PROVE  /\ Passes /\ 1 \in DOMAIN toClient /\ crx = toClient[1] /\ crx \in Frame
         /\ \A k \in DOMAIN toClient' :
              1 < k + 1 /\ k + 1 \in DOMAIN toClient /\ toClient'[k] = toClient[k + 1]
<1>1. toClient \in Seq(Frame)
  BY DEF BTypeOK
<1>2. Len(toClient) \in Nat /\ DOMAIN toClient = 1..Len(toClient) /\ Len(toClient) >= 1
  BY <1>1
<1>3. toClient' \in Seq(Frame) /\ Len(toClient') = Len(toClient) - 1
  BY <1>1
<1>4. DOMAIN toClient' = 1..(Len(toClient) - 1)
  BY <1>3
<1>5. \A k \in 1..(Len(toClient) - 1) : toClient'[k] = toClient[k + 1]
  BY <1>1
<1>6. \A k \in 1..(Len(toClient) - 1) : 1 < k + 1 /\ k + 1 \in 1..Len(toClient)
  BY <1>2
<1>7. 1 \in DOMAIN toClient /\ crx = toClient[1] /\ crx \in Frame
  BY <1>1, <1>2 DEF crx
<1>8. \A k \in DOMAIN toClient' :
        1 < k + 1 /\ k + 1 \in DOMAIN toClient /\ toClient'[k] = toClient[k + 1]
  BY <1>2, <1>4, <1>5, <1>6
<1>9. Passes
  BY <1>3, <1>8 DEF Passes
<1> QED
  BY <1>7, <1>8, <1>9

\* The line to the client stays as it is.
LEMMA NothingPassed ==
  ASSUME BTypeOK, toClient' = toClient
  PROVE  Passes
<1>1. toClient \in Seq(Frame)
  BY DEF BTypeOK
<1>2. \A k \in DOMAIN toClient : k + 0 = k
  <2>1. \A k \in DOMAIN toClient : k \in Int
    BY <1>1
  <2> QED
    BY <2>1
<1> QED
  BY <1>1, <1>2 DEF Passes

\* A client that goes on waiting for what it waits for.
LEMMA StillWaits ==
  ASSUME HostInv, Passes, UNCHANGED <<file, pos, dl, digest, img>>, client' \in Clients,
         client'.st = client.st, client'.want = client.want, client'.blocks = client.blocks,
         client'.bs = client.bs, client'.st = "idle" => ~client'.asked
  PROVE  Waits'
<1>1. Waits /\ BTypeOK
  BY DEF HostInv, ClientInv
<1>2. client'.want >= client.want
  <2>1. client.want \in Nat
    BY <1>1 DEF BTypeOK
  <2> QED
    BY <2>1
<1>3. Doomed => Doomed'
  BY <1>1, <1>2, DoomedStays
<1>4. Begins' <=> Begins
  BY DEF Begins
<1> QED
  BY <1>1, <1>3, <1>4 DEF Waits

\* The client's steps that take no answer it waits for, and a frame lost on its way to it.
LEMMA ClientRepeats ==
  ASSUME HostInv, ClientOnOld \/ ClientAsksAgain \/ ClientIsHasty \/ LoseToClient
  PROVE  HostInv'
<1>1. /\ BTypeOK /\ client \in Clients /\ odd \subseteq FaultKinds \cup {"no end"}
      /\ lost \in 0..MaxLost /\ img \in Seq(Byte) /\ Waits
  BY DEF HostInv, BTypeOK, Clients, ClientInv
<1>2. CASE ClientOnOld
  <2>1. /\ Passes /\ UNCHANGED <<boot, file, pos, state, dl, digest, lost, odd, img>>
        /\ client' = [client EXCEPT !.asked = FALSE]
        /\ toHost' = toHost \o (IF client.asked THEN <<Request>> ELSE <<>>)
    BY <1>1, <1>2, Passed DEF ClientOnOld, ClientTakes, ClientSends, hostVars
  <2>2. /\ client' \in Clients /\ ~client'.asked /\ client'.st = client.st
        /\ client'.want = client.want /\ client'.blocks = client.blocks /\ client'.bs = client.bs
    BY <1>1, <2>1 DEF Clients
  <2>3. toHost' = toHost \/ \E f \in Frame : SendsFrame(f)
    <3>1. CASE client.asked
      <4>1. client.want \in Nat /\ client.bs \in Nat /\ client.st # "idle"
        BY <1>1, <3>1, BlockSizesAssumption DEF Clients, Waits
      <4>2. /\ Request \in Frame
            /\ Request.cmd = "DOWNLOAD_PARAM_REQ" => client.st = "param" /\ Request.size = client.bs
            /\ Request.cmd = "DOWNLOAD_BLOCK_REQ" => client.st \notin {"hello", "param"}
            /\ Request.cmd # "END"
        BY <4>1, FramesBuilt DEF Request, Hello, ParamReq, BlockReq, Signal, Build
      <4>3. toHost' = toHost \o <<Request>>
        BY <2>1, <3>1
      <4> HIDE DEF Request
      <4> QED
        BY <2>2, <4>1, <4>2, <4>3 DEF SendsFrame, Early
    <3>2. CASE ~client.asked
      <4>1. toHost \in Seq(Frame)
        BY <1>1 DEF BTypeOK
      <4>2. toHost' = toHost \o <<>>
        BY <2>1, <3>2
      <4> QED
        BY <4>1, <4>2
    <3> QED
      BY <3>1, <3>2
  <2>4. Waits'
    BY <2>1, <2>2, StillWaits
  <2>5. Early' => Early
    BY <2>2 DEF Early
  <2> QED
    BY <1>1, <2>1, <2>2, <2>3, <2>4, <2>5, ClientStep
<1>3. CASE ClientAsksAgain \/ ClientIsHasty
  <2>1. /\ client.st \in {"hello", "param", "block"} /\ toHost' = toHost \o <<Retransmit>>
        /\ client' = [client EXCEPT !.asked = TRUE] /\ toClient' = toClient
        /\ UNCHANGED <<boot, file, pos, state, dl, digest, lost, img>>
        /\ odd' \in {odd, odd \cup {"hasty"}}
    BY <1>3 DEF ClientAsksAgain, ClientIsHasty, ClientTimesOut, ClientSends, hostVars
  <2>2. /\ client' \in Clients /\ client'.st = client.st
        /\ client'.want = client.want /\ client'.blocks = client.blocks /\ client'.bs = client.bs
    BY <1>1, <2>1 DEF Clients
  <2>3. Retransmit \in Frame /\ SendsFrame(Retransmit)
    BY <2>1, FramesBuilt DEF SendsFrame, Retransmit, Signal, Build
  <2>4. Passes
    BY <1>1, <2>1, NothingPassed
  <2>5. Waits'
    BY <2>1, <2>2, <2>4, StillWaits
  <2>6. (Early' => Early) /\ odd \subseteq odd' /\ odd' \subseteq FaultKinds \cup {"no end"}
    BY <1>1, <2>1, <2>2 DEF Early, FaultKinds
  <2> QED
    BY <1>1, <2>1, <2>2, <2>3, <2>4, <2>5, <2>6, ClientStep
<1>4. CASE LoseToClient
  <2>1. /\ toClient # <<>> /\ toClient' = Tail(toClient) /\ lost < MaxLost /\ lost' = lost + 1
        /\ UNCHANGED <<boot, file, pos, state, dl, digest, toHost, client, img, odd>>
    BY <1>4 DEF LoseToClient, hostVars, clientVars
  <2>2. Passes
    BY <1>1, <2>1, Passed
  <2>3. Waits'
    BY <1>1, <2>1, <2>2, StillWaits DEF Waits
  <2>4. lost' \in 0..MaxLost
    <3>1. lost \in 0..MaxLost /\ lost < MaxLost /\ lost' = lost + 1 /\ MaxLost \in Nat
      BY <1>1, <2>1, LegacyBounds
    <3> QED
      BY <3>1
  <2>5. Early' => Early
    BY <2>1 DEF Early
  <2> QED
    BY <1>1, <2>1, <2>2, <2>3, <2>4, <2>5, ClientStep
<1> QED
  BY <1>2, <1>3, <1>4

\* A client that is reset, that fails, or that hears the greeting asks for a new start or
\* for nothing more.
LEMMA ClientRestarts ==
  ASSUME HostInv, ClientOnHostHello \/ ClientResets \/ ClientFails \/ ClientOnDlReq
  PROVE  HostInv'
<1>1. /\ BTypeOK /\ client \in Clients /\ odd \subseteq FaultKinds \cup {"no end"}
      /\ lost \in 0..MaxLost /\ img \in Seq(Byte) /\ <<>> \in Seq(Byte)
  <2>1. <<>> \in Seq(Byte)
    OBVIOUS
  <2> QED
    BY <2>1 DEF HostInv, BTypeOK, Clients
<1>2. CASE ClientOnHostHello
  <2>1. /\ Passes /\ UNCHANGED <<boot, file, pos, state, dl, digest, lost, odd, img>>
        /\ client' = [client EXCEPT !.st = "hello", !.asked = FALSE]
        /\ client.st \in {"idle", "hello"} /\ toHost' = toHost \o <<Hello>>
    BY <1>1, <1>2, Passed DEF ClientOnHostHello, ClientTakes, ClientSends, hostVars
  <2>2. client' \in Clients /\ client'.st = "hello" /\ client'.bs = client.bs
    BY <1>1, <2>1 DEF Clients
  <2>3. Hello \in Frame /\ SendsFrame(Hello)
    BY <2>1, FramesBuilt DEF SendsFrame, Hello, Signal, Build
  <2>4. Waits' /\ (Early' => Early)
    BY <2>1, <2>2 DEF Waits, Early
  <2> QED
    BY <1>1, <2>1, <2>2, <2>3, <2>4, ClientStep
<1>3. CASE ClientResets
  <2>1. /\ toClient' = toClient /\ UNCHANGED <<boot, file, pos, state, dl, digest, lost, img>>
        /\ client' = [client EXCEPT !.st = "hello", !.want = 0, !.blocks = 0, !.asked = FALSE]
        /\ client.st # "done" /\ toHost' = toHost \o <<Hello>> /\ odd' = odd \cup {"reset"}
    BY <1>3 DEF ClientResets, ClientSends, hostVars
  <2>2. client' \in Clients /\ client'.st = "hello" /\ client'.bs = client.bs
    BY <1>1, <2>1 DEF Clients
  <2>3. Hello \in Frame /\ SendsFrame(Hello)
    BY <2>1, FramesBuilt DEF SendsFrame, Hello, Signal, Build
  <2>4. Waits'
    BY <2>1, <2>2 DEF Waits
  <2>5. Passes
    BY <1>1, <2>1, NothingPassed
  <2>6. odd \subseteq odd' /\ odd' \subseteq FaultKinds \cup {"no end"} /\ "reset" \in odd'
    BY <1>1, <2>1 DEF FaultKinds
  <2> QED
    BY <1>1, <2>1, <2>2, <2>3, <2>4, <2>5, <2>6, ClientStep
<1>4. CASE ClientFails
  <2>1. /\ toClient' = toClient /\ UNCHANGED <<boot, file, pos, state, dl, digest, lost, img>>
        /\ client' = [client EXCEPT !.st = "done"]
        /\ toHost' = toHost \o <<Error>> /\ odd' = odd \cup {"error"}
    BY <1>4 DEF ClientFails, ClientSends, hostVars
  <2>2. client' \in Clients /\ client'.st = "done" /\ client'.bs = client.bs
    BY <1>1, <2>1 DEF Clients
  <2>3. Error \in Frame /\ SendsFrame(Error)
    BY <2>1, FramesBuilt DEF SendsFrame, Error, Signal, Build
  <2>4. Waits' /\ (Early' => Early)
    BY <2>1, <2>2 DEF Waits, Early
  <2>5. Passes
    BY <1>1, <2>1, NothingPassed
  <2>6. odd \subseteq odd' /\ odd' \subseteq FaultKinds \cup {"no end"}
    BY <1>1, <2>1 DEF FaultKinds
  <2> QED
    BY <1>1, <2>1, <2>2, <2>3, <2>4, <2>5, <2>6, ClientStep
<1>5. CASE ClientOnDlReq
  <2>1. /\ Passes /\ UNCHANGED <<boot, file, pos, state, dl, digest, lost, odd>>
        /\ client' = [client EXCEPT !.st = "param", !.asked = FALSE] /\ img' = <<>>
        /\ client.st = "hello" /\ toHost' = toHost \o <<ParamReq(client.bs)>>
    BY <1>1, <1>5, Passed DEF ClientOnDlReq, ClientTakes, ClientSends, hostVars
  <2>2. client' \in Clients /\ client'.st = "param" /\ client'.bs = client.bs
    BY <1>1, <2>1 DEF Clients
  <2>3. ParamReq(client.bs) \in Frame /\ SendsFrame(ParamReq(client.bs))
    <3>1. client.bs \in Nat
      BY <1>1, Domains
    <3> QED
      BY <2>1, <3>1, FramesBuilt DEF SendsFrame, ParamReq, Build, Early
  <2>4. Waits' /\ (Early' => Early)
    BY <2>1, <2>2 DEF Waits, Early
  <2> QED
    BY <1>1, <2>1, <2>2, <2>3, <2>4, ClientStep
<1> QED
  BY <1>2, <1>3, <1>4, <1>5

\* The client is told to boot, or how many blocks there are.
LEMMA ClientIsTold ==
  ASSUME HostInv, ClientOnBootApp \/ ClientOnParamRes
  PROVE  HostInv'
<1>1. /\ BTypeOK /\ client \in Clients /\ odd \subseteq FaultKinds \cup {"no end"}
      /\ lost \in 0..MaxLost /\ img \in Seq(Byte) /\ Waits
  BY DEF HostInv, BTypeOK, Clients, ClientInv
<1>2. ClientTakes
  BY DEF ClientOnBootApp, ClientOnParamRes
<1>3. Passes /\ crx \in Frame /\ UNCHANGED <<boot, file, pos, state, dl, digest, lost, odd>>
  BY <1>1, <1>2, Passed DEF ClientTakes, hostVars
<1>4. FrameInv(crx)
  <2>1. 1 \in DOMAIN toClient /\ crx = toClient[1]
    BY <1>1, <1>2, Passed DEF ClientTakes
  <2> QED
    BY <2>1 DEF HostInv, AnswersInv
<1>5. End \in Frame /\ End.cmd = "END"
  BY FramesBuilt DEF End, Signal, Build
<1>6. CASE ClientOnBootApp
  <2>1. /\ client' = [client EXCEPT !.st = "done"] /\ img' = img /\ client.st = "hello"
        /\ toHost' = toHost \o <<End>> /\ crx.cmd = "BOOT_APP"
    BY <1>6 DEF ClientOnBootApp, ClientSends
  <2>2. client' \in Clients /\ client'.st = "done" /\ client'.bs = client.bs
    BY <1>1, <2>1 DEF Clients
  <2>3. SendsFrame(End)
    BY <1>4, <1>5, <2>1, <2>2 DEF SendsFrame, FrameInv
  <2>4. Waits' /\ (Early' => Early)
    BY <2>2 DEF Waits, Early
  <2> QED
    BY <1>1, <1>3, <1>5, <2>1, <2>2, <2>3, <2>4, ClientStep
<1>7. CASE ClientOnParamRes
  <2>1. /\ client' = [client EXCEPT !.st = IF 0 = crx.nbr THEN "done" ELSE "block",
                                    !.want = 0, !.blocks = crx.nbr, !.asked = FALSE]
        /\ img' = img /\ client.st = "param" /\ crx.cmd = "DOWNLOAD_PARAM_RES"
        /\ toHost' = toHost \o NextOrEnd(0, crx.nbr)
    BY <1>7 DEF ClientOnParamRes, ClientContinues, ClientSends
  <2>2. crx.nbr \in Nat /\ Len(file) \in Nat /\ client.bs \in Nat \ {0}
        /\ crx.nbr * client.bs >= Len(file)
    BY <1>1, <1>3, <1>4, <2>1, Domains DEF Frame, FrameInv
  <2>3. /\ client' \in Clients /\ client'.bs = client.bs /\ client'.want = 0
        /\ client'.blocks = crx.nbr /\ client'.st = IF 0 = crx.nbr THEN "done" ELSE "block"
    BY <1>1, <2>1, <2>2 DEF Clients
  <2>4. img = <<>>
    BY <1>1, <2>1 DEF Waits
  <2>5. file \in Seq(Byte)
    BY <1>1 DEF BTypeOK
  <2>6. \E f \in Frame : SendsFrame(f)
    <3>1. CASE crx.nbr = 0
      <4>1. Len(file) = 0
        BY <2>2, <3>1
      <4>2. file = <<>>
        BY <2>5, <4>1
      <4>3. NextOrEnd(0, crx.nbr) = <<End>>
        BY <3>1 DEF NextOrEnd
      <4> QED
        BY <1>5, <2>1, <2>3, <2>4, <3>1, <4>2, <4>3 DEF SendsFrame
    <3>2. CASE crx.nbr # 0
      <4>1. BlockReq(0) \in Frame /\ BlockReq(0).cmd = "DOWNLOAD_BLOCK_REQ"
        BY FramesBuilt DEF BlockReq, Build
      <4>2. NextOrEnd(0, crx.nbr) = <<BlockReq(0)>>
        BY <3>2 DEF NextOrEnd
      <4>3. ~Early'
        BY <2>3, <3>2 DEF Early
      <4>4. toHost' = toHost \o <<BlockReq(0)>>
        BY <2>1, <4>2
      <4>5. SendsFrame(BlockReq(0))
        BY <4>1, <4>3, <4>4 DEF SendsFrame
      <4> QED
        BY <4>1, <4>5
    <3> QED
      BY <3>1, <3>2
  <2>7. Begins'
    <3>1. 0 * client.bs = 0 /\ Smaller(0, Len(file)) = 0
      BY <2>2 DEF Smaller
    <3>2. SubSeq(file, 1, 0) = <<>>
      BY <2>5
    <3> QED
      BY <1>3, <2>1, <2>3, <2>4, <3>1, <3>2 DEF Begins
  <2>8. Waits'
    BY <1>3, <2>2, <2>3, <2>7 DEF Waits
  <2>9. Early' => Early
    BY <2>3 DEF Early
  <2> QED
    BY <1>1, <1>3, <2>1, <2>3, <2>6, <2>8, <2>9, ClientStep
<1> QED
  BY <1>6, <1>7

\* The client takes the block it has asked for.  When it is the last one and the file
\* fits into the blocks there were to be, no block can have been a wrong one.
LEMMA ClientTakesBlock ==
  ASSUME HostInv, ClientOnBlockRes
  PROVE  HostInv'
<1>1. /\ BTypeOK /\ client \in Clients /\ odd \subseteq FaultKinds \cup {"no end"}
      /\ lost \in 0..MaxLost /\ img \in Seq(Byte) /\ Waits /\ file \in Seq(Byte)
  BY DEF HostInv, BTypeOK, Clients, ClientInv
<1>2. /\ ClientTakes /\ IsBlock(crx) /\ client.st = "block" /\ crx.nbr = client.want
      /\ ClientContinues(client.want + 1, client.blocks) /\ img' = img \o crx.data
  BY DEF ClientOnBlockRes, IsBlock
<1>3. Passes /\ crx \in Frame /\ UNCHANGED <<boot, file, pos, state, dl, digest, lost, odd>>
  BY <1>1, <1>2, Passed DEF ClientTakes, hostVars
<1>4. /\ 1 \in DOMAIN toClient /\ crx = toClient[1]
      /\ \A k \in DOMAIN toClient' :
           1 < k + 1 /\ k + 1 \in DOMAIN toClient /\ toClient'[k] = toClient[k + 1]
  BY <1>1, <1>2, Passed DEF ClientTakes
<1>5. PICK w \in Nat : w = client.want
  BY <1>1 DEF Clients
<1>6. PICK n \in Nat : n = client.blocks
  BY <1>1 DEF Clients
<1>7. PICK b \in Nat \ {0} : b = client.bs
  BY <1>1, Domains
<1>8. Len(file) \in Nat /\ pos \in Nat /\ pos <= Len(file)
  BY <1>1, Domains
<1>9. n * b >= Len(file) /\ (Begins \/ Doomed)
  BY <1>1, <1>2, <1>6, <1>7 DEF Waits
<1>10. /\ client' = [client EXCEPT !.st = IF w + 1 = n THEN "done" ELSE "block",
                                   !.want = w + 1, !.blocks = n, !.asked = FALSE]
       /\ toHost' = toHost \o NextOrEnd(w + 1, n)
  BY <1>2, <1>5, <1>6 DEF ClientContinues, ClientSends
<1>11. /\ client' \in Clients /\ client'.bs = client.bs /\ client'.want = w + 1
       /\ client'.blocks = n /\ client'.st = IF w + 1 = n THEN "done" ELSE "block"
  <2>1. client \in Clients /\ w + 1 \in Nat
    <3>1. client \in Clients
      BY <1>1
    <3>2. w + 1 \in Nat
      OBVIOUS
    <3> QED
      BY <3>1, <3>2
  <2>2. /\ client'.bs = client.bs /\ client'.want = w + 1 /\ client'.blocks = n
        /\ client'.st = IF w + 1 = n THEN "done" ELSE "block"
    BY <1>10, <2>1 DEF Clients
  <2>3. client' \in Clients
    BY <1>10, <2>1 DEF Clients
  <2> QED
    BY <2>2, <2>3
<1>12. crx.data \in Seq(Byte) /\ img' \in Seq(Byte)
  <2>1. crx.data \in Seq(Byte)
    BY <1>3 DEF Frame
  <2>2. img \in Seq(Byte) /\ img' = img \o crx.data
    BY <1>1, <1>2
  <2> QED
    BY <2>1, <2>2
<1>13. w * b < pos /\ (Wrong(crx) => Beyond(w) /\ Ahead)
  <2>1. FrameInv(crx)
    BY <1>4 DEF HostInv, AnswersInv
  <2> QED
    BY <1>2, <1>5, <1>7, <2>1 DEF FrameInv
<1>14. ASSUME Beyond(w) PROVE w + 1 # n
  <2>1. (w + 1) * b < pos
    BY <1>7, <1>14 DEF Beyond
  <2>2. (w + 1) * b \in Nat /\ n * b \in Nat
    OBVIOUS
  <2>3. (w + 1) * b < n * b
    BY <1>8, <1>9, <2>1, <2>2
  <2> QED
    BY <2>3
<1>15. ASSUME Begins, ~Wrong(crx) PROVE Begins' /\ (w + 1 = n => img' = file)
  <2> DEFINE end == Smaller((w + 1) * b, Len(file))
  <2>1. crx.data = SubSeq(file, w * b + 1, end)
    BY <1>2, <1>5, <1>7, <1>15 DEF Wrong, Slice
  <2>2. w * b \in Nat /\ (w + 1) * b \in Nat /\ w * b <= (w + 1) * b
    BY Multiples
  <2>3. /\ w * b \in 0..Len(file) /\ end \in 0..Len(file) /\ w * b <= end
        /\ Smaller(w * b, Len(file)) = w * b
    BY <1>8, <1>13, <2>2 DEF Smaller
  <2> HIDE DEF end
  <2>4. img = SubSeq(file, 1, w * b)
    BY <1>5, <1>7, <1>15, <2>3 DEF Begins
  <2>5. img' = SubSeq(file, 1, end)
    BY <1>1, <1>2, <2>1, <2>3, <2>4, PrefixGrows
  <2>6. Begins'
    BY <1>3, <1>7, <1>11, <2>5 DEF Begins, end
  <2>7. w + 1 = n => img' = file
    <3>1. w + 1 = n => end = Len(file)
      BY <1>8, <1>9 DEF end, Smaller
    <3>2. SubSeq(file, 1, Len(file)) = file
      <4> DEFINE t == SubSeq(file, 1, Len(file))
      <4>1. t \in Seq(Byte) /\ Len(t) = Len(file) /\ \A k \in 1..Len(t) : t[k] = file[k]
        <5>1. file \in Seq(Byte)
          BY <1>1
        <5>2. t \in Seq(Byte)
          BY <5>1
        <5>3. Len(t) = Len(file)
          BY <5>1
        <5>4. \A k \in 1..Len(file) : t[k] = file[k]
          BY <5>1
        <5> QED
          BY <5>2, <5>3, <5>4
      <4> HIDE DEF t
      <4>2. t = file
        BY <1>1, <4>1, SeqEqual
      <4> QED
        BY <4>2 DEF t
    <3> QED
      BY <2>5, <3>1, <3>2
  <2> QED
    BY <2>6, <2>7
<1>16. ASSUME Doomed PROVE Doomed' /\ w + 1 # n
  <2>1. Beyond(w)
    <3>1. w >= w
      OBVIOUS
    <3> QED
      BY <1>2, <1>4, <1>5, <1>16, <3>1 DEF Doomed
  <2>2. client'.want >= client.want
    BY <1>5, <1>11
  <2>3. Doomed'
    BY <1>1, <1>3, <1>11, <1>16, <2>2, DoomedStays
  <2> QED
    BY <1>14, <2>1, <2>3
<1>17. ASSUME Wrong(crx) PROVE Doomed' /\ w + 1 # n
  <2>1. /\ Ahead /\ Beyond(w) /\ (IsBlock(digest) => Beyond(digest.nbr))
        /\ \A k \in DOMAIN toClient : 1 < k /\ IsBlock(toClient[k]) => Beyond(toClient[k].nbr)
    BY <1>4, <1>13, <1>17 DEF HostInv, AnswersInv
  <2>2. \A i : Beyond(i)' <=> Beyond(i)
    BY <1>3, <1>11 DEF Beyond
  <2>3. ASSUME NEW k \in DOMAIN toClient', IsBlock(toClient'[k]) PROVE Beyond(toClient[k].nbr)'
    BY <1>3, <1>4, <1>11, <2>1, <2>3 DEF Beyond
  <2>4. IsBlock(digest') => Beyond(digest.nbr)'
    BY <1>3, <1>11, <2>1 DEF Beyond, IsBlock
  <2>5. Ahead'
    BY <1>3, <1>11, <2>1 DEF Ahead
  <2>6. Doomed'
    BY <2>3, <2>4, <2>5 DEF Doomed, IsBlock
  <2> QED
    BY <1>14, <2>1, <2>6
<1>18. (Begins' \/ Doomed') /\ (w + 1 = n => img' = file)
  BY <1>9, <1>15, <1>16, <1>17
<1>19. \E f \in Frame : SendsFrame(f)
  <2>1. CASE w + 1 = n
    <3>1. End \in Frame /\ End.cmd = "END"
      BY FramesBuilt DEF End, Signal, Build
    <3>2. toHost' = toHost \o <<End>>
      BY <1>10, <2>1 DEF NextOrEnd
    <3> QED
      BY <1>11, <1>18, <2>1, <3>1, <3>2 DEF SendsFrame
  <2>2. CASE w + 1 # n
    <3>1. BlockReq(w + 1) \in Frame /\ BlockReq(w + 1).cmd = "DOWNLOAD_BLOCK_REQ"
      BY FramesBuilt DEF BlockReq, Build
    <3>2. toHost' = toHost \o <<BlockReq(w + 1)>>
      BY <1>10, <2>2 DEF NextOrEnd
    <3> QED
      BY <1>11, <2>2, <3>1, <3>2 DEF SendsFrame, Early
  <2> QED
    BY <2>1, <2>2
<1>20. Waits'
  BY <1>3, <1>7, <1>9, <1>11, <1>18 DEF Waits
<1>21. (Early' => Early) /\ client.st # "done"
  BY <1>2, <1>11 DEF Early
<1> QED
  BY <1>1, <1>3, <1>11, <1>12, <1>19, <1>20, <1>21, ClientStep

----------------------------------------------------------------------------
(* Theorems *)

\* The invariant that the properties below follow from: blocks, their numbers, the file
\* and what the client has, whatever is lost, repeated or reset.
THEOREM HostInvariant == BSpec => []HostInv
<1>1. BInit => HostInv
  <2> SUFFICES ASSUME BInit PROVE HostInv
    OBVIOUS
  <2>1. file \in Seq(Byte)
    <3>1. <<>> \in Seq(Byte)
      OBVIOUS
    <3> QED
      BY <3>1, FilesAssumption DEF BInit
  <2>2. Len(file) \in Nat
    BY <2>1
  <2>3. client \in Clients /\ client.st = "idle" /\ client.asked = FALSE
    <3>1. PICK bs \in BlockSizes :
            client = [st |-> "idle", want |-> 0, blocks |-> 0, bs |-> bs, asked |-> FALSE]
      BY DEF BInit
    <3> QED
      BY <3>1 DEF Clients
  <2>4. toHost \in Seq(Frame) /\ toClient \in Seq(Frame) /\ img \in Seq(Byte)
        /\ DOMAIN toHost = {} /\ DOMAIN toClient = {}
    BY DEF BInit
  <2>5. /\ dl \in [total_block_nbr : Nat, actual_block_nbr : Nat, block_size : Nat]
        /\ dl.block_size = 0 /\ dl.actual_block_nbr = 0
    BY DEF BInit, NoDownload
  <2>6. BTypeOK
    BY <2>1, <2>2, <2>3, <2>4, <2>5, LegacyBounds DEF BInit, BTypeOK, Clients
  <2>7. client.bs \in Nat
    BY <2>6, Domains
  <2>8. FileInv
    <3>1. 0 * client.bs = 0 /\ 0 \in 0..Len(file)
      BY <2>2, <2>7
    <3> QED
      BY <2>4, <2>5, <3>1 DEF BInit, FileInv
  <2>9. AnswersInv
    BY <2>4 DEF BInit, AnswersInv, FrameInv, IsBlock, NoFrame
  <2>10. ClientInv
    BY <2>3, <2>4 DEF ClientInv, Waits
  <2>11. InOrder
    <3>1. ~Ahead
      <4>1. 0 * client.bs = 0 /\ ~(0 < 0)
        BY <2>7
      <4> QED
        BY <2>5, <4>1 DEF Ahead, BInit
    <3> QED
      BY <2>4, <3>1 DEF BInit, InOrder
  <2> QED
    BY <2>6, <2>8, <2>9, <2>10, <2>11 DEF HostInv, OrderInv
<1>2. HostInv /\ [BNext]_bvars => HostInv'
  <2> SUFFICES ASSUME HostInv, [BNext]_bvars PROVE HostInv'
    OBVIOUS
  <2>1. CASE UNCHANGED bvars
    <3>1. UNCHANGED <<boot, file, pos, state, dl, digest, toHost, toClient, client, img, lost, odd>>
      BY <2>1 DEF bvars, hostVars, clientVars
    <3>2. BTypeOK'
      BY <3>1 DEF HostInv, BTypeOK
    <3>3. FileInv'
      BY <3>1 DEF HostInv, FileInv
    <3>4. Passes
      BY <3>1, NothingPassed DEF HostInv
    <3>5. AnswersInv'
      BY <3>1, <3>4, AnswersPass DEF HostInv
    <3>6. Waits'
      BY <3>1, <3>2, <3>4, StillWaits DEF HostInv, ClientInv, BTypeOK, Clients, Waits
    <3>7. ClientInv'
      BY <3>1, <3>6 DEF HostInv, ClientInv
    <3>8. OrderInv'
      BY <3>1 DEF HostInv, OrderInv, InOrder, Ahead
    <3> QED
      BY <3>2, <3>3, <3>5, <3>7, <3>8 DEF HostInv
  <2>2. CASE BNext
    BY <2>2, QuietRounds, ParamRound, BlockRound, ClientRepeats, ClientRestarts, ClientIsTold,
       ClientTakesBlock DEF BNext, HostReceives, ClientReceives
  <2> QED
    BY <2>1, <2>2
<1> QED
  BY <1>1, <1>2, PTL DEF BSpec

\* Every frame, counter and state of the host has its type.
THEOREM BTypeOK_Correct == BSpec => []BTypeOK
<1>1. HostInv => BTypeOK
  BY DEF HostInv
<1> QED
  BY <1>1, HostInvariant, PTL

\* A block carries the bytes that its number names, unless the client was reset.
THEOREM BlockOfFile_Correct == BSpec => []BlockOfFile
<1>1. HostInv => BlockOfFile
  <2> SUFFICES ASSUME HostInv, "reset" \notin odd, NEW k \in DOMAIN toClient, IsBlock(toClient[k])
               PROVE  toClient[k].data = Slice(toClient[k].nbr)
    BY DEF BlockOfFile, IsBlock, Slice
  <2>1. ~Ahead
    BY DEF HostInv, OrderInv, InOrder
  <2> QED
    BY <2>1 DEF HostInv, AnswersInv, FrameInv, Wrong
<1> QED
  BY <1>1, HostInvariant, PTL

\* The host only reports a completed download when the client has the whole file.
THEOREM CompleteIsWhole_Correct == BSpec => CompleteIsWhole
<1>1. HostInv /\ [BNext]_bvars => [state # "FINISH" /\ state' = "FINISH" /\ ~boot => img = file]_bvars
  <2> SUFFICES ASSUME HostInv, BNext, state # "FINISH", state' = "FINISH", ~boot
               PROVE  img = file
    OBVIOUS
  <2>1. HostOnEnd
    BY DEF BNext, Greets, HostReceives, HostOnHello, HostOnParamReq, HostOnBlockReq,
           HostRefusesBlock, HostOnRetransmit, HostOnOther, HostWaitsForRest, HostOnMore,
           ClientReceives, ClientOnHostHello, ClientOnBootApp, ClientOnDlReq, ClientOnParamRes,
           ClientOnBlockRes, ClientOnOld, ClientTakes, ClientAsksAgain, ClientIsHasty,
           ClientTimesOut, ClientResets, ClientFails, LoseToHost, LoseToClient, hostVars
  <2>2. BTypeOK /\ ClientInv /\ Reads({"END"})
    BY <2>1 DEF HostInv, HostOnEnd
  <2>3. rx.cmd \in {"END"} /\ 1 \in DOMAIN toHost /\ rx = toHost[1]
    BY <2>2, ReadsNext
  <2> QED
    BY <2>2, <2>3 DEF ClientInv
<1> QED
  BY <1>1, HostInvariant, PTL DEF BSpec, CompleteIsWhole

=============================================================================
