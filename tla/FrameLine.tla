----------------------------- MODULE FrameLine -----------------------------
(***************************************************************************)
(* What a receive path owes the protocol above it, whatever threads,       *)
(* interrupts and buffers it is made of: the frames it hands over are      *)
(* frames that were sent, whole, in the order they were sent, none twice.  *)
(* EzmPp takes this for granted of the line in both directions.            *)
(***************************************************************************)
EXTENDS Integers, Sequences

CONSTANT Lossy  \* whether frames may be missing among those handed over

VARIABLES
  sent,   \* how many frames were sent; the k-th of them is called k
  taken   \* the frames handed over, oldest first

lvars == <<sent, taken>>

Last == IF taken = <<>> THEN 0 ELSE taken[Len(taken)]

Init == sent = 0 /\ taken = <<>>

Send == sent' = sent + 1 /\ UNCHANGED taken

Take ==
  /\ \E k \in (Last + 1)..sent :
       /\ Lossy \/ k = Last + 1
       /\ taken' = Append(taken, k)
  /\ UNCHANGED sent

Next == Send \/ Take

Spec == Init /\ [][Next]_lvars

============================================================================
