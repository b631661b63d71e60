--------------------------- MODULE ImageTransfer ---------------------------
(***************************************************************************)
(* What cmd_load of src/src/app_production.c promises its operator, with   *)
(* no host, device, protocol or line: a job copies an image into a target  *)
(* partition front to back, touches no other partition, and succeeds only  *)
(* when the partition holds the image.  A job may fail, or never end.      *)
(***************************************************************************)
EXTENDS Integers, Sequences

CONSTANTS Byte, ImgIndex, Parts

VARIABLES
  job,     \* "idle", "active", or how the last job ended: "ok", "error"
  target,  \* the index the job was given
  image,   \* what is to be copied
  stored   \* the contents of each partition

tvars == <<job, target, image, stored>>

Init ==
  /\ job = "idle" /\ target \in ImgIndex /\ image = <<>>
  /\ stored = [p \in Parts |-> <<>>]

\* Between jobs the operator chooses an image and a target.
Choose ==
  /\ job' = "idle" /\ target' \in ImgIndex /\ image' \in Seq(Byte)
  /\ UNCHANGED stored

Begin ==
  /\ job # "active" /\ job' = "active" /\ target' \in ImgIndex
  /\ UNCHANGED <<image, stored>>

Erase ==
  /\ job = "active" /\ target \in Parts
  /\ stored' = [stored EXCEPT ![target] = <<>>]
  /\ UNCHANGED <<job, target, image>>

\* The target holds the first n bytes of the image, and then more of them.
Extend ==
  /\ job = "active" /\ target \in Parts
  /\ \E n \in 0..Len(image), k \in 1..Len(image) :
       /\ n + k <= Len(image)
       /\ stored[target] = SubSeq(image, 1, n)
       /\ stored' = [stored EXCEPT ![target] = SubSeq(image, 1, n + k)]
  /\ UNCHANGED <<job, target, image>>

Succeed ==
  /\ job = "active" /\ target \in Parts /\ stored[target] = image
  /\ job' = "ok"
  /\ UNCHANGED <<target, image, stored>>

Fail ==
  /\ job = "active" /\ job' = "error"
  /\ UNCHANGED <<target, image, stored>>

Next == Choose \/ Begin \/ Erase \/ Extend \/ Succeed \/ Fail

Spec == Init /\ [][Next]_tvars

============================================================================
