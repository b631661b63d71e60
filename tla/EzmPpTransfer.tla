--------------------------- MODULE EzmPpTransfer ---------------------------
(***************************************************************************)
(* The host, the device and the line between them implement ImageTransfer. *)
(***************************************************************************)
EXTENDS EzmPp

\* A job is active while cmd_load loops; afterwards its report is its outcome.
TransferJob ==
  IF cmd = "load" THEN "active"
  ELSE IF report \in {"ok", "error"} THEN report ELSE "idle"

Transfer == INSTANCE ImageTransfer WITH
  job <- TransferJob, target <- idx, image <- file, stored <- flash

\* Every behaviour of the two programs over the line is, seen from the operator
\* and the flash, a behaviour of the abstract image transfer.
ImplementsTransfer == Transfer!Spec

============================================================================
