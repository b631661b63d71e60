-------------------------- MODULE MCBootloaderHost --------------------------
(***************************************************************************)
(* Small instances of BootloaderHost for TLC: files that are empty, end    *)
(* with a whole and with a part of a block of one or two bytes, and have   *)
(* up to four blocks.                                                      *)
(***************************************************************************)
EXTENDS BootloaderHost

CONSTANTS a, b

MCFiles == {<<>>, <<a>>, <<a, b>>, <<b, a, a>>, <<a, b, b, a>>}

=============================================================================
