------------------------------ MODULE MCEzmPp ------------------------------
(***************************************************************************)
(* Small instances of EzmPp for TLC.  With blocks of two bytes the images  *)
(* are empty, shorter than a block, exactly one block, a block and a half, *)
(* exactly two blocks, and larger than a partition.                        *)
(***************************************************************************)
EXTENDS EzmPpTransfer

CONSTANTS a, b

MCImages == {<<>>, <<a>>, <<a, b>>, <<b, a, b>>, <<a, b, b, a>>, <<b, b, a, a, b>>}

\* Two images suffice where histories are long: one of two blocks, one short.
FewImages == {<<b, a, b>>, <<a>>}

=============================================================================
