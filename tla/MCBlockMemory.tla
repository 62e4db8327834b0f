--------------------------- MODULE MCBlockMemory ---------------------------
(***************************************************************************)
(* BlockMemory with two blocks of two bytes, a byte being a bit: an        *)
(* unaligned two-byte access spans both blocks.                            *)
(***************************************************************************)
EXTENDS BlockMemory

MCByte == {0, 1}
MCSizes == {1, 2}
=============================================================================
