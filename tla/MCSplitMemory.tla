--------------------------- MODULE MCSplitMemory ---------------------------
(***************************************************************************)
(* SplitMemory with 4-bit addresses, two segments of one two-byte word and *)
(* a bit for a byte.  Addresses 8 .. 15 are the huge ones.                 *)
(***************************************************************************)
EXTENDS SplitMemory

MCByte == {0, 1}
MCSizes == {1, 2}
=============================================================================
