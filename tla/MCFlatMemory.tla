---------------------------- MODULE MCFlatMemory ----------------------------
(***************************************************************************)
(* FlatMemory with words of two bytes and bits for bytes: an unaligned     *)
(* two-byte access spans both words.                                       *)
(***************************************************************************)
EXTENDS FlatMemory

MCByte == {0, 1}
MCSizes == {1, 2}
=============================================================================
