--------------------------- MODULE MCValueMachine ---------------------------
(***************************************************************************)
(* ValueMachine for TLC: the constants are given by the configurations.    *)
(***************************************************************************)
EXTENDS ValueMachine
=============================================================================
