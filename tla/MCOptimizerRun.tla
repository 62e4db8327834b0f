--------------------------- MODULE MCOptimizerRun ---------------------------
(***************************************************************************)
(* OptimizerRun for TLC: the constants are given by the configurations.    *)
(***************************************************************************)
EXTENDS OptimizerRun

MCValues == {0, 1, 6, 8, 15, 21}
MCNumbers == {-9, -8, -1, 0, 3, 7}
MCLiterals == {-2, 0, 1, 2}
=============================================================================
