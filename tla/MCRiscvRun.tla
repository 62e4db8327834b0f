----------------------------- MODULE MCRiscvRun -----------------------------
(***************************************************************************)
(* RiscvRun for TLC: the constants are given by the configurations.        *)
(***************************************************************************)
EXTENDS RiscvRun

\* a limit with ticks of both kinds; none of them
MCOptions ==
  {[limit |-> 7, per_tick |-> 3, show |-> TRUE],
   [limit |-> 0, per_tick |-> 0, show |-> FALSE]}

\* clock ticks, but no limit
MCOptionsTick == {[limit |-> 0, per_tick |-> 2, show |-> FALSE]}
=============================================================================
