-------------------------- MODULE ClearableMemory --------------------------
(***************************************************************************)
(* What a memory promises that is used for several runs: the program of    *)
(* each run sees a plain array of bytes, and every run starts from zeros,  *)
(* with nothing left of what an earlier run stored.                        *)
(***************************************************************************)
EXTENDS GuestMemory

VARIABLE runs    \* how many runs have ended

ClearableInit == Init /\ runs = 0

\* the next run begins, and with it a memory of zeros
NextRun ==
  /\ request = NoRequest
  /\ runs' = runs + 1
  /\ bytes' = [a \in Backed |-> 0]
  /\ UNCHANGED <<request, result>>

ClearableNext == (Next /\ UNCHANGED runs) \/ NextRun

ClearableSpec == ClearableInit /\ [][ClearableNext]_<<vars, runs>>
=============================================================================
