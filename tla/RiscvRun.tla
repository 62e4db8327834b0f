------------------------------ MODULE RiscvRun ------------------------------
(***************************************************************************)
(* The main loop of the RISC-V emulator: run_sail and the repetition loop  *)
(* of _main in riscv/supportcoderiscv.py.  The loop executes guest         *)
(* instructions, ticks the emulated clock every PerTick retired            *)
(* instructions, prints a speed figure now and then, and stops when the    *)
(* guest says so, when the instruction limit is reached or when the user   *)
(* presses Ctrl-C, which it looks for on backward jumps.                   *)
(*                                                                         *)
(* The guest is free: an instruction goes to any pc, may or may not        *)
(* retire, may finish the program and may raise an unhandled exception.    *)
(***************************************************************************)
EXTENDS Integers

CONSTANTS
  Pcs,         \* number of program counters of the guest
  Options,     \* command lines: records with the fields of Settings
  KipsPeriod,  \* instructions per speed figure; the code assumes 2^20
  ShowPeriod,  \* instructions between two looks; the code masks with 2^32 - 1
  Iterations,  \* how often _main calls run_sail
  StepWrap     \* bound: without a limit, step numbers are kept modulo this

\* limit: --inst-limit, 0 is no limit; per_tick: --instructions-per-tick, 0
\* turns the clock off; show: --print-kips
Settings == [limit : Nat, per_tick : Nat, show : BOOLEAN]

ASSUME RunAssumption ==
  /\ Pcs \in Nat \ {0}
  /\ Options \subseteq Settings
  /\ KipsPeriod \in Nat \ {0} /\ ShowPeriod \in Nat \ {0}
  /\ ShowPeriod % KipsPeriod = 0
  /\ Iterations \in Nat \ {0}
  /\ StepWrap \in Nat \ {0} /\ StepWrap % ShowPeriod = 0

VARIABLES
  options,    \* the command line
  phase,      \* "loop", "ended" (after the loop), or "exited"
  iteration,  \* i of _main
  pc,
  htif_done,  \* the guest has finished
  htif_code,  \* its exit code: 0 or not
  step_no, insn_cnt, tick,
  ctrlc,      \* SIGINT has arrived
  ticks,      \* clock ticks in this run (history)
  prints,     \* the step numbers at which speed was printed (history)
  status      \* the exit status of the process

vars == <<options, phase, iteration, pc, htif_done, htif_code, step_no, insn_cnt, tick,
          ctrlc, ticks, prints, status>>
guestVars == <<pc, htif_done, htif_code>>

Limit == options.limit
PerTick == options.per_tick
ShowTimes == options.show

Pc == 0 .. Pcs - 1
ResetPc == 0
NoStatus == 1
ExitOk == 0
ExitError == -3
ExitCtrlC == -4

StepCount(n) == IF Limit = 0 THEN n % StepWrap ELSE n

Init ==
  /\ options \in Options
  /\ phase = "loop"
  /\ iteration = 0
  /\ pc = ResetPc
  /\ htif_done = FALSE
  /\ htif_code = 0
  /\ step_no = 0
  /\ insn_cnt = 0
  /\ tick = FALSE
  /\ ctrlc = FALSE
  /\ ticks = 0
  /\ prints = {}
  /\ status = NoStatus

\* mutant of MustStop: one instruction too many
MustStopLate == htif_done \/ ~ (Limit = 0 \/ step_no <= Limit)

\* the test at the head of the loop
MustStop == htif_done \/ ~ (Limit = 0 \/ step_no < Limit)
InLoop == phase = "loop" /\ ~ MustStop

StopLoop ==
  /\ phase = "loop"
  /\ MustStop
  /\ phase' = "ended"
  /\ UNCHANGED <<options, iteration, guestVars, step_no, insn_cnt, tick, ctrlc, ticks,
                 prints, status>>

\* mutant of TickClock: the instruction count goes on
TickClockNoReset ==
  /\ InLoop
  /\ tick
  /\ insn_cnt = PerTick
  /\ ticks' = StepCount(ticks + 1)
  /\ tick' = FALSE
  /\ UNCHANGED <<options, phase, iteration, guestVars, step_no, insn_cnt, ctrlc, prints,
                 status>>

\* a tick that is due to the instruction count: tick_clock, tick_platform
TickClock ==
  /\ InLoop
  /\ tick
  /\ insn_cnt = PerTick
  /\ insn_cnt' = 0
  /\ ticks' = StepCount(ticks + 1)
  /\ tick' = FALSE
  /\ UNCHANGED <<options, phase, iteration, guestVars, step_no, ctrlc, prints, status>>

\* any other tick is due to --print-kips, says the assertion
PrintKips ==
  /\ InLoop
  /\ tick
  /\ insn_cnt # PerTick
  /\ prints' = prints \union {step_no}
  /\ tick' = FALSE
  /\ UNCHANGED <<options, phase, iteration, guestVars, step_no, insn_cnt, ctrlc, ticks,
                 status>>

\* mutant of AfterStep: Ctrl-C is not looked for
AfterStepDeaf(due, backward) ==
  /\ tick' = due
  /\ phase' = "loop"

\* what the loop does with a tick condition that came out as due, and with
\* the backward jumps that are not overshadowed by a tick
AfterStep(due, backward) ==
  /\ tick' = due
  /\ phase' = IF ~ due /\ backward /\ ctrlc THEN "ended" ELSE "loop"

\* mutant of TickDue: the step number is not masked
TickDueUnmasked(step, count) ==
  \/ ShowTimes
  \/ PerTick # 0 /\ count = PerTick

\* tick_cond
TickDue(step, count) ==
  \/ ShowTimes /\ step % ShowPeriod = 0
  \/ PerTick # 0 /\ count = PerTick

Step(next, stepped) ==
  LET step == IF stepped THEN StepCount(step_no + 1) ELSE step_no
      count == IF stepped /\ PerTick # 0 THEN insn_cnt + 1 ELSE insn_cnt
  IN  /\ InLoop
      /\ ~ tick
      /\ pc' = next
      /\ \/ UNCHANGED <<htif_done, htif_code>>
         \/ htif_done' = TRUE /\ htif_code' \in {0, 1}
      /\ step_no' = step
      /\ insn_cnt' = count
      /\ AfterStep(TickDue(step, count), pc >= next)
      /\ UNCHANGED <<options, iteration, ctrlc, ticks, prints, status>>

\* the Sail model threw: ValueError leaves run_sail and _main
StepRaises ==
  /\ InLoop
  /\ ~ tick
  /\ phase' = "exited"
  /\ status' = ExitError
  /\ UNCHANGED <<options, iteration, guestVars, step_no, insn_cnt, tick, ctrlc, ticks,
                 prints>>

\* SIGINT sets a flag that nothing clears
PressCtrlC ==
  /\ ~ ctrlc
  /\ phase # "exited"
  /\ ctrlc' = TRUE
  /\ UNCHANGED <<options, phase, iteration, guestVars, step_no, insn_cnt, tick, ticks,
                 prints, status>>

\* after the loop: ExitNow if Ctrl-C was pressed
ReportCtrlC ==
  /\ phase = "ended"
  /\ ctrlc
  /\ phase' = "exited"
  /\ status' = ExitCtrlC
  /\ UNCHANGED <<options, iteration, guestVars, step_no, insn_cnt, tick, ctrlc, ticks,
                 prints>>

\* mutant of FinishIteration: one iteration too many
FinishIterationLate ==
  /\ phase = "ended"
  /\ ~ ctrlc
  /\ IF iteration > 0
     THEN pc' = ResetPc /\ htif_done' = FALSE /\ htif_code' = 0
     ELSE UNCHANGED guestVars
  /\ iteration' = iteration + 1
  /\ IF iteration < Iterations
     THEN /\ phase' = "loop"
          /\ step_no' = 0 /\ insn_cnt' = 0 /\ tick' = FALSE
          /\ ticks' = 0 /\ prints' = {}
          /\ UNCHANGED status
     ELSE /\ phase' = "exited"
          /\ status' = ExitOk
          /\ UNCHANGED <<step_no, insn_cnt, tick, ticks, prints>>
  /\ UNCHANGED <<options, ctrlc>>

\* mutant of FinishIteration: the iterations are not counted
FinishIterationForgets ==
  /\ phase = "ended"
  /\ ~ ctrlc
  /\ IF iteration > 0
     THEN pc' = ResetPc /\ htif_done' = FALSE /\ htif_code' = 0
     ELSE UNCHANGED guestVars
  /\ iteration' = iteration
  /\ IF iteration + 1 < Iterations
     THEN /\ phase' = "loop"
          /\ step_no' = 0 /\ insn_cnt' = 0 /\ tick' = FALSE
          /\ ticks' = 0 /\ prints' = {}
          /\ UNCHANGED status
     ELSE /\ phase' = "exited"
          /\ status' = ExitOk
          /\ UNCHANGED <<step_no, insn_cnt, tick, ticks, prints>>
  /\ UNCHANGED <<options, ctrlc>>

\* after the loop without Ctrl-C: SUCCESS or FAILURE is printed, init_sail
\* follows unless this was the first iteration, then the next iteration
FinishIteration ==
  /\ phase = "ended"
  /\ ~ ctrlc
  /\ IF iteration > 0
     THEN pc' = ResetPc /\ htif_done' = FALSE /\ htif_code' = 0
     ELSE UNCHANGED guestVars
  /\ iteration' = iteration + 1
  /\ IF iteration + 1 < Iterations
     THEN /\ phase' = "loop"
          /\ step_no' = 0 /\ insn_cnt' = 0 /\ tick' = FALSE
          /\ ticks' = 0 /\ prints' = {}
          /\ UNCHANGED status
     ELSE /\ phase' = "exited"
          /\ status' = ExitOk
          /\ UNCHANGED <<step_no, insn_cnt, tick, ticks, prints>>
  /\ UNCHANGED <<options, ctrlc>>

Emulator ==
  \/ StopLoop
  \/ TickClock
  \/ PrintKips
  \/ \E next \in Pc, stepped \in BOOLEAN : Step(next, stepped)
  \/ StepRaises
  \/ ReportCtrlC
  \/ FinishIteration

Next == Emulator \/ PressCtrlC

\* the emulator is one thread that is never blocked
Spec == Init /\ [][Next]_vars /\ WF_vars(Emulator)

\* instructions may also not retire (wfi)
Retire == \E next \in Pc : Step(next, TRUE)

-----------------------------------------------------------------------------
(***************************************************************************)
(* Properties.                                                             *)
(***************************************************************************)

\* The type invariant of the run loop.
TypeOK ==
  /\ options \in Options
  /\ phase \in {"loop", "ended", "exited"}
  /\ iteration \in 0 .. Iterations
  /\ pc \in Pc
  /\ htif_done \in BOOLEAN /\ htif_code \in {0, 1}
  /\ step_no \in Nat /\ insn_cnt \in 0 .. PerTick
  /\ tick \in BOOLEAN /\ ctrlc \in BOOLEAN
  /\ ticks \in Nat /\ prints \subseteq Nat
  /\ status \in {NoStatus, ExitOk, ExitError, ExitCtrlC}

\* The clock is exact: every PerTick retired instructions are one clock tick,
\* none is lost or done twice, whether or not speed figures are printed and
\* whichever instructions did not retire (only a run that ends with a tick
\* pending does not perform it).
ClockIsExact ==
  PerTick # 0 /\ phase # "exited" =>
    /\ step_no = ticks * PerTick + insn_cnt
    /\ insn_cnt = PerTick => tick

\* The assertion in the loop (line 724) holds: a tick that is not a clock
\* tick was asked for by --print-kips, at a multiple of 2^20 instructions.
KipsAssertion ==
  InLoop /\ tick /\ insn_cnt # PerTick =>
    ShowTimes /\ step_no % KipsPeriod = 0

\* The loop never ends without a reason, and the limit is met exactly, also
\* when it coincides with a tick or with Ctrl-C.
EndsForAReason ==
  /\ Limit # 0 => step_no <= Limit
  /\ phase = "ended" => htif_done \/ ctrlc \/ (Limit # 0 /\ step_no = Limit)

\* --inst-limit, "exit after limit instructions have been executed": if the
\* guest keeps retiring instructions, the process ends, in every iteration.
\* (A guest may wait for ever, so that this is no fairness of the emulator.)
LimitStops == SF_vars(Retire) /\ Limit # 0 => <>(phase = "exited")

\* "CTRL-C was pressed": the emulator exits (lines 573, 752).
CtrlCStops == ctrlc ~> phase = "exited"

\* The same for an emulator that makes no ticks: they are what keeps the loop
\* from looking for the signal.
CtrlCStopsWithoutTicks == PerTick = 0 /\ ~ ShowTimes => CtrlCStops
=============================================================================
