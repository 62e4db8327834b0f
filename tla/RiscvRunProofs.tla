--------------------------- MODULE RiscvRunProofs ---------------------------
(***************************************************************************)
(* Proofs about the run loop, for guests of any size and all settings of   *)
(* the emulator.                                                           *)
(***************************************************************************)
EXTENDS RiscvRun, TLAPS

(***************************************************************************)
(* The settings, which no step changes.                                    *)
(***************************************************************************)

USE DEF Limit, PerTick, ShowTimes

LEMMA SettingsTyped ==
  ASSUME options \in Options
  PROVE  /\ options \in Settings
         /\ Limit \in Nat /\ PerTick \in Nat /\ ShowTimes \in BOOLEAN
BY RunAssumption DEF Settings

(***************************************************************************)
(* Counting.                                                               *)
(***************************************************************************)

LEMMA StepCountInNat ==
  ASSUME NEW n \in Nat
  PROVE  StepCount(n) \in Nat
BY RunAssumption DEF StepCount

LEMMA MultipleOfMultiple ==
  ASSUME NEW a \in Nat, NEW b \in Nat \ {0}, NEW c \in Nat \ {0},
         a % b = 0, b % c = 0
  PROVE  a % c = 0
<1> DEFINE q == a \div b
           r == b \div c
<1>1. q \in Nat /\ r \in Nat
  OBVIOUS
<1>2. a = b * q
  OBVIOUS
<1>3. b = c * r
  OBVIOUS
<1> HIDE DEF q, r
<1>4. a = c * (r * q)
  BY <1>1, <1>2, <1>3
<1>5. r * q \in Nat
  BY <1>1
<1>6. \A k \in Nat : (c * k) % c = 0
  OBVIOUS
<1> QED BY <1>4, <1>5, <1>6

-----------------------------------------------------------------------------
(***************************************************************************)
(* The inductive invariant.  The run loop may test the instruction count   *)
(* for equality, and not for having got past the end of a tick, because it *)
(* never starts a step with a tick pending, and a full count always comes  *)
(* with one.                                                               *)
(***************************************************************************)

FullCountTicks ==
  phase # "exited" /\ PerTick # 0 /\ insn_cnt = PerTick => tick

OtherTicksAreKips ==
  phase = "loop" /\ tick /\ insn_cnt # PerTick =>
    ShowTimes /\ step_no % ShowPeriod = 0

RunInv ==
  /\ TypeOK
  /\ phase # "exited" => iteration < Iterations
  /\ FullCountTicks
  /\ OtherTicksAreKips
  /\ EndsForAReason

LEMMA ResetPcInPc == ResetPc \in Pc
BY RunAssumption DEF ResetPc, Pc

LEMMA RunInvInit == Init => RunInv
<1> SUFFICES ASSUME Init PROVE RunInv
  OBVIOUS
<1>1. TypeOK
  <2>1. 0 \in 0 .. PerTick /\ 0 \in 0 .. Iterations /\ 0 \in Nat
    BY RunAssumption, SettingsTyped DEF Init
  <2>2. pc \in Pc /\ ticks \in Nat /\ prints \subseteq Nat
    BY <2>1, ResetPcInPc DEF Init
  <2> QED BY <2>1, <2>2 DEF Init, TypeOK
<1>2. iteration < Iterations
  BY RunAssumption DEF Init
<1>3. FullCountTicks /\ OtherTicksAreKips /\ EndsForAReason
  BY RunAssumption, SettingsTyped
     DEF Init, FullCountTicks, OtherTicksAreKips, EndsForAReason
<1> QED BY <1>1, <1>2, <1>3 DEF RunInv

\* One step of the emulated machine: the case in which counts are advanced.
LEMMA StepPreserves ==
  ASSUME RunInv, NEW next \in Pc, NEW stepped \in BOOLEAN, Step(next, stepped)
  PROVE  RunInv'
<1> DEFINE step == IF stepped THEN StepCount(step_no + 1) ELSE step_no
           count == IF stepped /\ PerTick # 0 THEN insn_cnt + 1 ELSE insn_cnt
<1>1. /\ phase = "loop" /\ ~ tick /\ ~ htif_done
      /\ Limit # 0 => step_no < Limit
  BY DEF Step, InLoop, MustStop
<1>2. /\ step_no' = step /\ insn_cnt' = count
      /\ UNCHANGED <<options, iteration, ctrlc, ticks, prints, status>>
      /\ pc' = next
      /\ \/ UNCHANGED <<htif_done, htif_code>>
         \/ htif_done' = TRUE /\ htif_code' \in {0, 1}
      /\ tick' = TickDue(step, count)
      /\ phase' \in {"loop", "ended"}
      /\ phase' = "ended" => ctrlc
  BY DEF Step, AfterStep
<1>3. /\ step_no \in Nat /\ insn_cnt \in 0 .. PerTick
      /\ Limit \in Nat /\ PerTick \in Nat /\ ShowTimes \in BOOLEAN
  BY SettingsTyped DEF RunInv, TypeOK
<1>4. step \in Nat
  BY <1>3, StepCountInNat
<1>5. count \in 0 .. PerTick
  <2>1. PerTick # 0 => insn_cnt # PerTick
    BY <1>1 DEF RunInv, FullCountTicks
  <2> QED BY <1>3, <2>1
<1>6. Limit # 0 => step <= Limit
  BY <1>1, <1>3, RunAssumption DEF StepCount
<1>7. tick' \in BOOLEAN
  BY <1>2, <1>3 DEF TickDue
<1> HIDE DEF step, count
<1>8. TypeOK'
  BY <1>2, <1>4, <1>5, <1>7 DEF RunInv, TypeOK
<1>9. phase' # "exited" => iteration' < Iterations
  BY <1>1, <1>2 DEF RunInv
<1>10. FullCountTicks' /\ OtherTicksAreKips'
  BY <1>2 DEF FullCountTicks, OtherTicksAreKips, TickDue
<1>11. EndsForAReason'
  BY <1>2, <1>6 DEF EndsForAReason
<1> QED BY <1>8, <1>9, <1>10, <1>11 DEF RunInv

LEMMA RunInvNext ==
  ASSUME RunInv, [Next]_vars
  PROVE  RunInv'
<1> USE RunAssumption
        DEF RunInv, TypeOK, FullCountTicks, OtherTicksAreKips, EndsForAReason,
            guestVars
<1>1. CASE StopLoop
  BY <1>1, SettingsTyped DEF StopLoop, MustStop
<1>2. CASE TickClock
  <2>1. /\ ticks' = StepCount(ticks + 1) /\ insn_cnt' = 0 /\ tick' = FALSE
        /\ UNCHANGED <<options, phase, iteration, guestVars, step_no, ctrlc, prints,
                       status>>
    BY <1>2 DEF TickClock
  <2>2. ticks' \in Nat
    BY <2>1, StepCountInNat
  <2>3. 0 \in 0 .. PerTick
    BY SettingsTyped
  <2> QED BY <2>1, <2>2, <2>3
<1>3. CASE PrintKips
  BY <1>3 DEF PrintKips, InLoop
<1>4. CASE \E next \in Pc, stepped \in BOOLEAN : Step(next, stepped)
  BY <1>4, StepPreserves
<1>5. CASE StepRaises
  BY <1>5 DEF StepRaises, ExitError
<1>6. CASE ReportCtrlC
  BY <1>6 DEF ReportCtrlC, ExitCtrlC
<1>7. CASE FinishIteration
  <2>1. iteration \in 0 .. Iterations /\ iteration < Iterations
    BY <1>7 DEF FinishIteration
  <2>2. /\ pc' \in Pc /\ htif_done' \in BOOLEAN /\ htif_code' \in {0, 1}
        /\ iteration' = iteration + 1 /\ ctrlc' = ctrlc /\ options' = options
    BY <1>7, ResetPcInPc DEF FinishIteration
  <2>3. 0 \in 0 .. PerTick /\ iteration + 1 \in 0 .. Iterations
    BY <2>1, SettingsTyped
  <2>4. CASE iteration + 1 < Iterations
    <3>1. /\ phase' = "loop" /\ step_no' = 0 /\ insn_cnt' = 0 /\ tick' = FALSE
          /\ ticks' = 0 /\ prints' = {} /\ status' = status
      BY <1>7, <2>4 DEF FinishIteration
    <3>2. TypeOK'
      <4>1. 0 \in Nat /\ {} \subseteq Nat
        OBVIOUS
      <4> QED BY <2>2, <2>3, <3>1, <4>1
    <3>3. FullCountTicks' /\ OtherTicksAreKips'
      BY <3>1
    <3>4. EndsForAReason' /\ iteration' < Iterations
      BY <2>2, <2>4, <3>1, SettingsTyped
    <3> QED BY <3>2, <3>3, <3>4
  <2>5. CASE ~ (iteration + 1 < Iterations)
    <3>1. /\ phase' = "exited" /\ status' = ExitOk
          /\ UNCHANGED <<step_no, insn_cnt, tick, ticks, prints>>
      BY <1>7, <2>5 DEF FinishIteration
    <3>2. TypeOK'
      BY <2>2, <2>3, <3>1
    <3>3. /\ FullCountTicks' /\ OtherTicksAreKips' /\ EndsForAReason'
          /\ phase' # "exited" => iteration' < Iterations
      BY <2>2, <3>1
    <3> QED BY <3>2, <3>3
  <2> QED BY <2>4, <2>5
<1>8. CASE PressCtrlC
  BY <1>8 DEF PressCtrlC
<1>9. CASE UNCHANGED vars
  BY <1>9 DEF vars
<1> QED
  BY <1>1, <1>2, <1>3, <1>4, <1>5, <1>6, <1>7, <1>8, <1>9 DEF Next, Emulator

LEMMA RunInvariant == Spec => []RunInv
<1>1. RunInv /\ [Next]_vars => RunInv'
  BY RunInvNext
<1> QED BY RunInvInit, <1>1, PTL DEF Spec

\* The variables of the run loop have their types; in particular the
\* instruction count never gets past the length of a tick (line 742).
THEOREM RunTypeCorrect == Spec => []TypeOK
<1>1. RunInv => TypeOK
  BY DEF RunInv
<1> QED BY RunInvariant, <1>1, PTL

\* The assertion at line 724 holds, for every length of a tick, also when
\* speed figures and clock ticks are due together.
THEOREM KipsAssertionHolds == Spec => []KipsAssertion
<1>1. RunInv => KipsAssertion
  <2> SUFFICES ASSUME RunInv, InLoop, tick, insn_cnt # PerTick
               PROVE  ShowTimes /\ step_no % KipsPeriod = 0
    BY DEF KipsAssertion
  <2>1. ShowTimes /\ step_no % ShowPeriod = 0
    BY DEF RunInv, OtherTicksAreKips, InLoop
  <2>2. step_no \in Nat
    BY DEF RunInv, TypeOK
  <2> QED BY <2>1, <2>2, MultipleOfMultiple, RunAssumption
<1> QED BY RunInvariant, <1>1, PTL

\* The loop ends for a reason, and never executes more instructions than the
\* limit (line 715).
THEOREM EndsForAReasonHolds == Spec => []EndsForAReason
<1>1. RunInv => EndsForAReason
  BY DEF RunInv
<1> QED BY RunInvariant, <1>1, PTL

-----------------------------------------------------------------------------
(***************************************************************************)
(* The clock.  With a limit, steps are counted without a bound.            *)
(***************************************************************************)

ClockInv ==
  PerTick # 0 /\ phase # "exited" => step_no = ticks * PerTick + insn_cnt

LEMMA ClockInvNext ==
  ASSUME Limit # 0, RunInv, ClockInv, [Next]_vars
  PROVE  ClockInv'
<1>1. /\ step_no \in Nat /\ ticks \in Nat /\ insn_cnt \in Nat /\ PerTick \in Nat
  BY SettingsTyped DEF RunInv, TypeOK
<1>2. \A n \in Nat : StepCount(n) = n
  BY DEF StepCount
<1> USE DEF ClockInv, guestVars
<1>3. CASE StopLoop
  BY <1>3 DEF StopLoop
<1>4. CASE TickClock
  <2>1. /\ ticks' = ticks + 1 /\ insn_cnt = PerTick /\ insn_cnt' = 0
        /\ step_no' = step_no /\ phase = "loop" /\ options' = options
    BY <1>1, <1>2, <1>4 DEF TickClock, InLoop
  <2>2. (ticks + 1) * PerTick + 0 = ticks * PerTick + PerTick
    BY <1>1
  <2> QED BY <2>1, <2>2
<1>5. CASE PrintKips
  BY <1>5 DEF PrintKips
<1>6. ASSUME NEW next \in Pc, NEW stepped \in BOOLEAN, Step(next, stepped)
      PROVE  ClockInv'
  <2>1. /\ phase = "loop"
        /\ ticks' = ticks /\ options' = options
        /\ step_no' = IF stepped THEN step_no + 1 ELSE step_no
        /\ insn_cnt' = IF stepped /\ PerTick # 0 THEN insn_cnt + 1 ELSE insn_cnt
    BY <1>1, <1>2, <1>6 DEF Step, InLoop
  <2>2. ticks * PerTick \in Nat
    BY <1>1
  <2> QED BY <1>1, <2>1, <2>2
<1>7. CASE StepRaises
  BY <1>7 DEF StepRaises
<1>8. CASE ReportCtrlC
  BY <1>8 DEF ReportCtrlC
<1>9. CASE FinishIteration
  BY <1>1, <1>9 DEF FinishIteration
<1>10. CASE PressCtrlC
  BY <1>10 DEF PressCtrlC
<1>11. CASE UNCHANGED vars
  BY <1>11 DEF vars
<1> QED
  BY <1>3, <1>4, <1>5, <1>6, <1>7, <1>8, <1>9, <1>10, <1>11 DEF Next, Emulator

\* If the instructions are limited, every PerTick retired instructions are one tick of the emulated clock
\* (lines 719 to 722 and 739 to 745): none is lost or made twice, however
\* clock ticks, speed figures and steps that do not retire come together.
THEOREM ClockExact ==
  ASSUME \A o \in Options : o.limit # 0
  PROVE  Spec => []ClockIsExact
<1>1. Init => ClockInv
  BY RunAssumption, SettingsTyped DEF Init, ClockInv
<1>2. RunInv /\ ClockInv /\ [Next]_vars => ClockInv'
  BY ClockInvNext DEF RunInv, TypeOK
<1>3. RunInv /\ ClockInv => ClockIsExact
  BY DEF RunInv, FullCountTicks, ClockInv, ClockIsExact
<1> QED BY RunInvariant, <1>1, <1>2, <1>3, PTL DEF Spec
=============================================================================
