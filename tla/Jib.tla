--------------------------------- MODULE Jib ---------------------------------
(***************************************************************************)
(* The functions of a Sail model as the Sail compiler hands them over      *)
(* (JIB, the classes of pydrofoil/parse.py) and what they compute.         *)
(*                                                                         *)
(* Numbers are machine integers below Modulus; Booleans are 0 and 1.  The  *)
(* functions that are called are mix, a pure one; eq and not; assert; step *)
(* of which only the effect is known: it moves a register on and throws    *)
(* if its argument is 0; and the functions of the model, by name.          *)
(***************************************************************************)
EXTENDS Integers, SequencesExt

CONSTANTS
  Modulus,  \* bound: numbers are 0 .. Modulus - 1
  Fuel      \* bound: jumps a run may make before it counts as endless

ASSUME JibAssumption == Modulus \in Nat \ {0, 1} /\ Fuel \in Nat

(***************************************************************************)
(* Values.  Constants with the same value are the same here.               *)
(***************************************************************************)

MachineIntConstant(n) == <<"int", n>>
BooleanConstant(b) == <<"bool", b>>
DefaultValue(type) == <<"default", type>>
UnitConstant == <<"unit", 0>>
True == BooleanConstant(1)
False == BooleanConstant(0)
Var(name) == <<"var", name>>

\* what the code that is made for a constant evaluates to
Uninitialized == -1
ConstantValue(v) ==
  IF v[1] # "default" THEN v[2] ELSE IF v[2] = "int" THEN Uninitialized ELSE 0

(***************************************************************************)
(* Instructions.  A program has args (names and types), the type of its    *)
(* result, and code.                                                       *)
(***************************************************************************)

Declare(var, type) == [do |-> "declare", var |-> var, type |-> type]
Call(var, name, args, type) ==
  [do |-> "call", var |-> var, name |-> name, args |-> args, type |-> type]
Assign(var, value, type) == [do |-> "assign", var |-> var, value |-> value, type |-> type]
\* the condition is a value ("is"), or a comparison of values
JumpIf(value, target) == [do |-> "jump", name |-> "is", args |-> <<value>>, target |-> target]
JumpOn(name, args, target) == [do |-> "jump", name |-> name, args |-> args, target |-> target]
GotoPc(target) == [do |-> "goto", target |-> target]
End == [do |-> "end"]
Arbitrary == [do |-> "arbitrary"]
Exit == [do |-> "exit"]

(***************************************************************************)
(* Runs.                                                                   *)
(***************************************************************************)

Unset == -2  \* nothing has been computed

StartMemory(reg) == [reg |-> reg, have_exception |-> 0]
Ended(how, v, memory) == [how |-> how, value |-> v, memory |-> memory]
Returned(v, memory) == Ended("returned", v, memory)

PureFunctions == {"mix", "eq", "not"}

\* mix stands for a function of which nothing is known but that it is pure
PureResult(name, args) ==
  CASE name = "mix" -> (args[1] + 2 * args[2] + 1) % Modulus
    [] name = "eq" -> IF args[1] = args[2] THEN 1 ELSE 0
    [] name = "not" -> 1 - args[1]

StepMemory(memory, arg) ==
  [reg |-> (memory.reg + arg + 2) % Modulus,
   have_exception |-> IF arg = 0 THEN 1 ELSE memory.have_exception]

ReadVar(env, memory, v) ==
  IF v[1] # "var" THEN ConstantValue(v)
  ELSE IF v[2] \in DOMAIN env THEN env[v[2]] ELSE memory[v[2]]

StartEnv(program, inputs) ==
  [x \in {arg.name : arg \in Range(program.args)} |->
     inputs[CHOOSE i \in DOMAIN program.args : program.args[i].name = x]]
  @@ ("return" :> ConstantValue(DefaultValue(program.result)))

RECURSIVE RunJib(_, _, _, _, _, _)

\* functions: the other functions of the model
CallResult(functions, name, args, memory, fuel) ==
  CASE Unset \in Range(args) -> Ended("undefined", Unset, memory)
    [] Unset \notin Range(args) /\ name \in PureFunctions ->
         Returned(PureResult(name, args), memory)
    [] name = "step" -> Returned(memory.reg, StepMemory(memory, args[1]))
    [] name = "assert" -> IF args[1] = 1 THEN Returned(0, memory)
                                         ELSE Ended("raised", Unset, memory)
    [] name \in DOMAIN functions ->
         RunJib(functions, functions[name], 1, StartEnv(functions[name], args), memory, fuel)

\* the state after i.var got the value of the result r
Stored(env, i, r) ==
  IF i.var \in DOMAIN env THEN <<[env EXCEPT ![i.var] = r.value], r.memory>>
                          ELSE <<env, [r.memory EXCEPT ![i.var] = r.value]>>

RunJib(functions, program, pc, env, memory, fuel) ==
  LET i == program.code[pc]
      go(target, e, m, f) == RunJib(functions, program, target, e, m, f)
      args == [k \in DOMAIN i.args |-> ReadVar(env, memory, i.args[k])]
      result == IF i.do = "call" THEN CallResult(functions, i.name, args, memory, fuel)
                ELSE Returned(ReadVar(env, memory, i.value), memory)
      target == CASE i.do = "goto" -> i.target
                  [] i.do = "jump" ->
                       IF (IF i.name = "is" THEN args[1] ELSE PureResult(i.name, args)) = 1
                       THEN i.target ELSE pc + 1
  IN  CASE i.do = "declare" ->
             go(pc + 1, (i.var :> ConstantValue(DefaultValue(i.type))) @@ env, memory, fuel)
        [] i.do \in {"call", "assign"} ->
             LET r == result
                 s == Stored(env, i, r)
             IN  IF r.how = "returned" THEN go(pc + 1, s[1], s[2], fuel) ELSE r
        [] i.do \in {"jump", "goto"} ->
             IF fuel = 0 THEN Ended("endless", Unset, memory)
                         ELSE go(target, env, memory, fuel - 1)
        [] i.do = "end" -> Returned(env["return"], memory)
        [] i.do = "arbitrary" -> Returned(ConstantValue(DefaultValue(program.result)), memory)
        [] i.do = "exit" -> Ended("raised", Unset, memory)

JibResult(functions, program, inputs, reg) ==
  RunJib(functions, program, 1, StartEnv(program, inputs), StartMemory(reg), Fuel)
=============================================================================
