----------------------------- MODULE CompileRun -----------------------------
(***************************************************************************)
(* The functions of a model are compiled one after the other: a graph is   *)
(* made for each (construct_ir), the passes run over it until a round      *)
(* changes nothing (light_simplify), and a graph that is small enough is   *)
(* inlined where a later function calls it (Function.make_code).  The code *)
(* of a function is made when its graph is finished; in Pydrofoil, after   *)
(* all graphs are, which makes no difference: a graph is copied where it   *)
(* is inlined.                                                             *)
(***************************************************************************)
EXTENDS CodeEmission

CONSTANTS
  Models,   \* sequences of [name, program]: functions in the order of the model
  Inputs,   \* the numbers functions are run with
  Registers,  \* the numbers the register may hold
  MaxRounds   \* bound: rounds of passes

VARIABLES
  model,      \* the functions to be compiled
  at,         \* how many of them were, and the pass that runs next
  graph,      \* the graph of the function that is being compiled
  changed,    \* whether a pass of this round changed it
  rounds,     \* rounds of passes over this function
  emitted,    \* the code of the function that was just finished
  inlinable,  \* codegen.inlinable_functions
  meaning     \* what the function computes, for all inputs and registers

vars == <<model, at, graph, changed, rounds, emitted, inlinable, meaning>>

NoGraph == [start |-> 0]
NoneEmitted == [g |-> NoGraph]

Sources(m, k) ==
  [x \in {m[i].name : i \in 1 .. k} |-> m[CHOOSE i \in 1 .. k : m[i].name = x].program]

InputsOf(program) ==
  {in \in [DOMAIN program.args -> Inputs] :
     \A i \in DOMAIN program.args : program.args[i].type = "bool" => in[i] \in {0, 1}}

Meaning(m, k) ==
  [c \in InputsOf(m[k].program) \X Registers |->
     JibResult(Sources(m, k - 1), m[k].program, c[1], c[2])]

Init ==
  /\ model \in Models
  /\ at = [function |-> 0, pass |-> 0]
  /\ graph = NoGraph
  /\ changed = FALSE
  /\ rounds = 0
  /\ emitted = NoneEmitted
  /\ inlinable = Empty
  /\ meaning = Empty

Construct ==
  /\ at.pass = 0
  /\ at.function < Len(model)
  /\ at' = [function |-> at.function + 1, pass |-> 1]
  /\ graph' = ConstructIr(model[at.function + 1].program)
  /\ meaning' = Meaning(model, at.function + 1)
  /\ changed' = FALSE
  /\ rounds' = 1
  /\ emitted' = NoneEmitted
  /\ UNCHANGED <<model, inlinable>>

\* mutant: a pass that says it changed something whatever it did
ReportsAlways(pass, g, h) == pass = "remove_useless_switch" \/ h # g

\* simplify_phis says that it changed nothing whatever it did
Reports(pass, g, h) == pass # "simplify_phis" /\ h # g

RunPass ==
  /\ at.pass \in DOMAIN Passes
  /\ rounds <= MaxRounds
  /\ graph' = Apply(Passes[at.pass], graph, inlinable)
  /\ changed' = (changed \/ Reports(Passes[at.pass], graph, graph'))
  /\ at' = [at EXCEPT !.pass = @ + 1]
  /\ UNCHANGED <<model, rounds, emitted, inlinable, meaning>>

AfterPasses == at.pass = Len(Passes) + 1

NextRound ==
  /\ AfterPasses
  /\ changed
  /\ at' = [at EXCEPT !.pass = 1]
  /\ changed' = FALSE
  /\ rounds' = rounds + 1
  /\ UNCHANGED <<model, graph, emitted, inlinable, meaning>>

Name == model[at.function].name

Finish ==
  /\ AfterPasses
  /\ ~ changed
  /\ at' = [at EXCEPT !.pass = 0]
  /\ inlinable' = IF ShouldInline(graph, Name) THEN (Name :> graph) @@ inlinable ELSE inlinable
  /\ graph' = NoGraph
  /\ emitted' = EmittedCode(graph)
  /\ rounds' = 0
  /\ UNCHANGED <<model, changed, meaning>>

Stop ==
  /\ at = [function |-> Len(model), pass |-> 0]
  /\ UNCHANGED vars

Next == Construct \/ RunPass \/ NextRound \/ Finish \/ Stop

Spec == Init /\ [][Next]_vars

(***************************************************************************)
(* Properties.                                                             *)
(***************************************************************************)

\* the value of a function that throws does not matter
Agrees(expected, result) ==
  /\ result.how = expected.how
  /\ result.memory = expected.memory
  /\ expected.memory.have_exception = 0 => result.value = expected.value

ResultOf(g, printed, c) ==
  GraphResult([functions |-> Sources(model, at.function - 1), g |-> g, printed |-> printed,
               inputs |-> c[1]], c[2])

(* After the construction of a graph and after each pass over it, whatever  *)
(* the passes before did to it, the graph computes what the instructions   *)
(* of the function do: it returns, throws, fails an assertion or goes on   *)
(* forever for the same inputs, with the same registers.                   *)
SameResult ==
  graph # NoGraph => \A c \in DOMAIN meaning : Agrees(meaning[c], ResultOf(graph, {}, c))

(* The code in which phis are assignments, one after the other, and in     *)
(* which operations are printed where they are used, does so too.          *)
SameCode ==
  emitted # NoneEmitted =>
    \A c \in DOMAIN meaning : Agrees(meaning[c], ResultOf(emitted.g, emitted.printed, c))

(* Graph.check passes after every pass, not only at the end of             *)
(* light_simplify, and no assertion of a pass, of the construction or of   *)
(* remove_phis fails.                                                      *)
AssertionsHold ==
  /\ graph # NoGraph => Check(graph) /\ graph.failed = {}
  /\ emitted # NoneEmitted => emitted.g.failed = {}

(* The passes do not undo each other's work forever: the rounds of         *)
(* _optimize end long before repeat gives up (ir.py:1345).                 *)
RepeatEnds == rounds <= MaxRounds
=============================================================================
