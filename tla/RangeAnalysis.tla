---------------------------- MODULE RangeAnalysis ----------------------------
(***************************************************************************)
(* The range analysis of pydrofoil/absinterp.py (AbstractInterpreter): one *)
(* pass over the blocks of an acyclic graph in topological order, which    *)
(* computes for every block a range for every integer or Boolean value     *)
(* known there, narrowed by the conditions of the branches on the way.     *)
(*                                                                         *)
(* The module first analyses the graph of a function and then runs it with *)
(* arguments of the caller's choice; what the analysis says must be true   *)
(* of every run.                                                           *)
(*                                                                         *)
(* A graph is a record: args, a set of names, bools, the names of Boolean  *)
(* values, and blocks, a sequence in topological order (topo_order of      *)
(* ir.py delivers one).  A block has a sequence ops of operations and a    *)
(* link next.  An operation has the name id of its result, its kind and    *)
(* its operands args; a phi has the blocks from which its operands come in *)
(* from.  An operand is a name or a constant: [var |-> name] or            *)
(* [num |-> number].  Booleans are 0 and 1.                                *)
(***************************************************************************)
EXTENDS Ranges, FiniteSets, Sequences

CONSTANTS
  GraphSet,  \* the graphs to analyse
  Inputs     \* the values of arguments

ASSUME InputsAssumption == Inputs \subseteq Int

IsNum(operand) == "num" \in DOMAIN operand
Comparisons == {"lteq", "lt", "gteq", "gt", "eq"}
Unary == {"int_to_int64", "int64_to_int", "pow2"}
Binary == Comparisons \union
  {"add", "sub", "mult", "tdiv", "ediv", "lshift", "rshift"}
Calls == {"call_int", "call_machine_int", "call_bool"}

(***************************************************************************)
(* What the other passes promise of a graph (Graph.check of ir.py): a name *)
(* is given once, links and phis agree with the order of the blocks, and   *)
(* conditions are Booleans.  That operands are computed before they are    *)
(* used is not assumed: an analysis that meets another operand fails, and  *)
(* a run stops there.                                                      *)
(***************************************************************************)
OpsOf(g, b) == g.blocks[b].ops
Positions(g) == UNION {{b} \X DOMAIN OpsOf(g, b) : b \in DOMAIN g.blocks}
OpAt(g, p) == OpsOf(g, p[1])[p[2]]

SingleAssignment(g) ==
  /\ \A p, q \in Positions(g) : OpAt(g, p).id = OpAt(g, q).id => p = q
  /\ \A p \in Positions(g) : OpAt(g, p).id \notin g.args

OperandsTyped(op) ==
  /\ \A i \in DOMAIN op.args : IsNum(op.args[i]) => op.args[i].num \in Int
  /\ \/ /\ op.kind = "phi"
        /\ DOMAIN op.from = DOMAIN op.args
        /\ IsFiniteSet(DOMAIN op.args)
     \/ op.kind \in Unary /\ DOMAIN op.args = {1}
     \/ op.kind \in Binary /\ DOMAIN op.args = {1, 2}
     \/ op.kind \in Calls /\ DOMAIN op.args = {}

PhisOrdered(g) ==
  \A p \in Positions(g) : OpAt(g, p).kind = "phi" =>
    LET op == OpAt(g, p)
    IN  \A i \in DOMAIN op.args :
          /\ op.from[i] \in DOMAIN g.blocks
          /\ op.from[i] < p[1]
          /\ ~ IsNum(op.args[i]) =>
               \A n \in DOMAIN OpsOf(g, p[1]) :
                 OpsOf(g, p[1])[n].id # op.args[i].var

IsBool(g, operand) ==
  IF IsNum(operand) THEN operand.num \in {0, 1} ELSE operand.var \in g.bools

BoolsTyped(g) ==
  \A p \in Positions(g) : OpAt(g, p).id \in g.bools =>
    LET op == OpAt(g, p)
    IN  \/ op.kind \in Comparisons \union {"call_bool"}
        \/ op.kind = "phi" /\ \A i \in DOMAIN op.args : IsBool(g, op.args[i])

Forward(g, b) == {t \in DOMAIN g.blocks : b < t}

LinksOrdered(g) ==
  \A b \in DOMAIN g.blocks :
    LET link == g.blocks[b].next
    IN  \/ link.kind = "goto" /\ link.target \in Forward(g, b)
        \/ /\ link.kind = "if"
           /\ link.cond \in g.bools
           /\ link.true \in Forward(g, b) /\ link.false \in Forward(g, b)
        \/ link.kind \in {"return", "raise"}

WellFormed(g) ==
  /\ DOMAIN g.blocks = 1 .. Len(g.blocks) /\ Len(g.blocks) \in Nat \ {0}
  /\ \A b \in DOMAIN g.blocks :
       /\ DOMAIN OpsOf(g, b) = 1 .. Len(OpsOf(g, b))
       /\ Len(OpsOf(g, b)) \in Nat
  /\ \A p \in Positions(g) : OperandsTyped(OpAt(g, p))
  /\ SingleAssignment(g)
  /\ PhisOrdered(g)
  /\ BoolsTyped(g)
  /\ LinksOrdered(g)

\* where a link leads
Targets(link) ==
  CASE link.kind = "goto" -> {link.target}
    [] link.kind = "if" -> {link.true, link.false}
    [] OTHER -> {}

\* the names known before operation n of block b, if those of entry[b] are
\* known where the block begins
Given(g, entry, b, n) ==
  entry[b] \union {OpsOf(g, b)[k].id : k \in {j \in DOMAIN OpsOf(g, b) : j < n}}

AtLeaving(g, entry, b) == Given(g, entry, b, Len(OpsOf(g, b)) + 1)
AreGiven(operands, names) ==
  \A i \in DOMAIN operands : IsNum(operands[i]) \/ operands[i].var \in names

\* Operands are computed before they are used, on every path, as SSA form has it:
\* entry[b] are names that every path to block b computes, and a phi has an
\* operand for each block that leads to its own.  Graph.check of ir.py asserts
\* that operands dominate their uses; it does not look at the order in a block
\* and at the blocks that a phi has no operand for.
OperandsGiven(g, entry) ==
  /\ entry[1] \subseteq g.args
  /\ \A b \in DOMAIN g.blocks : \A t \in Targets(g.blocks[b].next) :
       /\ entry[t] \subseteq AtLeaving(g, entry, b)
       /\ \A n \in DOMAIN OpsOf(g, t) : OpsOf(g, t)[n].kind = "phi" =>
            \E i \in DOMAIN OpsOf(g, t)[n].args :
              /\ OpsOf(g, t)[n].from[i] = b
              /\ AreGiven(<<OpsOf(g, t)[n].args[i]>>, AtLeaving(g, entry, b))
  /\ \A p \in Positions(g) :
       IF OpAt(g, p).kind = "phi" THEN p[1] # 1
       ELSE AreGiven(OpAt(g, p).args, Given(g, entry, p[1], p[2]))
  /\ \A b \in DOMAIN g.blocks : g.blocks[b].next.kind = "if" =>
       /\ g.blocks[b].next.cond \in AtLeaving(g, entry, b)
       /\ \A p \in Positions(g) :
            OpAt(g, p).id = g.blocks[b].next.cond /\ OpAt(g, p).kind # "phi" =>
              AreGiven(OpAt(g, p).args, AtLeaving(g, entry, b))

ASSUME GraphsAssumption == \A g \in GraphSet : WellFormed(g)

VARIABLES
  graph,     \* the graph, which does not change
  phase,     \* "analyze", "crashed", "run", "returned" or "raised"
  block,     \* the block that is analysed or run next
  index,     \* the operation of the block that is analysed or run next
  values,    \* the result: for each block reached, the range of each name
  known,     \* history: values[b] as it was before operation n, for <<b, n>>
  env,       \* the run: the value of each name computed so far
  from       \* the run: the block that was left last

vars == <<graph, phase, block, index, values, known, env, from>>

Start == 1
Blocks == DOMAIN graph.blocks
Ops(b) == OpsOf(graph, b)
Link(b) == graph.blocks[b].next
CurrentOp == Ops(block)[index]
AtOp == index \in DOMAIN Ops(block)

\* the dictionary f after f[x] = v
Put(f, x, v) == [y \in DOMAIN f \union {x} |-> IF y = x THEN v ELSE f[y]]

-----------------------------------------------------------------------------
(***************************************************************************)
(* The analysis of one operation; m is the range of each name so far.      *)
(***************************************************************************)

\* _bounds
Bounds(m, operand) ==
  IF IsNum(operand) THEN Const(operand.num) ELSE m[operand.var]

\* no operand is missing, which would be a KeyError
Has(m, operand) == ~ IsNum(operand) => operand.var \in DOMAIN m
HasOperands(m, op) == \A i \in DOMAIN op.args : Has(m, op.args[i])

\* _bounds of a phi's operand at the end of the block it comes from; {} for
\* a block that is not reached
PhiBounds(operand, prev) ==
  IF IsNum(operand) THEN {Const(operand.num)}
  ELSE IF prev \notin DOMAIN values \/ operand.var \notin DOMAIN values[prev]
  THEN {}
  ELSE {values[prev][operand.var]}

AllPhiBounds(op) ==
  UNION {PhiBounds(op.args[i], op.from[i]) : i \in DOMAIN op.args}

\* analyze_default
DefaultRange(kind) ==
  CASE kind = "call_bool" -> Bool
    [] kind = "call_machine_int" -> MachineInt
    [] kind = "call_int" -> Unbounded

\* the range of the result of an operation, phis excepted
Transfer(op, m) ==
  LET arg(i) == Bounds(m, op.args[i])
  IN  CASE op.kind = "add" -> Add(arg(1), arg(2))
        [] op.kind = "sub" -> Sub(arg(1), arg(2))
        [] op.kind = "mult" -> Mul(arg(1), arg(2))
        [] op.kind = "tdiv" -> Tdiv(arg(1), arg(2))
        [] op.kind = "ediv" -> Ediv(arg(1), arg(2))
        [] op.kind = "lshift" -> Lshift(arg(1), arg(2))
        [] op.kind = "rshift" -> Rshift(arg(1), arg(2))
        [] op.kind = "pow2" -> Lshift(Const(1), arg(1))
        [] op.kind = "lteq" -> Le(arg(1), arg(2))
        [] op.kind = "lt" -> Lt(arg(1), arg(2))
        [] op.kind = "gteq" -> Ge(arg(1), arg(2))
        [] op.kind = "gt" -> Gt(arg(1), arg(2))
        [] op.kind = "int_to_int64" -> ToMachineInt(arg(1))
        [] op.kind = "int64_to_int" -> arg(1)
        [] op.kind = "eq" -> Bool   \* analyze_default
        [] op.kind \in Calls -> DefaultRange(op.kind)

\* int_to_int64 tells something of its operand, too
Narrowed(op, m) ==
  IF op.kind = "int_to_int64" /\ ~ IsNum(op.args[1])
  THEN Put(m, op.args[1].var, ToMachineInt(m[op.args[1].var])) ELSE m

AnalyzeOp(m, op) ==
  IF op.kind = "phi" THEN Put(m, op.id, UnionAll(AllPhiBounds(op)))
  ELSE Put(Narrowed(op, m), op.id, Transfer(op, m))

-----------------------------------------------------------------------------
(***************************************************************************)
(* The links out of a block.                                               *)
(***************************************************************************)

\* the operation that computes a name, wherever it is
Definition(name) ==
  {OpAt(graph, p) : p \in {q \in Positions(graph) : OpAt(graph, q).id = name}}

\* m with a better range for an operand (a constant has no entry)
With(m, operand, r) == IF IsNum(operand) THEN m ELSE Put(m, operand.var, r)

\* mutant of Condition: <= is narrowed like <
ConditionStrict(m, name, truth) ==
  IF Definition(name) = {} THEN m
  ELSE
  LET op == CHOOSE o \in Definition(name) : TRUE
      swapped == op.kind \in {"gteq", "gt"}
      a == IF swapped THEN op.args[2] ELSE op.args[1]
      b == IF swapped THEN op.args[1] ELSE op.args[2]
      ra == Bounds(m, a)
      rb == Bounds(m, b)
  IN  CASE op.kind \in {"lteq", "gteq", "lt", "gt"} /\ truth ->
             With(With(m, a, MakeLt(ra, rb)), b, MakeGt(rb, ra))
        [] op.kind \in {"lteq", "gteq", "lt", "gt"} /\ ~ truth ->
             With(With(m, a, MakeGe(ra, rb)), b, MakeLe(rb, ra))
        [] OTHER -> m

\* what is known when the comparison op came out as truth
NarrowBy(m, op, truth) ==
  LET swapped == op.kind \in {"gteq", "gt"}
      a == IF swapped THEN op.args[2] ELSE op.args[1]
      b == IF swapped THEN op.args[1] ELSE op.args[2]
      ra == Bounds(m, a)
      rb == Bounds(m, b)
  IN  CASE op.kind \in {"lteq", "gteq"} /\ truth ->
             With(With(m, a, MakeLe(ra, rb)), b, MakeGe(rb, ra))
        [] op.kind \in {"lteq", "gteq"} /\ ~ truth ->
             With(With(m, a, MakeGt(ra, rb)), b, MakeLt(rb, ra))
        [] op.kind \in {"lt", "gt"} /\ truth ->
             With(With(m, a, MakeLt(ra, rb)), b, MakeGt(rb, ra))
        [] op.kind \in {"lt", "gt"} /\ ~ truth ->
             With(With(m, a, MakeGe(ra, rb)), b, MakeLe(rb, ra))
        [] op.kind = "eq" /\ truth ->
             LET first == IF IsConstant(ra) THEN With(m, b, ra) ELSE m
             IN  IF IsConstant(rb) THEN With(first, a, rb) ELSE first
        [] OTHER -> m

\* the comparison that computes a condition, if it is one
Comparison(name) == {op \in Definition(name) : op.kind \in Comparisons}

\* analyze_condition: what is known when the condition name came out as truth
Condition(m, name, truth) ==
  IF Comparison(name) = {} THEN m
  ELSE NarrowBy(m, CHOOSE op \in Comparison(name) : TRUE, truth)

\* what is known in the target of a branch
Branch(m, name, truth) ==
  Put(Condition(m, name, truth), name, IF truth THEN True ELSE False)

\* where a branch leads
Target(link, truth) == IF truth THEN link.true ELSE link.false

\* mutant of Decides: a decided condition leads the other way
DecidesOther(r, truth) == r = IF truth THEN False ELSE True

\* a range that leaves only one way out of a branch
Decides(r, truth) == r = IF truth THEN True ELSE False

\* mutant of Merge: the second predecessor's ranges replace the first one's
MergeReplaces(result, target, new) ==
  LET old == IF target \in DOMAIN result THEN result[target] ELSE <<>>
  IN  Put(result, target, [name \in DOMAIN new \union DOMAIN old |->
                             IF name \in DOMAIN new THEN new[name]
                             ELSE old[name]])

\* _merge_values
Merge(result, target, new) ==
  LET old == IF target \in DOMAIN result THEN result[target] ELSE <<>>
  IN  Put(result, target, [name \in DOMAIN new \union DOMAIN old |->
                             IF name \notin DOMAIN new THEN old[name]
                             ELSE IF name \notin DOMAIN old THEN new[name]
                             ELSE Union(new[name], old[name])])

-----------------------------------------------------------------------------
(***************************************************************************)
(* The run.                                                                *)
(***************************************************************************)

\* the operands that a run needs: those of a phi for the block left last
Needed(op) == {i \in DOMAIN op.args : op.kind = "phi" => op.from[i] = from}

\* what a call may return
CallResults(kind) ==
  CASE kind = "call_bool" -> {0, 1}
    [] kind = "call_machine_int" -> Inputs \intersect (MinInt .. MaxInt)
    [] kind = "call_int" -> Inputs

RaisesIf(condition, result) == IF condition THEN {} ELSE {result}

\* the values that an operation may compute, {} if it raises
Results(op, e) ==
  LET arg(i) == IF IsNum(op.args[i]) THEN op.args[i].num ELSE e[op.args[i].var]
  IN  CASE op.kind = "phi" -> {arg(i) : i \in Needed(op)}
        [] op.kind = "add" -> {arg(1) + arg(2)}
        [] op.kind = "sub" -> {arg(1) - arg(2)}
        [] op.kind = "mult" -> {arg(1) * arg(2)}
        [] op.kind = "tdiv" ->
             RaisesIf(arg(2) = 0, TruncDivide(arg(1), arg(2)))
        [] op.kind = "ediv" ->
             RaisesIf(arg(2) = 0, EuclidDivide(arg(1), arg(2)))
        [] op.kind = "lshift" ->
             RaisesIf(arg(2) < 0, ShiftLeft(arg(1), arg(2)))
        [] op.kind = "rshift" ->
             RaisesIf(arg(2) < 0, ShiftRight(arg(1), arg(2)))
        [] op.kind = "pow2" -> RaisesIf(arg(1) < 0, ShiftLeft(1, arg(1)))
        [] op.kind = "lteq" -> {Truth(arg(1) <= arg(2))}
        [] op.kind = "lt" -> {Truth(arg(1) < arg(2))}
        [] op.kind = "gteq" -> {Truth(arg(1) >= arg(2))}
        [] op.kind = "gt" -> {Truth(arg(1) > arg(2))}
        [] op.kind = "eq" -> {Truth(arg(1) = arg(2))}
        [] op.kind = "int_to_int64" -> {arg(1)} \intersect (MinInt .. MaxInt)
        [] op.kind = "int64_to_int" -> {arg(1)}
        [] op.kind \in Calls -> CallResults(op.kind)

\* the values that the arguments may have
Arguments ==
  {e \in [graph.args -> Inputs \union {0, 1}] :
     \A name \in graph.args :
       e[name] \in IF name \in graph.bools THEN {0, 1} ELSE Inputs}

(***************************************************************************)
(* IntOpOptimizer puts a constant in the place of an operation whose range *)
(* at the end of its block has a single number.                            *)
(***************************************************************************)

\* mutant of FoldsTo: it is enough that the range has two ends
FoldsToBounded(b, name) ==
  IF name \in DOMAIN values[b] /\ IsBounded(values[b][name])
  THEN {values[b][name].low} ELSE {}

\* the constant in the place of an operation of block b, if there is one
FoldsTo(b, name) ==
  IF name \in DOMAIN values[b] /\ IsConstant(values[b][name])
  THEN {values[b][name].low} ELSE {}

-----------------------------------------------------------------------------
(***************************************************************************)
(* The analysis, one operation or link at a time.                          *)
(***************************************************************************)

Init ==
  /\ graph \in GraphSet
  /\ phase = "analyze"
  /\ block = Start
  /\ index = 1
  /\ values = [b \in {Start} |-> [name \in graph.args |-> Unbounded]]
  /\ known = <<>>
  /\ env = <<>>
  /\ from = 0

\* a block that is not reached is left out
SkipBlock ==
  /\ phase = "analyze"
  /\ block \in Blocks \ DOMAIN values
  /\ block' = block + 1
  /\ UNCHANGED <<graph, phase, index, values, known, env, from>>

Analyzing == phase = "analyze" /\ block \in Blocks \intersect DOMAIN values
Here == values[block]
Remember == known' = Put(known, <<block, index>>, Here)

\* the assertion of the constructor of Range
RangesValid(m) == \A name \in DOMAIN m : Valid(m[name])

\* the analysis goes on with new values if it can, and fails if not: with a
\* KeyError, or an assertion
Attempt(possible, new) ==
  /\ phase' = IF possible THEN "analyze" ELSE "crashed"
  /\ values' = IF possible THEN new ELSE values

\* the operands are known (a phi has one that is: the assertion of
\* analyze_block) and no range is empty
OpAnalyzable ==
  /\ IF CurrentOp.kind = "phi" THEN AllPhiBounds(CurrentOp) # {}
     ELSE HasOperands(Here, CurrentOp)
  /\ RangesValid(AnalyzeOp(Here, CurrentOp))

\* analyze_block
AnalyzeOperation ==
  /\ Analyzing
  /\ AtOp
  /\ Attempt(OpAnalyzable,
             [values EXCEPT ![block] = AnalyzeOp(Here, CurrentOp)])
  /\ Remember
  /\ index' = index + 1
  /\ UNCHANGED <<graph, block, env, from>>

AtLink == Analyzing /\ ~ AtOp
IsBranch == Link(block).kind = "if"
Cond == Link(block).cond
NextBlock == block' = block + 1 /\ index' = 1

\* analyze_link
AnalyzeGoto ==
  /\ AtLink
  /\ Link(block).kind = "goto"
  /\ values' = Merge(values, Link(block).target, Here)
  /\ Remember
  /\ NextBlock
  /\ UNCHANGED <<graph, phase, env, from>>

\* one of the paths is dead
AnalyzeDecided ==
  /\ AtLink
  /\ IsBranch
  /\ Cond \in DOMAIN Here
  /\ \E truth \in BOOLEAN :
       /\ Decides(Here[Cond], truth)
       /\ values' = Merge(values, Target(Link(block), truth), Here)
  /\ Remember
  /\ NextBlock
  /\ UNCHANGED <<graph, phase, env, from>>

Decided == \E truth \in BOOLEAN : Decides(Here[Cond], truth)

BranchAnalyzable ==
  /\ Cond \in DOMAIN Here
  /\ \A op \in Comparison(Cond) : HasOperands(Here, op)
  /\ \A truth \in BOOLEAN : RangesValid(Branch(Here, Cond, truth))

AnalyzeBranch ==
  /\ AtLink
  /\ IsBranch
  /\ Cond \in DOMAIN Here => ~ Decided
  /\ LET merged == Merge(values, Link(block).true, Branch(Here, Cond, TRUE))
     IN  Attempt(BranchAnalyzable,
                 Merge(merged, Link(block).false, Branch(Here, Cond, FALSE)))
  /\ Remember
  /\ NextBlock
  /\ UNCHANGED <<graph, env, from>>

AnalyzeEnd ==
  /\ AtLink
  /\ Link(block).kind \in {"return", "raise"}
  /\ Remember
  /\ NextBlock
  /\ UNCHANGED <<graph, phase, values, env, from>>

-----------------------------------------------------------------------------
(***************************************************************************)
(* The run, one operation or jump at a time.                               *)
(***************************************************************************)

\* the analysis is done, the function is called
Call ==
  /\ phase = "analyze"
  /\ block \notin Blocks
  /\ phase' = "run"
  /\ block' = Start
  /\ index' = 1
  /\ env' \in Arguments
  /\ UNCHANGED <<graph, values, known, from>>

CanRun ==
  /\ phase = "run"
  /\ AtOp
  /\ \A i \in Needed(CurrentOp) : Has(env, CurrentOp.args[i])

RunOperation ==
  /\ CanRun
  /\ \E result \in Results(CurrentOp, env) :
       env' = Put(env, CurrentOp.id, result)
  /\ index' = index + 1
  /\ UNCHANGED <<graph, phase, block, values, known, from>>

\* the operation raises
RunRaises ==
  /\ CanRun
  /\ Results(CurrentOp, env) = {}
  /\ phase' = "raised"
  /\ UNCHANGED <<graph, block, index, values, known, env, from>>

AtEnd == phase = "run" /\ ~ AtOp

Jump(target) ==
  /\ block' = target
  /\ index' = 1
  /\ from' = block
  /\ UNCHANGED <<graph, phase, values, known, env>>

RunGoto ==
  /\ AtEnd
  /\ Link(block).kind = "goto"
  /\ Jump(Link(block).target)

RunBranch ==
  /\ AtEnd
  /\ IsBranch
  /\ Cond \in DOMAIN env
  /\ Jump(Target(Link(block), env[Cond] = 1))

RunEnd ==
  /\ AtEnd
  /\ Link(block).kind \in {"return", "raise"}
  /\ phase' = IF Link(block).kind = "return" THEN "returned" ELSE "raised"
  /\ from' = block
  /\ UNCHANGED <<graph, block, index, values, known, env>>

Next ==
  \/ SkipBlock \/ AnalyzeOperation \/ AnalyzeGoto \/ AnalyzeDecided
  \/ AnalyzeBranch \/ AnalyzeEnd
  \/ Call \/ RunOperation \/ RunRaises \/ RunGoto \/ RunBranch \/ RunEnd

Spec == Init /\ [][Next]_vars

-----------------------------------------------------------------------------
(***************************************************************************)
(* Properties.                                                             *)
(***************************************************************************)

\* The analysis is right: at the end of a block, each name has a value in the
\* range that the block has for it, on every path and for every argument, so
\* that conditions may be decided and integers unwrapped (IntOpOptimizer).
RangesSound ==
  from # 0 /\ phase # "crashed" =>
    \A name \in DOMAIN env \intersect DOMAIN values[from] :
      Includes(values[from][name], env[name])

Converts(op, name) ==
  op.kind = "int_to_int64" /\ ~ IsNum(op.args[1]) /\ op.args[1].var = name

\* the block goes on to a conversion of the name, which its value does not fit
MustRaise(name) ==
  /\ env[name] \notin MinInt .. MaxInt
  /\ \E k \in DOMAIN Ops(block) : index <= k /\ Converts(Ops(block)[k], name)

\* An operation that IntOpOptimizer (_optimize_op) replaces by a constant has
\* that value, although the constant comes from the range at the end of the
\* block, which the rest of the block may have narrowed.  The one exception: the
\* value is about to be converted, does not fit, and the run raises.
FoldingSound ==
  phase = "run" =>
    \A n \in DOMAIN Ops(block) : n < index =>
      LET name == Ops(block)[n].id
      IN  \A constant \in FoldsTo(block, name) :
            env[name] = constant \/ MustRaise(name)

\* Blocks the analysis did not reach, whose operations are not analysed and
\* which IntOpOptimizer.optimize_block takes to be dead, are never run.
DeadBlocksNotRun == phase = "run" => block \in DOMAIN values

\* An operand of int_to_int64 is not known to be too large or too small, which
\* would make ToMachineInt an empty range.
ConversionsPossible ==
  Analyzing /\ AtOp /\ CurrentOp.kind = "int_to_int64"
  /\ HasOperands(Here, CurrentOp) =>
    \E n \in MinInt .. MaxInt : Includes(Bounds(Here, CurrentOp.args[1]), n)

\* The range of a condition that is not decided is still the one that its
\* operands give it when it is tested: they have not been narrowed since.
ConditionsCurrent ==
  AtLink /\ IsBranch /\ Cond \in DOMAIN Here /\ ~ Decided =>
    \A op \in Comparison(Cond) :
      op.kind # "eq" /\ HasOperands(Here, op) => Here[Cond] = Transfer(op, Here)

\* The analysis fails, with a KeyError or with the assertion of the constructor
\* of Range (line 21) that low <= high, for no other reason than these: the range
\* of a number to be converted has nothing that fits, or a condition is tested
\* whose operands have been narrowed since its own range was computed.
FailuresExplained ==
  [][phase' = "crashed" => ~ ConversionsPossible \/ ~ ConditionsCurrent]_vars
=============================================================================
