----------------------------- MODULE SsaBuilder -----------------------------
(***************************************************************************)
(* How a function becomes a graph (construct_ir and SSABuilder of          *)
(* pydrofoil/ir.py, and the conversion of assertions at its end).          *)
(*                                                                         *)
(* Block number k of the code is block number k of the graph.  In code     *)
(* that ends a block only instructions that something jumps to may follow. *)
(***************************************************************************)
EXTENDS SsaGraphs

\* a variable that has no value on some of the paths that meet
None == <<"none", 0>>

RegisterType(name) == IF name = "reg" THEN "int" ELSE "bool"

(***************************************************************************)
(* Blocks of code.                                                         *)
(***************************************************************************)

Jumps == {"jump", "goto"}

\* the instructions at which blocks start
IsBlockStart(code, pc) ==
  \/ pc = 1
  \/ code[pc - 1].do = "jump"
  \/ \E i \in Range(code) : i.do \in Jumps /\ i.target = pc
BlockStarts(code) == SelectSeq([pc \in DOMAIN code |-> pc], LAMBDA pc : IsBlockStart(code, pc))

PositionIn(s, x) == SelectInSeq(s, LAMBDA y : y = x)
BlockAt(starts, pc) == PositionIn(starts, pc)

BlockCode(code, starts, k) ==
  SubSeq(code, starts[k], IF k = Len(starts) THEN Len(code) ELSE starts[k + 1] - 1)

\* where block k may go to; a block that ends with no jump falls through
Targets(code, starts, k) ==
  LET last == Last(BlockCode(code, starts, k))
  IN  CASE last.do = "jump" -> <<BlockAt(starts, last.target), k + 1>>
        [] last.do = "goto" -> <<BlockAt(starts, last.target)>>
        [] last.do \in {"end", "arbitrary", "exit"} -> <<>>
        [] OTHER -> <<k + 1>>

\* compute_entryblocks_nextblocks
EntryBlocks(targets, k) ==
  FlattenSeq([j \in DOMAIN targets |->
    [i \in DOMAIN SelectSeq(targets[j], LAMBDA t : t = k) |-> j]])

(***************************************************************************)
(* Building a block: g, map (the values of the variables), at (the number  *)
(* of the block) and got (the values of the arguments just looked up).     *)
(***************************************************************************)

\* _addop
Emit(s, op) ==
  [s EXCEPT !.g = [WithOp(@, op) EXCEPT !.blocks[s.at].ops = Append(@, LastOp(s.g) + 1)]]
Emitted(s) == IF s.g.ops[LastOp(s.g)].type = "unit" THEN UnitConstant ELSE OpValue(LastOp(s.g))
Got(s, v) == [s EXCEPT !.got = Append(@, v)]

\* _get_arg
GetArg(s, v) ==
  CASE v[1] # "var" -> Got(s, v)
    [] v[1] = "var" /\ v[2] \in DOMAIN s.map ->
         Got([s EXCEPT !.g = Asserting(s.map[v[2]] # None, "get_arg", @)], s.map[v[2]])
    [] v[1] = "var" /\ v[2] \notin DOMAIN s.map ->
         LET r == Emit(s, GlobalRead(v[2], RegisterType(v[2]))) IN Got(r, OpValue(LastOp(r.g)))

GetArgs(s, vs) == FoldLeft(GetArg, [s EXCEPT !.got = <<>>], vs)

\* _store
Store(s, var, v) ==
  IF var \notin DOMAIN s.map THEN Emit(s, GlobalWrite(var, v, TypeOf(s.g, v)))
                             ELSE [s EXCEPT !.map[var] = v]
Declared(s, var, v) == [s EXCEPT !.map = (var :> v) @@ @]
EmitAndStore(s, op, var) == LET r == Emit(s, op) IN Store(r, var, Emitted(r))

\* _build_block, but for the end of the block
BuildInstruction(s, i) ==
  CASE i.do = "declare" -> Declared(s, i.var, DefaultValue(i.type))
    [] i.do = "call" ->
         LET r == GetArgs(s, i.args) IN EmitAndStore(r, Operation(i.name, r.got, i.type), i.var)
    [] i.do = "assign" -> LET r == GetArgs(s, <<i.value>>) IN Store(r, i.var, r.got[1])
    [] OTHER -> s

\* _build_condition
BuildCondition(s, i) ==
  LET r == GetArgs(s, i.args)
  IN  IF i.name = "is" THEN r
      ELSE LET e == Emit(r, Operation(i.name, r.got, "bool")) IN [e EXCEPT !.got = <<Emitted(e)>>]

BuildEnd(s, i, targets, result) ==
  LET r == IF i.do = "jump" THEN BuildCondition(s, i) ELSE s
      next == CASE i.do = "jump" -> ConditionalGoto(r.got[1], targets[1], targets[2])
                [] i.do = "end" -> Return(s.map["return"])
                [] i.do = "arbitrary" -> Return(DefaultValue(result))
                [] i.do = "exit" -> Raise
                [] OTHER -> Goto(targets[1])
  IN  [r EXCEPT !.g = WithNext(@, s.at, next)]

(***************************************************************************)
(* The variables at the start of a block.  maps: the variables at the end  *)
(* of the blocks built so far.  order: the names in the order in which     *)
(* they are looked through.                                                *)
(***************************************************************************)

VariableOrder(program) ==
  [i \in DOMAIN program.args |-> program.args[i].name] \o <<"return">>
  \o [i \in DOMAIN SelectSeq(program.code, LAMBDA x : x.do = "declare") |->
        SelectSeq(program.code, LAMBDA x : x.do = "declare")[i].var]

StartMap(program) ==
  [x \in {arg.name : arg \in Range(program.args)} |->
     Argument(CHOOSE i \in DOMAIN program.args : program.args[i].name = x)]
  @@ ("return" :> DefaultValue(program.result))

\* blocks meet: a phi where the values differ
MergedVariable(s, entry, maps, var) ==
  LET values == [i \in DOMAIN entry |->
                  IF var \in DOMAIN maps[entry[i]] THEN maps[entry[i]][var] ELSE None]
      type == TypeOf(s.g, values[1])
  IN  CASE None \in Range(values) -> Declared(s, var, None)
        [] Cardinality(Range(values)) = 1 -> Declared(s, var, values[1])
        [] OTHER -> IF type = "unit" THEN Declared(s, var, UnitConstant)
                    ELSE LET r == Emit(s, Phi(entry, values, type)) IN Declared(r, var, Emitted(r))

\* a loop: phis for everything, of which all but the first values are patched
\* later, at the end of the blocks that jump back
LoopVariable(s, entry, maps, var) ==
  LET v == maps[entry[1]][var]
      values == [i \in DOMAIN entry |-> IF i = 1 THEN v ELSE None]
      type == TypeOf(s.g, v)
      later == \A i \in DOMAIN entry : i = 1 \/ entry[i] >= s.at
  IN  CASE v = None -> Declared(s, var, None)
        [] v # None /\ type = "unit" -> Declared(s, var, UnitConstant)
        [] v # None /\ type # "unit" ->
             LET r == Emit(s, Phi(entry, values, type))
             IN  Declared([r EXCEPT !.g = Asserting(later, "patch_phis", @)], var, Emitted(r))

IsLoopBlock(k, entry) == \E i \in DOMAIN entry : entry[i] >= k

\* _setup_variable_map
SetupVariables(s, program, entry, maps, order) ==
  LET known == SelectSeq(order, LAMBDA x : x \in DOMAIN maps[entry[1]])
      merged(t, x) == MergedVariable(t, entry, maps, x)
      looped(t, x) == LoopVariable(t, entry, maps, x)
  IN  CASE entry = <<>> -> [s EXCEPT !.map = StartMap(program)]
        [] Len(entry) = 1 -> [s EXCEPT !.map = maps[entry[1]]]
        [] Len(entry) > 1 /\ IsLoopBlock(s.at, entry) -> FoldLeft(looped, s, known)
        [] Len(entry) > 1 /\ ~ IsLoopBlock(s.at, entry) -> FoldLeft(merged, s, known)

\* patch_phis: the values that come from block k, in the phis of block to
Patched(g, to, k, map, variables) ==
  LET phis == PhisOf(g, to)
      variable(n) == variables[PositionIn(phis, n)]
      patched(n, op) == [op EXCEPT !.args = [i \in DOMAIN @ |->
                          IF op.prev[i] = k /\ @[i] = None THEN map[variable(n)] ELSE @[i]]]
  IN  [g EXCEPT !.ops = [n \in DOMAIN @ |->
         IF n \in Range(phis) THEN patched(n, @[n]) ELSE @[n]]]

(***************************************************************************)
(* build.                                                                  *)
(***************************************************************************)

\* the variables for which the loop block that starts with the variables map has phis
PhiVariables(g, k, map, order) ==
  SelectSeq(order, LAMBDA x : x \in DOMAIN map /\ map[x] \in {OpValue(n) : n \in Range(PhisOf(g, k))})

\* b: g, maps, and loops (for the loop blocks so far, the variables of their phis)
BuildBlock(b, k, program, starts, targets) ==
  LET order == VariableOrder(program)
      code == BlockCode(program.code, starts, k)
      s0 == SetupVariables([g |-> b.g, map |-> <<>>, at |-> k, got |-> <<>>], program,
                           EntryBlocks(targets, k), b.maps, order)
      loops == IF IsLoopBlock(k, EntryBlocks(targets, k))
               THEN (k :> PhiVariables(s0.g, k, s0.map, order)) @@ b.loops ELSE b.loops
      s == BuildEnd(FoldLeft(BuildInstruction, s0, code), Last(code), targets[k], program.result)
      back == SelectSeq(targets[k], LAMBDA t : t <= k)
  IN  [g |-> FoldLeft(LAMBDA g, t : Patched(g, t, k, s.map, loops[t]), s.g, back),
       maps |-> Append(b.maps, s.map),
       loops |-> loops]

EmptyBlocks(n) == <<>> \o [k \in 1 .. n |-> [ops |-> <<>>, next |-> Raise]]
EmptyGraph(program, n, loop) ==
  [ops |-> <<>>, blocks |-> EmptyBlocks(n), start |-> 1,
   has_loop |-> loop, args |-> [i \in DOMAIN program.args |-> program.args[i].type],
   failed |-> {}]

BuildGraph(program, starts, targets) ==
  FoldLeft(LAMBDA b, k : BuildBlock(b, k, program, starts, targets),
           [g |-> EmptyGraph(program, Len(starts),
                    \E k \in DOMAIN starts : IsLoopBlock(k, EntryBlocks(targets, k))),
            maps |-> <<>>, loops |-> <<>>],
           [k \in DOMAIN starts |-> k]).g

\* Block.split, without the operation at which the block is split
SplitBlock(g, b, index) ==
  LET ops == g.blocks[b].ops
      rest == SubSeq(ops, index + 1, Len(ops))
      h == WithBlock(WithOps(g, b, SubSeq(ops, 1, index - 1)), rest, NextOf(g, b))
      moved == ReplacePrevs(h, NextBlocks(g, b), b, LastBlock(h))
  IN  Asserting(\A n \in Range(rest) : ~ IsPhi(g.ops[n]), "split",
                WithNext(moved, b, Goto(LastBlock(h))))

\* convert_sail_assert_to_exception, for the first assertion of a block
ConvertAssert(g, b) ==
  LET ops == g.blocks[b].ops
      index == SelectInSeq(ops, LAMBDA n : g.ops[n].name = "assert")
      h == WithOp(SplitBlock(g, b, index), Comment)
      failing == WithBlock(WithOps(h, b, Append(h.blocks[b].ops, LastOp(h))), <<>>, Raise)
  IN  IF index = 0 THEN g
      ELSE WithNext(failing, b, ConditionalGoto(g.ops[ops[index]].args[1],
                                                LastBlock(h), LastBlock(failing)))

RECURSIVE ConvertAsserts(_)
ConvertAsserts(g) ==
  LET h == FoldLeft(ConvertAssert, g, IterBlocks(g)) IN IF h = g THEN g ELSE ConvertAsserts(h)

\* construct_ir, without the passes that follow
ConstructIr(program) ==
  LET starts == BlockStarts(program.code)
      targets == [k \in DOMAIN starts |-> Targets(program.code, starts, k)]
  IN  ConvertAsserts(BuildGraph(program, starts, targets))
=============================================================================
