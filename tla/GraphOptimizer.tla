--------------------------- MODULE GraphOptimizer ---------------------------
(***************************************************************************)
(* The local optimizer as far as it concerns graphs (common subexpressions,*)
(* constants, phis of constants), inlining, and the sequence of passes     *)
(* (pydrofoil/ir.py: BaseOptimizer, LocalOptimizer, inline,                *)
(* remove_double_exception_check, _bare_optimize).                         *)
(***************************************************************************)
EXTENDS GraphPasses

(***************************************************************************)
(* LocalOptimizer.  s: g, with (the operations replaced so far), now (the  *)
(* operations available in the block, by what they compute), new (the      *)
(* operations of the block so far), available (now at the end of each      *)
(* block), and whether there are blocks or operations to be removed.       *)
(***************************************************************************)

NoValue == <<"no", 0>>

\* _get_op_replacement
RECURSIVE Replacement(_, _)
Replacement(with, v) == IF v \in DOMAIN with THEN Replacement(with, with[v]) ELSE v
Replacements(with, args) == [i \in DOMAIN args |-> Replacement(with, args[i])]

\* _try_fold: only machine integers are folded here
FoldedType(name) == IF name = "eq" THEN "bool" ELSE "int"
TryFold(name, args) ==
  IF \E i \in DOMAIN args : args[i][1] # "int" THEN NoValue
  ELSE <<FoldedType(name), PureResult(name, [i \in DOMAIN args |-> args[i][2]])>>

\* optimize_eq, optimize_not
OptimizeEq(args) ==
  IF args[1] = args[2] THEN True
  ELSE IF args[1][1] = "int" /\ args[2][1] = "int" THEN False ELSE NoValue
OptimizeNot(s, v) ==
  CASE v[1] = "bool" -> BooleanConstant(1 - v[2])
    [] IsOp(v) -> IF s.g.ops[v[2]].name = "not"
                  THEN Replacement(s.with, s.g.ops[v[2]].args[1]) ELSE NoValue
    [] OTHER -> NoValue

\* _try_find_phi_home_block
HomeBlocks(g, n) ==
  SelectSeq(FlattenSeq([i \in DOMAIN g.ops[n].prev |-> NextBlocks(g, g.ops[n].prev[i])]),
            LAMBDA b : n \in Range(g.blocks[b].ops))

\* s with a new phi at the start of the block of phi number n, and its value
InsertPhi(s, b, n, phi) ==
  LET g == WithOp(s.g, phi)
      home == IF n \in Range(s.g.blocks[b].ops) \union Range(s.new) THEN <<b>>
              ELSE HomeBlocks(s.g, n)
  IN  CASE home = <<>> -> [s EXCEPT !.value = NoValue]
        [] home # <<>> /\ home[1] = b ->
             [s EXCEPT !.g = g, !.new = <<LastOp(g)>> \o @, !.value = OpValue(LastOp(g))]
        [] OTHER -> [s EXCEPT !.g = WithOps(g, home[1], <<LastOp(g)>> \o @.blocks[home[1]].ops),
                              !.value = OpValue(LastOp(g))]

\* _try_fold_phi: the only argument that is no constant is a phi of constants
TryFoldPhi(s, b, name, args) ==
  LET at == SelectInSeq(args, LAMBDA v : ~ IsConstant(v))
      n == args[at][2]
      phi == s.g.ops[n]
      results == [i \in DOMAIN phi.args |-> TryFold(name, [args EXCEPT ![at] = phi.args[i]])]
  IN  IF \/ \E i \in DOMAIN args : i # at /\ ~ IsConstant(args[i])
         \/ ~ IsOp(args[at])
      THEN s
      ELSE IF ~ IsPhi(phi) \/ NoValue \in Range(results) THEN s
      ELSE IF Cardinality(Range(results)) = 1 THEN [s EXCEPT !.value = results[1]]
      ELSE InsertPhi(s, b, n, Phi(phi.prev, results, FoldedType(name)))

Folded(s, b, name, args) ==
  IF \A i \in DOMAIN args : IsConstant(args[i]) THEN [s EXCEPT !.value = TryFold(name, args)]
  ELSE TryFoldPhi(s, b, name, args)

\* _optimize_Operation; value becomes what replaces the operation, or NoValue
OptimizeOperation(s, b, op, args) ==
  CASE op.kind # "operation" -> s
    [] op.name = "not" -> [s EXCEPT !.value = OptimizeNot(s, args[1])]
    [] op.name = "eq" -> LET v == OptimizeEq(args) IN
                         IF v = NoValue THEN Folded(s, b, "eq", args) ELSE [s EXCEPT !.value = v]
    [] op.name = "mix" -> Folded(s, b, "mix", args)
    [] OTHER -> s

\* BaseOptimizer._optimize_op: replaced where the same was computed before
Cse(s, op, n) ==
  LET key == <<op.name, Mapped(op.args, s.with), op.prev, op.type>>
  IN  CASE ~ (IsPhi(op) \/ IsPure(op)) -> [s EXCEPT !.new = Append(@, n)]
        [] OTHER -> IF key \in DOMAIN s.now
                    THEN [s EXCEPT !.value = s.now[key], !.clean = TRUE]
                    ELSE [s EXCEPT !.now = (key :> OpValue(n)) @@ @, !.new = Append(@, n)]

Replaced(s, n) ==
  IF s.value = NoValue THEN s ELSE [s EXCEPT !.with = (OpValue(n) :> s.value) @@ @]

OptimizeOp(s, b, n) ==
  LET op == s.g.ops[n]
      t == OptimizeOperation([s EXCEPT !.value = NoValue], b, op, Replacements(s.with, op.args))
  IN  Replaced(IF t.value = NoValue THEN Cse(t, op, n) ELSE t, n)

\* _compute_available_in_block_from_predecessors
AvailableAt(available, prevs) ==
  IF prevs = <<>> \/ Range(prevs) \ DOMAIN available # {} THEN Empty
  ELSE LET first == available[prevs[1]]
           same == {k \in DOMAIN first : \A p \in Range(prevs) :
                     k \in DOMAIN available[p] /\ available[p][k] = first[k]}
       IN  [k \in same |-> first[k]]

KnownBranch(s, b) ==
  LET next == NextOf(s.g, b)
      v == Replacement(s.with, next.args[1])
  IN  IF next.kind # "if" THEN s
      ELSE IF v[1] # "bool" THEN s
      ELSE [s EXCEPT !.g = WithNext(@, b, Goto(next.targets[v[2] + 1])), !.dead = TRUE]

FinishBlock(s, b) ==
  [s EXCEPT !.g = WithOps(@, b, s.new), !.available = (b :> s.now) @@ @]

OptimizeBlock(s, b, map) ==
  FinishBlock(KnownBranch(
    FoldLeft(LAMBDA t, n : OptimizeOp(t, b, n),
             [s EXCEPT !.new = <<>>, !.now = AvailableAt(s.available, map.entry[b])],
             s.g.blocks[b].ops), b), b)

FinishLocalOpt(s) ==
  LET replaced == ReplaceAllOps(s.g, s.with)
      reachable == IF s.dead THEN RemoveUnreachablePrevs(replaced) ELSE replaced
  IN  IF s.clean THEN RemoveDead(reachable) ELSE reachable

LocalOptWith(g, map) ==
  FinishLocalOpt(FoldLeft(LAMBDA s, b : OptimizeBlock(s, b, map),
    [g |-> g, with |-> Empty, now |-> Empty, new |-> <<>>, available |-> Empty,
     value |-> NoValue, dead |-> FALSE, clean |-> FALSE],
    TopoOrder(g)))
LocalOptOnce(g) == LocalOptWith(g, EntryMap(g))
LocalOpt(g) == Repeat(LocalOptOnce, g)

(***************************************************************************)
(* remove_double_exception_check                                           *)
(***************************************************************************)

IsExceptionCheck(g, b, index) ==
  LET n == g.blocks[b].ops[index]
  IN  /\ g.ops[n].kind = "read"
      /\ g.ops[n].name = "have_exception"
      /\ NextOf(g, b).kind = "if"
      /\ NextOf(g, b).args[1] = OpValue(n)
EndsWithCheck(g, b) == g.blocks[b].ops # <<>> /\ IsExceptionCheck(g, b, Len(g.blocks[b].ops))

IsExceptionalReturn(g, b) ==
  /\ g.blocks[b].ops = <<>>
  /\ NextOf(g, b).kind = "return"
  /\ NextOf(g, b).args[1][1] = "default"

\* find_next_op: the block and the place of the next operation, if there is one
RECURSIVE FindNextOp(_, _)
FindNextOp(g, b) ==
  LET index == SelectInSeq(g.blocks[b].ops, LAMBDA n : g.ops[n].kind \notin {"phi", "comment"})
  IN  IF g.blocks[b].ops # <<>> THEN IF index = 0 THEN <<>> ELSE <<b, index>>
      ELSE IF NextOf(g, b).kind # "goto" THEN <<>> ELSE FindNextOp(g, NextBlocks(g, b)[1])

\* after block t comes another check, and nothing else
IsCheckedAgain(g, next) ==
  /\ next # <<>>
  /\ IsExceptionCheck(g, next[1], next[2])
  /\ next[2] = Len(g.blocks[next[1]].ops)

ChecksAgainIfRaised(g, b) ==
  LET next == FindNextOp(g, NextBlocks(g, b)[2])
  IN  IsCheckedAgain(g, next) /\ IsExceptionalReturn(g, NextBlocks(g, next[1])[2])
ChecksAgainIfNot(g, b) ==
  /\ IsCheckedAgain(g, FindNextOp(g, NextBlocks(g, b)[1]))
  /\ NextOf(g, NextBlocks(g, b)[2]).kind = "return"

\* the test at the end of block b becomes one of False
NeverRaised(g, b) == [g EXCEPT !.blocks[b].next.args = <<False>>]

CleanedUp(g) == RemoveDead(JoinBlocks(RemoveEmptyBlocks(RemoveIfTrueFalse(g))))

SkipSecondCheck(g, b, next) ==
  LET return == NextBlocks(g, next)[2]
  IN  NeverRaised([g EXCEPT !.blocks[b].next.targets[2] = return], next)

RemoveDoubleCheckOnce(g) ==
  LET checks == SelectSeq(IterBlocks(g), LAMBDA b : EndsWithCheck(g, b))
      raised == SelectSeq(checks, LAMBDA b : ChecksAgainIfRaised(g, b))
      other == SelectSeq(checks, LAMBDA b : ChecksAgainIfNot(g, b))
      b == IF raised # <<>> THEN raised[1] ELSE other[1]
      h == IF raised # <<>> THEN SkipSecondCheck(g, b, FindNextOp(g, NextBlocks(g, b)[2])[1])
           ELSE NeverRaised(g, FindNextOp(g, NextBlocks(g, b)[1])[1])
  IN  IF raised = <<>> /\ other = <<>> THEN g ELSE CleanedUp(h)
RemoveDoubleExceptionCheck(g) == Repeat(RemoveDoubleCheckOnce, g)

(***************************************************************************)
(* inline.  sub: the graph of the function that op number n calls.         *)
(***************************************************************************)

\* a value of sub, in a copy whose operations come after the first k
CopiedValue(v, k, actuals) ==
  CASE v[1] = "op" -> OpValue(v[2] + k)
    [] v[1] = "arg" -> actuals[v[2]]
    [] OTHER -> v
CopiedArgs(args, k, actuals) == [i \in DOMAIN args |-> CopiedValue(args[i], k, actuals)]
Shifted(s, k) == [i \in DOMAIN s |-> s[i] + k]

\* copy_operations, for the whole graph
CopyOps(g, sub, actuals) ==
  [g EXCEPT !.ops = @ \o [n \in DOMAIN sub.ops |->
     [sub.ops[n] EXCEPT !.args = CopiedArgs(@, Len(g.ops), actuals),
                        !.prev = Shifted(@, Len(g.blocks))]]]

InlineBlock(g, b, index, sub) ==
  LET op == g.ops[g.blocks[b].ops[index]]
      h == WithOp(CopyOps(g, sub, op.args), Comment)
      copied == Shifted(sub.blocks[sub.start].ops, Len(g.ops))
      result == CopiedValue(NextOf(sub, sub.start).args[1], Len(g.ops), op.args)
      ops == SubSeq(g.blocks[b].ops, 1, index - 1) \o <<LastOp(h)>> \o copied
             \o SubSeq(g.blocks[b].ops, index + 1, Len(g.blocks[b].ops))
  IN  ReplaceOps(WithOps(h, b, ops), OpValue(g.blocks[b].ops[index]) :> result)

\* copy_blocks: block t of sub, where k blocks were before, returning to back
CopiedBlock(block, kops, k, actuals, back) ==
  [ops |-> Shifted(block.ops, kops),
   next |-> IF block.next.kind = "return" THEN Goto(back)
            ELSE [block.next EXCEPT !.args = CopiedArgs(@, kops, actuals),
                                    !.targets = Shifted(@, k)]]

\* the number of the block that the copies of the returning blocks go to
ReturnBlock(g, sub) == Len(g.blocks) + Len(sub.blocks) + 1
ReturnPhi(g, sub, actuals) ==
  LET returning == Reverse(SelectSeq(TopoOrder(sub), LAMBDA b : NextOf(sub, b).kind = "return"))
      value(b) == NextOf(sub, b).args[1]
  IN  Phi(Shifted(returning, Len(g.blocks)),
          [i \in DOMAIN returning |-> CopiedValue(value(returning[i]), Len(g.ops), actuals)],
          IF returning = <<>> THEN "unit" ELSE TypeOf(sub, value(returning[1])))

CopyBlocks(g, sub, actuals, rest) ==
  LET h == WithOp(CopyOps(g, sub, actuals), ReturnPhi(g, sub, actuals))
      blocks == [b \in DOMAIN sub.blocks |->
        CopiedBlock(sub.blocks[b], Len(g.ops), Len(g.blocks), actuals, ReturnBlock(g, sub))]
  IN  WithBlock([h EXCEPT !.blocks = @ \o blocks], <<LastOp(h)>>, Goto(rest))

\* _inline
InlineGraph(g, b, index, sub) ==
  LET n == g.blocks[b].ops[index]
      split == WithOp(SplitBlock(g, b, index), Comment)
      start == WithOps(split, b, Append(split.blocks[b].ops, LastOp(split)))
      copied == CopyBlocks(start, sub, g.ops[n].args, LastBlock(split))
      entered == WithNext(copied, b, Goto(sub.start + Len(split.blocks)))
  IN  SimplifyPhis(RemoveUnreachablePrevs(
        ReplaceOps(entered, OpValue(n) :> OpValue(LastOp(copied)))))

\* s: g, done (inlining starts again)
RECURSIVE InlineInBlock(_, _, _)
InlineInBlock(g, b, inlinable) ==
  LET ops == g.blocks[b].ops
      name(n) == g.ops[n].name
      index == SelectInSeq(ops, LAMBDA n : name(n) \in DOMAIN inlinable)
      sub == inlinable[name(ops[index])]
  IN  IF index = 0 THEN [g |-> g, done |-> FALSE]
      ELSE IF NextOf(sub, sub.start).kind = "return"
           THEN InlineInBlock(InlineBlock(g, b, index, sub), b, inlinable)
      ELSE [g |-> RemoveDoubleExceptionCheck(JoinBlocks(RemoveEmptyBlocks(
                    InlineGraph(g, b, index, sub)))),
            done |-> TRUE]

InlineOnce(g, inlinable) ==
  LET s == FoldLeft(LAMBDA t, b : IF t.done THEN t ELSE InlineInBlock(t.g, b, inlinable),
                    [g |-> g, done |-> FALSE], IterBlocks(g))
  IN  IF s.done \/ s.g = g THEN s.g ELSE RemoveDoubleExceptionCheck(s.g)
Inline(g, inlinable) == Repeat(LAMBDA h : InlineOnce(h, inlinable), g)

\* should_inline
ShouldInline(g, name) ==
  LET blocks == IterBlocks(g)
      ops == FlattenSeq([i \in DOMAIN blocks |-> g.blocks[blocks[i]].ops])
  IN  /\ ~ g.has_loop
      /\ \A n \in Range(ops) : g.ops[n].name # name
      /\ Len(blocks) <= 4 /\ Len(ops) < 25

(***************************************************************************)
(* _bare_optimize                                                          *)
(***************************************************************************)

Passes ==
  <<"propagate_equality", "join_blocks", "remove_dead", "simplify_phis", "inline", "localopt",
    "remove_empty_blocks", "swap_not", "cse_global_reads", "localopt", "remove_if_phi_constant",
    "remove_useless_switch">>

Apply(pass, g, inlinable) ==
  CASE pass = "propagate_equality" -> PropagateEquality(g)
    [] pass = "join_blocks" -> JoinBlocks(g)
    [] pass = "remove_dead" -> RemoveDead(g)
    [] pass = "simplify_phis" -> SimplifyPhis(g)
    [] pass = "inline" -> Inline(g, inlinable)
    [] pass = "localopt" -> LocalOpt(g)
    [] pass = "remove_empty_blocks" -> RemoveEmptyBlocks(g)
    [] pass = "swap_not" -> SwapNot(g)
    [] pass = "cse_global_reads" -> CseGlobalReads(g)
    [] pass = "remove_if_phi_constant" -> RemoveIfPhiConstant(g)
    [] pass = "remove_useless_switch" -> RemoveUselessSwitch(g)
=============================================================================
