----------------------------- MODULE GraphPasses -----------------------------
(***************************************************************************)
(* The passes over graphs that look at one kind of block or operation      *)
(* (pydrofoil/ir.py, from repeat on).  A pass reports that it changed a    *)
(* graph if it is not the same graph afterwards; simplify_phis alone says  *)
(* that it changed nothing whatever it did.                                *)
(***************************************************************************)
EXTENDS SsaBuilder

\* the decorator repeat (ir.py:1338)
Repeat(Pass(_), g) ==
  LET RECURSIVE again(_)
      again(h) == LET new == Pass(h) IN IF new = h THEN h ELSE again(new)
  IN  again(g)

\* a loop over iterblocks (ir.py:659) that may change what follows a block
ForBlocks(Visit(_, _), g0) ==
  LET RECURSIVE walk(_, _, _)
      step(g, todo, seen, b) ==
        walk(g, Front(todo) \o NextBlocks(g, b), seen \union {b})
      walk(g, todo, seen) ==
        IF todo = <<>> THEN g
        ELSE IF Last(todo) \in seen THEN walk(g, Front(todo), seen)
        ELSE step(Visit(g, Last(todo)), todo, seen, Last(todo))
  IN  walk(g0, <<g0.start>>, {})

Numbers(ops) == {OpValue(n) : n \in Range(ops)}
Without(s, S) == SelectSeq(s, LAMBDA x : x \notin S)

(***************************************************************************)
(* propagate_equality.  found: a function from targets and values to the   *)
(* constants they were found equal to, and where.                          *)
(***************************************************************************)

\* the block b ends with a test of whether a value is a constant
EqualityTest(g, b) ==
  LET v == NextOf(g, b).args[1]
      args == g.ops[v[2]].args
      const == {i \in DOMAIN args : args[i][1] = "int"}
  IN  IF NextOf(g, b).kind # "if" \/ ~ IsOp(v) \/ g.ops[v[2]].name # "eq" \/ Cardinality(const) # 1
      THEN <<>>
      ELSE LET i == CHOOSE j \in const : TRUE IN <<args[3 - i], args[i]>>

\* the operations that use v in block b or a block it dominates
UsesBelow(g, b, v, dom) ==
  {n \in UNION {Range(g.blocks[d].ops) : d \in {c \in DOMAIN dom : b \in dom[c]}} :
     v \in Range(g.ops[n].args)}

ReplaceIn(g, uses, v, new) ==
  [g EXCEPT !.ops = [n \in DOMAIN @ |->
    IF n \in uses THEN [@[n] EXCEPT !.args = Renamed(@, v, new)] ELSE @[n]]]

\* s: g, found; sources: what is known of v at the start of b
Propagate(s, b, v, sources, dom) ==
  LET uses == UsesBelow(s.g, b, v, dom)
      phi == Phi([i \in DOMAIN sources |-> sources[i][2]], [i \in DOMAIN sources |-> sources[i][1]],
                 "int")
      g == WithOp(s.g, phi)
      new == LastOp(g)
  IN  IF uses = {} THEN s
      ELSE IF Len(sources) = 1 THEN [s EXCEPT !.g = ReplaceIn(@, uses, v, sources[1][1])]
      ELSE [s EXCEPT !.g = ReplaceIn(WithOps(g, b, <<new>> \o g.blocks[b].ops), uses, v,
                                     OpValue(new))]

EqualityFrom(s, b, test, map, dom) ==
  LET target == NextOf(s.g, b).targets[2]
      key == <<target, test[1]>>
      sources == (IF key \in DOMAIN s.found THEN s.found[key] ELSE <<>>) \o <<<<test[2], b>>>>
      t == [s EXCEPT !.found = (key :> sources) @@ @]
  IN  IF Len(sources) # Len(map.entry[target]) THEN t
      ELSE Propagate(t, target, test[1], sources, dom)

PropagateEqualityWith(g, map, dom) ==
  FoldLeft(LAMBDA s, b : IF EqualityTest(s.g, b) = <<>> THEN s
                         ELSE EqualityFrom(s, b, EqualityTest(s.g, b), map, dom),
           [g |-> g, found |-> <<>>], TopoOrder(g)).g
PropagateEqualityIn(g, map) == PropagateEqualityWith(g, map, Dominators(g, map))
PropagateEquality(g) == PropagateEqualityIn(g, EntryMap(g))

(***************************************************************************)
(* join_blocks, remove_dead                                                *)
(***************************************************************************)

\* s: g, gone (the blocks whose operations are None)
RECURSIVE JoinFrom(_, _, _)
JoinFrom(s, b, map) ==
  LET g == s.g
      n == NextBlocks(g, b)[1]
      h == WithNext(WithOps(g, b, g.blocks[b].ops \o g.blocks[n].ops), b, NextOf(g, n))
      joined == Asserting(PhisOf(g, n) = <<>>, "join_blocks", ReplacePrevs(h, NextBlocks(h, b), n, b))
  IN  IF NextOf(g, b).kind # "goto" \/ Len(map.entry[n]) # 1 THEN s
      ELSE JoinFrom([g |-> joined, gone |-> s.gone \union {n}], b, map)

JoinBlocksWith(g, map) ==
  FoldLeft(LAMBDA s, b : IF b \in s.gone THEN s ELSE JoinFrom(s, b, map),
           [g |-> g, gone |-> {}], map.order).g
JoinOnce(g) == JoinBlocksWith(g, EntryMap(g))
JoinBlocks(g) == Repeat(JoinOnce, g)

CanRemoveOp(op) == op.kind \in {"read", "phi"} \/ IsPure(op)

RemoveDeadIn(g, blocks) ==
  LET args(n) == g.ops[n].args
      \* a phi does not need itself, unless it names itself more than once
      used(n) == IF IsPhi(g.ops[n]) /\ Count(OpValue(n), args(n)) = 1
                 THEN Range(args(n)) \ {OpValue(n)} ELSE Range(args(n))
      needed == UNION {UNION {used(n) : n \in Range(g.blocks[b].ops)} : b \in blocks}
                \union UNION {Range(NextOf(g, b).args) : b \in blocks}
      stays(n) == OpValue(n) \in needed \/ ~ CanRemoveOp(g.ops[n])
  IN  [g EXCEPT !.blocks = [b \in DOMAIN @ |->
        IF b \in blocks THEN [@[b] EXCEPT !.ops = SelectSeq(@, stays)] ELSE @[b]]]
RemoveDeadOnce(g) == RemoveDeadIn(g, Range(IterBlocks(g)))
RemoveDead(g) == Repeat(RemoveDeadOnce, g)

(***************************************************************************)
(* simplify_phis, remove_empty_blocks, swap_not, remove_useless_switch:    *)
(* what they do at a block.                                                *)
(***************************************************************************)

\* the values of a phi but itself
OtherValues(g, n) == Range(g.ops[n].args) \ {OpValue(n)}
IsUseless(g, n) == IsPhi(g.ops[n]) /\ Cardinality(OtherValues(g, n)) = 1

\* one phi of a block at a time; with: the phis replaced so far.  The phis of
\* a block that come after one that is removed stay for the next round.
SimplifyPhi(s, b) ==
  LET useless == SelectSeq(s.g.blocks[b].ops, LAMBDA n : IsUseless(s.g, n))
      n == useless[1]
      with == (OpValue(n) :> CHOOSE v \in OtherValues(s.g, n) : TRUE) @@ s.with
  IN  IF useless = <<>> THEN s
      ELSE [g |-> ReplaceOps(WithOps(s.g, b, Without(s.g.blocks[b].ops, {n})), with), with |-> with]
SimplifyPhis(g) == FoldLeft(SimplifyPhi, [g |-> g, with |-> <<>>], IterBlocks(g)).g

\* prevblocks_from_phis
SamePrevs(g, b) == \A n, m \in Range(PhisOf(g, b)) : g.ops[n].prev = g.ops[m].prev
PrevsFromPhis(g, b) ==
  LET phis == PhisOf(g, b) IN IF phis = <<>> THEN {} ELSE Range(g.ops[phis[1]].prev)

\* mutant: the phis of the target are not looked at
RemoveEmptyBlockAnyhow(g, b, next) ==
  IF g.blocks[next].ops # <<>> \/ NextOf(g, next).kind # "goto" THEN g
  ELSE ReplacePrev(ReplaceNext(g, b, next, NextBlocks(g, next)[1]), NextBlocks(g, next)[1], next, b)

\* the edge from block b to next, which may be empty
RemoveEmptyBlock(g, b, next) ==
  LET target == NextBlocks(g, next)[1]
      h == Asserting(SamePrevs(g, target), "prevblocks_from_phis", g)
  IN  IF g.blocks[next].ops # <<>> \/ NextOf(g, next).kind # "goto" THEN g
      ELSE IF next \in PrevsFromPhis(g, target) THEN h
      ELSE ReplacePrev(ReplaceNext(h, b, next, target), target, next, b)

RemoveEmptyBefore(g, b) ==
  FoldLeft(LAMBDA h, next : RemoveEmptyBlock(h, b, next), g, NextBlocks(g, b))
RemoveEmptyOnce(g) == ForBlocks(RemoveEmptyBefore, g)
RemoveEmptyBlocks(g) == Repeat(RemoveEmptyOnce, g)

ThenRemoveDead(g, h) == IF h = g THEN g ELSE RemoveDead(h)

SwapNotAt(g, b) ==
  LET next == NextOf(g, b)
      op == g.ops[next.args[1][2]]
  IN  IF next.kind # "if" \/ ~ IsOp(next.args[1]) \/ op.name # "not" THEN g
      ELSE WithNext(g, b, ConditionalGoto(op.args[1], next.targets[1], next.targets[2]))

SwapNotOnce(g) == ThenRemoveDead(g, ForBlocks(SwapNotAt, g))
SwapNot(g) == Repeat(SwapNotOnce, g)

UselessSwitchAt(g, b) ==
  LET next == NextOf(g, b)
  IN  IF next.kind # "if" \/ next.targets[1] # next.targets[2] THEN g
      ELSE Asserting(PhisOf(g, next.targets[1]) = <<>>, "remove_useless_switch",
                     WithNext(g, b, Goto(next.targets[1])))
\* this pass is not repeated
RemoveUselessSwitch(g) == ThenRemoveDead(g, ForBlocks(UselessSwitchAt, g))

(***************************************************************************)
(* remove_if_true_false, _remove_unreachable_phi_prevvalues                *)
(***************************************************************************)

TakeKnownBranch(g, b) ==
  LET next == NextOf(g, b)
  IN  IF next.kind # "if" \/ next.args[1][1] # "bool" THEN g
      ELSE WithNext(g, b, Goto(next.targets[next.args[1][2] + 1]))

\* s: g, with (the phis replaced so far)
ReachablePrevs(s, b, entry, n) ==
  LET op == s.g.ops[n]
      kept == SelectSeq([i \in DOMAIN op.prev |-> i], LAMBDA i : op.prev[i] \in Range(entry))
      new == [op EXCEPT !.prev = [i \in DOMAIN kept |-> op.prev[kept[i]]],
                        !.args = Mapped([i \in DOMAIN kept |-> op.args[kept[i]]], s.with)]
      g == [s.g EXCEPT !.ops[n] = new]
  IN  IF Len(kept) # 1 THEN [s EXCEPT !.g = g]
      ELSE [g |-> WithOps(g, b, Without(g.blocks[b].ops, {n})),
            with |-> (OpValue(n) :> new.args[1]) @@ s.with]

RemoveUnreachablePrevsWith(g, map) ==
  LET s == FoldLeft(LAMBDA t, b : FoldLeft(LAMBDA u, n : ReachablePrevs(u, b, map.entry[b], n),
                                           t, PhisOf(t.g, b)),
                    [g |-> g, with |-> <<>>], map.order)
  IN  ReplaceOps(s.g, s.with)
RemoveUnreachablePrevs(g) == RemoveUnreachablePrevsWith(g, EntryMap(g))

ThenRemovePrevs(g, h) == IF h = g THEN g ELSE RemoveUnreachablePrevs(h)
RemoveIfTrueFalseOnce(g) == ThenRemovePrevs(g, ForBlocks(TakeKnownBranch, g))
RemoveIfTrueFalse(g) == Repeat(RemoveIfTrueFalseOnce, g)

(***************************************************************************)
(* remove_if_phi_constant                                                  *)
(***************************************************************************)

\* the block only decides on a Boolean that is a phi of its own
DecidesOnPhi(g, b) ==
  LET ops == SelectSeq(g.blocks[b].ops, LAMBDA n : g.ops[n].kind # "comment")
  IN  /\ Len(ops) = 1
      /\ IsPhi(g.ops[ops[1]])
      /\ g.ops[ops[1]].type = "bool"
      /\ NextOf(g, b).kind = "if"
      /\ NextOf(g, b).args[1] = OpValue(ops[1])

\* the predecessors that know the value go straight to the target
SkipDecision(g, b, n) ==
  LET op == g.ops[n]
      known == SelectSeq([i \in DOMAIN op.args |-> i], LAMBDA i : op.args[i][1] = "bool")
      kept == SelectSeq([i \in DOMAIN op.args |-> i], LAMBDA i : op.args[i][1] # "bool")
      skip(h, i) == ReplaceNext(h, op.prev[i], b, NextOf(h, b).targets[op.args[i][2] + 1])
  IN  [FoldLeft(skip, g, known) EXCEPT
         !.ops[n].prev = [i \in DOMAIN kept |-> op.prev[kept[i]]],
         !.ops[n].args = [i \in DOMAIN kept |-> op.args[kept[i]]]]

\* original: the graph in which uses are counted
SkipDecisionAt(original, g, b) ==
  LET n == NextOf(g, b).args[1][2]
  IN  IF DecidesOnPhi(g, b) /\ Uses(original, OpValue(n)) = 1 THEN SkipDecision(g, b, n) ELSE g

\* simplify_phis runs once here as it does in _bare_optimize
Tidied(g) == JoinBlocks(SimplifyPhis(RemoveUnreachablePrevs(g)))
RemoveIfPhiConstantOnce(g) ==
  LET h == ForBlocks(LAMBDA x, b : SkipDecisionAt(g, x, b), g)
  IN  IF h = g THEN g ELSE Tidied(h)
RemoveIfPhiConstant(g) == Repeat(RemoveIfPhiConstantOnce, g)

(***************************************************************************)
(* cse_global_reads.  available: for each block, what is known of the      *)
(* registers at its end; s: g, now (the same at an operation), with.       *)
(***************************************************************************)

Empty == [x \in {} |-> x]

AtStart(available, prevs) ==
  IF prevs = <<>> THEN Empty
  ELSE LET first == available[prevs[1]]
           same == {r \in DOMAIN first : \A i \in DOMAIN prevs :
                     /\ prevs[i] \in DOMAIN available
                     /\ r \in DOMAIN available[prevs[i]]
                     /\ available[prevs[i]][r] = first[r]}
       IN  [r \in same |-> first[r]]

\* mutant: a call does not change registers
ForgetsNothing(op) == op.kind = "write"

ForgetsGlobals(op) == ~ (op.kind \in {"phi", "comment"} \/ IsPure(op))

GlobalOp(s, b, n) ==
  LET op == s.g.ops[n]
  IN  CASE op.kind = "write" -> [s EXCEPT !.now = (op.name :> op.args[1]) @@ @]
        [] op.kind = "read" /\ op.name \notin DOMAIN s.now ->
             [s EXCEPT !.now = (op.name :> OpValue(n)) @@ @]
        [] op.kind = "read" /\ op.name \in DOMAIN s.now ->
             [s EXCEPT !.g = WithOps(@, b, Without(@.blocks[b].ops, {n})),
                       !.with = (OpValue(n) :> s.now[op.name]) @@ @]
        [] OTHER -> IF ForgetsGlobals(op) THEN [s EXCEPT !.now = Empty] ELSE s

GlobalBlock(s, b, map) ==
  LET t == FoldLeft(LAMBDA u, n : GlobalOp(u, b, n),
                    [s EXCEPT !.now = AtStart(s.available, map.entry[b])], s.g.blocks[b].ops)
  IN  [t EXCEPT !.available = (b :> t.now) @@ @]

CseGlobalReadsWith(g, map) ==
  LET s == FoldLeft(LAMBDA t, b : GlobalBlock(t, b, map),
                    [g |-> g, now |-> Empty, with |-> Empty, available |-> Empty], TopoOrder(g))
  IN  ReplaceAllOps(s.g, s.with)
CseGlobalReadsOnce(g) == CseGlobalReadsWith(g, EntryMap(g))
CseGlobalReads(g) == Repeat(CseGlobalReadsOnce, g)
=============================================================================
