----------------------------- MODULE SsaGraphs -----------------------------
(***************************************************************************)
(* Graphs in SSA form (Block, Graph, Value, Next of pydrofoil/ir.py), the  *)
(* ways in which the passes go through them, and what they compute.        *)
(* Operations and blocks have numbers instead of identities; numbers are   *)
(* given out in turn and never again.                                      *)
(***************************************************************************)
EXTENDS Jib

(***************************************************************************)
(* Values, operations, and what follows a block.                           *)
(***************************************************************************)

OpValue(n) == <<"op", n>>
Argument(n) == <<"arg", n>>

IsOp(v) == v[1] = "op"
IsConstant(v) == v[1] \notin {"op", "arg"}

Operation(name, args, type) ==
  [kind |-> "operation", name |-> name, args |-> args, prev |-> <<>>, type |-> type]
GlobalRead(name, type) ==
  [kind |-> "read", name |-> name, args |-> <<>>, prev |-> <<>>, type |-> type]
GlobalWrite(name, v, type) ==
  [kind |-> "write", name |-> name, args |-> <<v>>, prev |-> <<>>, type |-> type]
Comment ==
  [kind |-> "comment", name |-> "comment", args |-> <<>>, prev |-> <<>>, type |-> "unit"]
Phi(prev, args, type) ==
  [kind |-> "phi", name |-> "phi", args |-> args, prev |-> prev, type |-> type]

IsPhi(op) == op.kind = "phi"
IsPure(op) == op.kind = "operation" /\ op.name \in PureFunctions

Goto(b) == [kind |-> "goto", args |-> <<>>, targets |-> <<b>>]
Return(v) == [kind |-> "return", args |-> <<v>>, targets |-> <<>>]
Raise == [kind |-> "raise", args |-> <<>>, targets |-> <<>>]
\* next_blocks names the false target first
ConditionalGoto(v, true, false) ==
  [kind |-> "if", args |-> <<v>>, targets |-> <<false, true>>]

(***************************************************************************)
(* Graphs: ops, blocks [ops, next], start, has_loop, args (their types),   *)
(* failed (the assertions that failed while it was made).                  *)
(***************************************************************************)

NextOf(g, b) == g.blocks[b].next
NextBlocks(g, b) == g.blocks[b].next.targets
PhisOf(g, b) == SelectSeq(g.blocks[b].ops, LAMBDA n : IsPhi(g.ops[n]))

TypeOf(g, v) ==
  CASE v[1] = "op" -> g.ops[v[2]].type
    [] v[1] = "arg" -> g.args[v[2]]
    [] v[1] = "default" -> v[2]
    [] OTHER -> v[1]

WithOps(g, b, ops) == [g EXCEPT !.blocks[b].ops = ops]
WithNext(g, b, next) == [g EXCEPT !.blocks[b].next = next]
Asserting(condition, what, g) ==
  IF condition THEN g ELSE [g EXCEPT !.failed = @ \union {what}]

\* the new operation or block has the last number
WithOp(g, op) == [g EXCEPT !.ops = Append(@, op)]
WithBlock(g, ops, next) == [g EXCEPT !.blocks = Append(@, [ops |-> ops, next |-> next])]
LastOp(g) == Len(g.ops)
LastBlock(g) == Len(g.blocks)

HasDuplicates(s) == Cardinality(Range(s)) # Len(s)

Renamed(s, old, new) == [i \in DOMAIN s |-> IF s[i] = old THEN new ELSE s[i]]
Mapped(s, map) == [i \in DOMAIN s |-> IF s[i] \in DOMAIN map THEN map[s[i]] ELSE s[i]]

\* Next.replace_next
ReplaceNext(g, b, old, new) == [g EXCEPT !.blocks[b].next.targets = Renamed(@, old, new)]

\* Block.replace_prev
ReplacePrev(g, b, old, new) ==
  LET phis == Range(PhisOf(g, b))
      h == IF phis = {} THEN g
           ELSE [g EXCEPT !.ops = [n \in DOMAIN @ |->
                  IF n \in phis THEN [@[n] EXCEPT !.prev = Renamed(@, old, new)] ELSE @[n]]]
  IN  Asserting(\A n \in phis : ~ HasDuplicates(h.ops[n].prev), "replace_prev", h)

ReplacePrevs(g, bs, old, new) ==
  FoldLeft(LAMBDA h, b : ReplacePrev(h, b, old, new), g, bs)

\* Graph.replace_ops, once; with maps values to values
ReplaceOps(g, with) ==
  IF DOMAIN with = {} THEN g
  ELSE [g EXCEPT !.ops = [n \in DOMAIN @ |-> [@[n] EXCEPT !.args = Mapped(@, with)]],
                 !.blocks = [b \in DOMAIN @ |-> [@[b] EXCEPT !.next.args = Mapped(@, with)]]]

\* replace_ops until nothing changes
RECURSIVE ReplaceAllOps(_, _)
ReplaceAllOps(g, with) ==
  LET h == ReplaceOps(g, with) IN IF h = g THEN g ELSE ReplaceAllOps(h, with)

(***************************************************************************)
(* Ways through a graph.                                                   *)
(***************************************************************************)

\* iterblocks
RECURSIVE BlocksFrom(_, _, _)
BlocksFrom(g, todo, found) ==
  IF todo = <<>> THEN found
  ELSE LET b == Last(todo)
       IN  IF b \in Range(found) THEN BlocksFrom(g, Front(todo), found)
           ELSE BlocksFrom(g, Front(todo) \o NextBlocks(g, b), Append(found, b))
IterBlocks(g) == BlocksFrom(g, <<g.start>>, <<>>)

\* b is a predecessor of t; map is [order, entry]
Entered(map, t, b) ==
  [order |-> IF map.entry[t] = <<>> THEN Append(map.order, t) ELSE map.order,
   entry |-> [map.entry EXCEPT ![t] = Append(@, b)]]

RECURSIVE EntriesFrom(_, _, _, _)
EntriesFrom(g, todo, seen, map) ==
  IF todo = <<>> THEN map
  ELSE LET b == Last(todo)
           now == seen \union {b}
           next == NextBlocks(g, b)
       IN  EntriesFrom(g, Front(todo) \o SelectSeq(next, LAMBDA t : t \notin now), now,
                       FoldLeft(LAMBDA m, t : Entered(m, t, b), map, next))

\* make_entrymap: the predecessors of each block, and the blocks in the order
\* in which they were found.  A block that is put on the list twice counts twice.
EntryMap(g) ==
  LET m == EntriesFrom(g, <<g.start>>, {},
             [order |-> <<>>, entry |-> [b \in DOMAIN g.blocks |-> <<>>]])
  IN  [order |-> IF m.entry[g.start] = <<>> THEN Append(m.order, g.start) ELSE m.order,
       entry |-> [m.entry EXCEPT ![g.start] = <<>>]]

\* topo_order and topo_order_best_attempt; waiting: the blocks that still
\* wait, and for what
RECURSIVE TopoFrom(_, _, _, _, _)
TopoFrom(g, order, ready, waiting, result) ==
  IF ready # <<>>
  THEN LET b == Last(ready)
           left == [c \in DOMAIN waiting |-> waiting[c] \ {b}]
           free == {c \in DOMAIN waiting \cap Range(NextBlocks(g, b)) : left[c] = {}}
       IN  TopoFrom(g, order, Front(ready) \o SelectSeq(order, LAMBDA c : c \in free),
                    [c \in DOMAIN waiting \ free |-> left[c]], Append(result, b))
  ELSE IF DOMAIN waiting = {} THEN result
  ELSE LET b == SelectSeq(order, LAMBDA c : c \in DOMAIN waiting)[1]
       IN  TopoFrom(g, order, <<b>>, [c \in DOMAIN waiting \ {b} |-> waiting[c]], result)

TopoOrderOf(g, order) ==
  TopoFrom(g, order, <<g.start>>,
    [b \in Range(order) \ {g.start} |->
       {p \in Range(order) : b \in Range(NextBlocks(g, p))}], <<>>)
TopoOrder(g) == TopoOrderOf(g, IterBlocks(g))

\* compute_dominators: the largest solution of the equations
RECURSIVE DominatorsFrom(_, _, _)
DominatorsFrom(g, entry, dom) ==
  LET next == [b \in DOMAIN dom |->
                IF b = g.start THEN {b}
                ELSE {b} \union {d \in DOMAIN dom : \A p \in Range(entry[b]) : d \in dom[p]}]
  IN  IF next = dom THEN dom ELSE DominatorsFrom(g, entry, next)
Dominators(g, map) == DominatorsFrom(g, map.entry, [b \in Range(map.order) |-> Range(map.order)])

\* count_uses
Count(v, s) == Cardinality({i \in DOMAIN s : s[i] = v})
Uses(g, v) ==
  LET ofBlock(b) == FoldLeft(LAMBDA n, op : n + Count(v, g.ops[op].args),
                             Count(v, NextOf(g, b).args), g.blocks[b].ops)
  IN  FoldLeft(LAMBDA n, b : n + ofBlock(b), 0, IterBlocks(g))

(***************************************************************************)
(* Graph.check.                                                            *)
(***************************************************************************)

WellFormedMap(g, map, dom) ==
  LET blocks == Range(map.order)
      defined(b) == {OpValue(n) : n \in UNION {Range(g.blocks[d].ops) : d \in dom[b]}}
      usable(v, b) == IsConstant(v) \/ v[1] = "arg" \/ v \in defined(b)
  IN  \A b \in blocks :
        /\ ~ HasDuplicates(g.blocks[b].ops)
        /\ \A i \in DOMAIN NextOf(g, b).args : usable(NextOf(g, b).args[i], b)
        /\ \A n \in Range(g.blocks[b].ops) :
             LET op == g.ops[n] IN
             IF IsPhi(op)
             THEN /\ Range(op.prev) \subseteq Range(map.entry[b])
                  /\ \A i \in DOMAIN op.args : usable(op.args[i], op.prev[i])
             ELSE \A i \in DOMAIN op.args : usable(op.args[i], b)
CheckedWith(g, map) == WellFormedMap(g, map, Dominators(g, map))
Check(g) == CheckedWith(g, EntryMap(g))

(***************************************************************************)
(* What a graph computes.  f: the functions of the model, the inputs, the  *)
(* graph g, and printed: the operations that are computed where their      *)
(* value is used (none, but in code that is made for a graph).             *)
(***************************************************************************)

RECURSIVE ValueIn(_, _, _)
ValueIn(f, env, v) ==
  LET op == f.g.ops[v[2]]
      args == [i \in DOMAIN op.args |-> ValueIn(f, env, op.args[i])]
  IN  CASE v[1] = "op" -> IF v[2] \notin f.printed THEN env[v[2]]
                          ELSE IF Unset \in Range(args) THEN Unset ELSE PureResult(op.name, args)
        [] v[1] = "arg" -> f.inputs[v[2]]
        [] OTHER -> ConstantValue(v)

\* all phis of a block take their values at once
EnterBlock(f, b, from, env) ==
  LET taken(phi) == SelectInSeq(phi.prev, LAMBDA p : p = from)
      value(phi) == IF taken(phi) = 0 THEN Unset ELSE ValueIn(f, env, phi.args[taken(phi)])
  IN  FoldLeft(LAMBDA e, n : [e EXCEPT ![n] = value(f.g.ops[n])], env, PhisOf(f.g, b))

\* operation number n, which is op, with the values args
RunOperation(f, state, op, n, args) ==
  CASE op.kind = "read" -> [state EXCEPT !.env[n] = state.memory[op.name]]
    [] op.kind = "write" -> [state EXCEPT !.memory[op.name] = args[1]]
    [] op.kind = "copy" -> [state EXCEPT !.env[op.args[1][2]] = args[2]]
    [] op.kind = "operation" ->
         LET r == CallResult(f.functions, op.name, args, state.memory, Fuel)
         IN  IF r.how = "returned"
             THEN [state EXCEPT !.env[n] = r.value, !.memory = r.memory]
             ELSE [state EXCEPT !.memory = r.memory, !.ended = r.how]
    [] OTHER -> state

RunBlockOps(f, b, state) ==
  LET op(n) == f.g.ops[n]
      run(s, n) ==
        IF s.ended # "running" \/ IsPhi(op(n)) \/ n \in f.printed THEN s
        ELSE RunOperation(f, s, op(n), n,
               [i \in DOMAIN op(n).args |-> ValueIn(f, s.env, op(n).args[i])])
  IN  FoldLeft(run, state, f.g.blocks[b].ops)

RECURSIVE RunFrom(_, _, _, _)
\* state is the one after the operations of b
RunFrom(f, b, state, fuel) ==
  LET next == NextOf(f.g, b)
      value == ValueIn(f, state.env, next.args[1])
      enter(t) ==
        RunFrom(f, t, RunBlockOps(f, t, [state EXCEPT !.env = EnterBlock(f, t, b, @)]), fuel - 1)
  IN  IF state.ended # "running" THEN Ended(state.ended, Unset, state.memory)
      ELSE IF next.kind = "raise" THEN Ended("raised", Unset, state.memory)
      ELSE IF next.kind = "return"
           THEN IF value = Unset THEN Ended("undefined", Unset, state.memory)
                                 ELSE Returned(value, state.memory)
      ELSE IF fuel = 0 THEN Ended("endless", Unset, state.memory)
      ELSE IF next.kind = "if" /\ value = Unset THEN Ended("undefined", Unset, state.memory)
      ELSE enter(IF next.kind = "goto" THEN next.targets[1] ELSE next.targets[value + 1])

GraphResult(f, reg) ==
  RunFrom(f, f.g.start,
    RunBlockOps(f, f.g.start,
      [env |-> [n \in DOMAIN f.g.ops |-> Unset], memory |-> StartMemory(reg),
       ended |-> "running"]), Fuel)
=============================================================================
