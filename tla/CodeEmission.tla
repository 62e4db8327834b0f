---------------------------- MODULE CodeEmission ----------------------------
(***************************************************************************)
(* The code that is made for a graph (CodeEmitter, remove_critical_edges   *)
(* and remove_phis of pydrofoil/emitfunction.py): phis become assignments  *)
(* at the end of the blocks before, one after the other, and a pure        *)
(* operation that is used once is printed where it is used.                *)
(***************************************************************************)
EXTENDS GraphOptimizer

\* an empty block on the edge from b to t
SplitEdge(g, b, t) ==
  LET h == WithBlock(g, <<>>, Goto(t))
  IN  ReplacePrev(ReplaceNext(h, b, t, LastBlock(h)), t, b, LastBlock(h))

\* an edge is critical if it is not the only one at either end
SplitCriticalEdges(g, b, entry) ==
  IF Len(NextBlocks(g, b)) = 1 THEN g
  ELSE FoldLeft(LAMBDA h, t : IF Len(entry[t]) = 1 THEN h ELSE SplitEdge(h, b, t),
                g, NextBlocks(g, b))
RemoveCriticalEdgesWith(g, map) ==
  FoldLeft(LAMBDA h, b : SplitCriticalEdges(h, b, map.entry), g, IterBlocks(g))
RemoveCriticalEdges(g) == RemoveCriticalEdgesWith(g, EntryMap(g))

\* mutant: operations that are used more than once are printed as well
PrintedOften(g) ==
  {n \in UNION {Range(g.blocks[b].ops) : b \in Range(IterBlocks(g))} :
     IsPure(g.ops[n]) /\ Uses(g, OpValue(n)) >= 1}

\* _can_print_op_anywhere, and the use count of one
Printed(g) ==
  {n \in UNION {Range(g.blocks[b].ops) : b \in Range(IterBlocks(g))} :
     IsPure(g.ops[n]) /\ Uses(g, OpValue(n)) = 1}

\* NonSSAAssignment
Copy(target, source) ==
  [kind |-> "copy", name |-> "copy", args |-> <<target, source>>, prev |-> <<>>, type |-> "unit"]

\* the assignments at the end of block b for the phis of block t
CopiesFor(g, b, t) ==
  LET from(n) == SelectInSeq(g.ops[n].prev, LAMBDA p : p = b)
      phis == SelectSeq(PhisOf(g, t), LAMBDA n :
                from(n) # 0 /\ g.ops[n].args[from(n)] # OpValue(n))
  IN  [i \in DOMAIN phis |-> Copy(OpValue(phis[i]), g.ops[phis[i]].args[from(phis[i])])]

Overlap(copies) ==
  {c.args[1] : c \in Range(copies)} \cap {c.args[2] : c \in Range(copies)} # {}

AddCopies(g, b, copies) ==
  [Asserting(~ Overlap(copies), "remove_phis", g) EXCEPT
     !.ops = @ \o copies,
     !.blocks[b].ops = @ \o [i \in DOMAIN copies |-> Len(g.ops) + i]]

RemovePhis(g) ==
  LET blocks == IterBlocks(g)
      copies(b) == FlattenSeq([i \in DOMAIN blocks |-> CopiesFor(g, b, blocks[i])])
      added == FoldLeft(LAMBDA h, b : AddCopies(h, b, copies(b)), g, blocks)
  IN  [added EXCEPT !.blocks = [b \in DOMAIN @ |->
        [@[b] EXCEPT !.ops = SelectSeq(@, LAMBDA n : ~ IsPhi(added.ops[n]))]]]

\* the operations that are printed are chosen before the phis are removed
EmittedFrom(g) == [g |-> RemovePhis(g), printed |-> Printed(g)]
EmittedCode(g) == EmittedFrom(RemoveCriticalEdges(g))
=============================================================================
