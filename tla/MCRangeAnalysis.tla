-------------------------- MODULE MCRangeAnalysis --------------------------
(***************************************************************************)
(* RangeAnalysis on families of functions of the arguments x and y.        *)
(* Machine integers are -3 .. 2.                                           *)
(***************************************************************************)
EXTENDS RangeAnalysis

V(name) == [var |-> name]
N(number) == [num |-> number]
Op(id, kind, args) == [id |-> id, kind |-> kind, args |-> args]
Phi(id, args, prev) == [id |-> id, kind |-> "phi", args |-> args, from |-> prev]

Goto(b) == [kind |-> "goto", target |-> b]
If(cond, t, f) == [kind |-> "if", cond |-> cond, true |-> t, false |-> f]
Return == [kind |-> "return"]
Raise == [kind |-> "raise"]
Block(ops, next) == [ops |-> ops, next |-> next]
Function(blocks) ==
  [args |-> {"x", "y"}, bools |-> {"c1", "c2", "c3", "c4"}, blocks |-> blocks]

Kinds == {"add", "sub", "mult", "tdiv", "ediv", "lshift", "rshift"}

\* one operation on x and y, either of which is known to be a machine integer
\* or not, after two conditions, and a condition on its result
Arithmetic(kind, convx, convy, cmpx, cmpy, ky, cmp) ==
  LET x == V(IF convx THEN "xi" ELSE "x")
      y == V(IF convy THEN "yi" ELSE "y")
      conversion(conv, id, name) ==
        IF conv THEN <<Op(id, "int_to_int64", <<V(name)>>)>> ELSE <<>>
  IN  Function(<<
        Block(conversion(convx, "xi", "x") \o conversion(convy, "yi", "y")
                \o <<Op("c1", cmpx, <<x, N(0)>>)>>, If("c1", 2, 6)),
        Block(<<Op("c2", cmpy, <<N(ky), y>>)>>, If("c2", 3, 6)),
        Block(<<Op("z", kind, <<x, y>>), Op("c3", cmp, <<V("z"), N(1)>>)>>,
              If("c3", 4, 5)),
        Block(<<Op("i", "int_to_int64", <<V("z")>>)>>, Return),
        Block(<<Op("s", "sub", <<N(0), V("z")>>)>>, Return),
        Block(<<>>, Raise)>>)

ArithmeticFunctions ==
  {Arithmetic(kind, convx, convy, cmpx, cmpy, ky, cmp) :
     kind \in Kinds, convx \in BOOLEAN, convy \in BOOLEAN,
     cmpx \in {"lteq", "gt"}, cmpy \in {"lteq", "gteq"}, ky \in {0, 1},
     cmp \in {"lt", "eq"}}

\* two paths that join, a phi, the first condition once more on one of them,
\* and a condition that compares the phi with an argument
Merging(cmp1, cmp2, k, again, left) ==
  Function(<<
    Block(<<Op("c1", cmp1, <<V("x"), N(k)>>)>>, If("c1", 2, 3)),
    Block(<<Op("a", left,
               IF left = "add" THEN <<V("x"), N(1)>> ELSE <<V("x")>>)>>,
          IF again THEN If("c1", 4, 6) ELSE Goto(4)),
    Block(<<Op("b", "int_to_int64", <<V("x")>>)>>, Goto(4)),
    Block(<<Phi("p", <<V("a"), V("b")>>, <<2, 3>>),
            Op("c2", cmp2, <<V("p"), V("y")>>),
            Op("c3", "eq", <<V("x"), N(k)>>)>>, If("c2", 5, 6)),
    Block(<<Op("d", "sub", <<V("y"), V("p")>>)>>, If("c3", 6, 7)),
    Block(<<Phi("q", <<N(k), V("p"), V("d")>>, <<2, 4, 5>>),
            Op("c4", cmp1, <<V("q"), N(k)>>)>>, If("c4", 7, 8)),
    Block(<<Op("e", "add", <<V("x"), V("y")>>)>>, Return),
    Block(<<>>, Raise)>>)

MergingFunctions ==
  {Merging(cmp1, cmp2, k, again, left) :
     cmp1 \in Comparisons, cmp2 \in Comparisons, k \in {-1, 1},
     again \in BOOLEAN, left \in {"add", "int_to_int64"}}

\* a Boolean argument, a Boolean that two paths join to, and results of calls
Flags(cmp, call, flag, kind) ==
  [args |-> {"x", "f"}, bools |-> {"f", "c", "p", "t"},
   blocks |-> <<
     Block(<<Op("c", cmp, <<V("x"), N(0)>>)>>, If("f", 2, 3)),
     Block(<<Op("a", call, <<>>)>>, Goto(4)),
     Block(<<Op("t", "call_bool", <<>>)>>, Goto(4)),
     Block(<<Phi("p", <<V("c"), flag>>, <<2, 3>>),
             Phi("v", <<V("a"), N(1)>>, <<2, 3>>)>>, If("p", 5, 6)),
     Block(<<Op("w", kind, <<V("v")>>)>>, If("c", 6, 7)),
     Block(<<Op("s", "sub", <<V("v"), V("x")>>)>>, Return),
     Block(<<>>, Raise)>>]

FlagFunctions ==
  {Flags(cmp, call, flag, kind) :
     cmp \in Comparisons, call \in {"call_int", "call_machine_int"},
     flag \in {N(0), N(1), V("f"), V("t")}, kind \in {"pow2", "int64_to_int"}}

\* two conditions on x that are computed before either of them is tested
Stale(cmp1, cmp2, k) ==
  Function(<<
    Block(<<Op("c1", cmp1, <<V("x"), N(0)>>), Op("c2", cmp2, <<V("x"), N(k)>>)>>,
          If("c1", 2, 4)),
    Block(<<>>, If("c2", 3, 4)),
    Block(<<Op("a", "add", <<V("x"), N(1)>>)>>, Return),
    Block(<<>>, Raise)>>)

StaleFunctions ==
  {Stale(cmp1, cmp2, k) :
     cmp1 \in Comparisons, cmp2 \in Comparisons, k \in {-1, 0, 1}}

\* a number with a bound near those of machine integers, converted in the block that computes it
Edge(cmp, k) ==
  Function(<<
    Block(<<Op("c1", cmp, <<V("x"), N(k)>>)>>, If("c1", 2, 3)),
    Block(<<Op("z", "add", <<V("x"), N(0)>>),
            Op("i", "int_to_int64", <<V("z")>>)>>, Return),
    Block(<<>>, Raise)>>)

EdgeFunctions == {Edge(cmp, k) : cmp \in Comparisons, k \in {-4, -3, 1, 2}}

Functions ==
  ArithmeticFunctions \union MergingFunctions \union FlagFunctions
    \union StaleFunctions \union EdgeFunctions
MCInputs == -4 .. 4

\* the names that every path to a block computes: those that no block which
\* leads to it lacks
Dominating(g) ==
  LET all == g.args \union {OpAt(g, p).id : p \in Positions(g)}
      names[b \in DOMAIN g.blocks] ==
        IF b = 1 THEN g.args
        ELSE all \ UNION {all \ AtLeaving(g, names, c) :
               c \in {d \in DOMAIN g.blocks : b \in Targets(g.blocks[d].next)}}
  IN  [b \in DOMAIN g.blocks |-> names[b]]

ASSUME DominatingAssumption ==
  \A g \in Functions : OperandsGiven(g, Dominating(g))
=============================================================================
