---------------------------- MODULE MCCompileRun ----------------------------
(***************************************************************************)
(* Small functions in the shapes in which the Sail compiler lays out       *)
(* conditionals, short-circuit conditions, loops, checks after calls that  *)
(* may throw, and throws.                                                  *)
(***************************************************************************)
EXTENDS CompileRun

(***************************************************************************)
(* Statements are code whose targets count from their first instruction.   *)
(***************************************************************************)

Exceptional == 1000  \* the target of a function's exceptional return

Moved(code, k) ==
  [pc \in DOMAIN code |->
    IF code[pc].do \in Jumps /\ code[pc].target # Exceptional
    THEN [code[pc] EXCEPT !.target = @ + k] ELSE code[pc]]

Then(s, t) == s \o Moved(t, Len(s))
\* control never comes to the end of s
EndsIn(s) ==
  /\ s # <<>>
  /\ Last(s).do \in {"goto", "end", "arbitrary", "exit"}
  /\ \A pc \in DOMAIN s : s[pc].do \in Jumps => s[pc].target # Len(s)

Bool(x) == [name |-> "is", args |-> <<Var(x)>>]
Is(x, n) == [name |-> "eq", args |-> <<Var(x), MachineIntConstant(n)>>]
Not(x) == [name |-> "not", args |-> <<Var(x)>>]

Set(x, v, type) == <<Assign(x, v, type)>>
Mix(x, v, w) == <<Call(x, "mix", <<v, w>>, "int")>>
SailAssert(x) == <<Declare("u", "unit"), Call("u", "assert", <<Var(x)>>, "unit")>>
Checked(x, f, args) ==
  <<Call(x, f, args, "int"), JumpIf(Var("have_exception"), 3), GotoPc(4), GotoPc(Exceptional)>>
Throw == <<Assign("have_exception", True, "bool"), GotoPc(Exceptional)>>
\* a call in a try block that is followed by the handler s
Handled(x, f, args, s) ==
  <<Call(x, f, args, "int"), JumpIf(Var("have_exception"), 3), GotoPc(4), GotoPc(4),
    JumpOn("not", <<Var("have_exception")>>, 6 + Len(s)),
    Assign("have_exception", False, "bool")>> \o Moved(s, 6)
If(c, s, t) ==
  LET else == IF EndsIn(t) THEN t ELSE Append(t, GotoPc(Len(t) + Len(s)))
      atThen == 1 + Len(else)
      atEnd == atThen + Len(s)
      jump(pc) == IF EndsIn(t) THEN else[pc]
                  ELSE IF pc = Len(else) THEN GotoPc(atEnd - 1) ELSE else[pc]
  IN  Then(Then(<<JumpOn(c.name, c.args, atThen)>>, [pc \in DOMAIN else |-> jump(pc)]), s)
While(c, s) ==
  Then(<<JumpOn(c.name, c.args, 2 + Len(s))>>, s) \o <<GotoPc(0)>>
\* x := y and z, where z is not looked at if y is false
And(x, y, code) == If(Bool(y), code, Set(x, False, "bool"))

Function(args, locals, body, v) ==
  LET declared == [i \in DOMAIN locals |-> Declare(locals[i].name, locals[i].type)]
      code == Then(declared, body) \o
              (IF EndsIn(body) THEN <<>> ELSE <<Assign("return", v, "int"), End>>)
      throws == \E pc \in DOMAIN code : code[pc].do \in Jumps /\ code[pc].target = Exceptional
      all == IF throws THEN Append(code, Arbitrary) ELSE code
      pcOf(target) == IF target = Exceptional THEN Len(all) ELSE target + 1
  IN  [args |-> args, result |-> "int",
       code |-> [pc \in DOMAIN all |-> IF all[pc].do \in Jumps
                                       THEN [all[pc] EXCEPT !.target = pcOf(@)] ELSE all[pc]]]

Typed(x, type) == [name |-> x, type |-> type]
Args == <<Typed("a", "int"), Typed("p", "bool")>>
Locals == <<Typed("x", "int"), Typed("b", "bool")>>

x == Var("x")
a == Var("a")
One == MachineIntConstant(1)
Zero == MachineIntConstant(0)

Stmts(ss) == FoldLeft(Then, <<>>, ss)
SetX(v) == Set("x", v, "int")
F(s) == Function(Args, Locals, Then(SetX(Zero), s), x)
IsOne(v) == <<Call("b", "eq", <<v, One>>, "bool")>>
NotB == <<Call("b", "not", <<Var("b")>>, "bool")>>

Alone(S) == {<<[name |-> "f", program |-> p]>> : p \in S}
Called(S, T) ==
  {<<[name |-> "callee", program |-> p], [name |-> "f", program |-> q]>> : p \in S, q \in T}

(***************************************************************************)
(* Two conditionals, one after the other.                                  *)
(***************************************************************************)

Atoms ==
  {SetX(a), Mix("x", x, a), SetX(One), SetX(Var("reg")),
   Set("reg", x, "int"), Checked("x", "step", <<a>>), SailAssert("p"), Throw}
Diamonds ==
  {F(Then(If(c, s, t), If(Is("x", 1), Mix("x", x, a), SetX(Var("reg"))))) :
     c \in {Bool("p"), Is("x", 1), Is("a", 1), Not("p")}, s \in Atoms, t \in Atoms}

(***************************************************************************)
(* A conditional on a short-circuit conjunction.                           *)
(***************************************************************************)

Ands ==
  {F(Stmts(<<s, And("b", "p", t), If(Bool("b"), u, v)>>)) :
     s \in {<<>>, SetX(a), Checked("x", "step", <<a>>)},
     t \in {IsOne(x), IsOne(a), Then(IsOne(x), NotB), Then(SetX(Var("reg")), IsOne(x))},
     u \in Atoms, v \in Atoms}

(***************************************************************************)
(* Loops.  In an overlapping one a variable gets what another one had      *)
(* before the loop came to its end.                                        *)
(***************************************************************************)

LoopsOf(bodies) ==
  {F(Stmts(<<Set("b", False, "bool"), SetX(s), While(c, t), u>>)) :
     s \in {Zero, a}, c \in {Is("x", 1), Bool("b")}, t \in bodies,
     u \in {<<>>, Mix("x", x, a), If(Is("x", 1), SetX(a), SetX(Var("reg")))}}
Bodies ==
  {Mix("x", x, Zero), Then(Mix("x", x, Zero), IsOne(x)),
   Then(Checked("x", "step", <<x>>), IsOne(x)),
   Stmts(<<IsOne(Var("reg")), Checked("x", "step", <<a>>)>>),
   Stmts(<<If(Is("x", 0), SetX(Var("reg")), Mix("x", x, a)), NotB>>)}
Overlapping == {Then(IsOne(x), Mix("x", x, a))}

\* a loop that keeps the last value of x: the assertion of remove_phis fails
KeepsLast ==
  Function(Args, Append(Locals, Typed("y", "int")),
    Stmts(<<SetX(Zero), Set("y", Zero, "int"),
            While(Is("x", 1), Then(Set("y", x, "int"), Mix("x", x, a)))>>), Var("y"))

\* a loop that starts where two paths meet: the phis of the second path are
\* to be patched at a block that is already built
MeetsBefore == F(Then(If(Bool("p"), SetX(a), SetX(One)), While(Is("x", 1), Mix("x", x, a))))

(***************************************************************************)
(* Functions that are called, and the functions that call them.            *)
(***************************************************************************)

Callees ==
  {F(Mix("x", a, One)), F(Then(Mix("reg", Var("reg"), a), SetX(Var("reg")))),
   F(Checked("x", "step", <<a>>)), F(If(Bool("p"), Throw, SetX(a))),
   F(Throw), F(If(Bool("p"), Checked("x", "step", <<a>>), SetX(a))),
   F(Handled("x", "step", <<a>>, SetX(One))),
   F(Then(SailAssert("p"), SetX(a))),
   F(If(Is("a", 0), SetX(One), SetX(Var("reg")))),
   F(Stmts(<<SetX(a), While(Is("x", 1), Mix("x", x, Zero))>>))}
\* a function that throws after a call of a function that may throw
Thrower == F(Then(Checked("x", "step", <<a>>), Throw))

CallOf(v) == Checked("x", "callee", <<v, Var("p")>>)
Callers ==
  {F(CallOf(a)), F(Then(CallOf(One), CallOf(x))), F(If(Is("a", 1), CallOf(a), SetX(a))),
   F(Then(If(Is("a", 1), SetX(One), SetX(Zero)), CallOf(x))),
   F(Then(CallOf(a), Throw)),
   F(Then(Handled("x", "callee", <<a, Var("p")>>, SetX(One)), Mix("x", x, a))),
   F(Then(CallOf(a), Handled("x", "callee", <<x, Var("p")>>, SetX(One)))),
   F(Then(CallOf(a), If(Bool("p"), CallOf(x), Throw)))}

MCModels ==
  Alone(Diamonds) \union Alone(Ands) \union Alone(LoopsOf(Bodies)) \union Called(Callees, Callers)
MCThrowModels == Called({Thrower}, Callers)
MCOverlapModels == Alone(LoopsOf(Overlapping))
MCKeepsLastModels == Alone({KeepsLast})
MCMeetsBeforeModels == Alone({MeetsBefore})
MCInputs == {0, 1}
MCRegisters == {0, 1}
=============================================================================
