-------------------------- MODULE MCSpecialization --------------------------
(***************************************************************************)
(* Specialization on programs of four functions: main calls f and g, f     *)
(* calls g, g calls h.                                                     *)
(***************************************************************************)
EXTENDS Specialization

C(number, name, arg) ==
  [id |-> <<number>>, name |-> <<name>>, arg |-> arg, type |-> Wide]

Fn(name, kind, result, calls, ret, rest, removable) ==
  [name |-> name, kind |-> kind, result |-> result, calls |-> calls, ret |-> ret,
   rest |-> rest, removable |-> removable]

\* main does not return an integer; the argument of its second call may be the
\* result of the first
Main(kind, arg1, arg2, rest) ==
  Fn("main", kind, "other", <<C(1, "f", arg1), C(2, "g", arg2)>>, Unknown, rest, 0)
F(result, arg, ret, size) ==
  Fn("f", size.fkind, result, <<C(1, "g", arg)>>, ret, size.f, size.fremovable)
G(arg, size) == Fn("g", "function", "int", <<C(1, "h", arg)>>, <<1>>, size.g, 0)
H(ret, size) == Fn("h", size.hkind, "int", <<>>, ret, size.h, size.hremovable)

Program(main, f, g, h, order) ==
  [functions |-> IF order = "down" THEN <<main, f, g, h>> ELSE <<h, g, f, main>>,
   entrypoints |-> {"main"}]

Args == {Number, Param, Unknown}

\* all functions large
Large == [f |-> 9, fremovable |-> 0, fkind |-> "function", g |-> 9,
          h |-> 9, hremovable |-> 0, hkind |-> "function"]
Sizes == {
  Large,
  \* the variants of f are small
  [Large EXCEPT !.f = 2, !.fremovable = 9],
  \* h is small from the start
  [Large EXCEPT !.f = 1, !.fremovable = 9, !.g = 3, !.h = 1],
  \* f becomes small, and is not specialized
  [Large EXCEPT !.f = 1, !.fremovable = 9, !.fkind = "plain"],
  \* h becomes small, and then the variants of g
  [Large EXCEPT !.g = 3, !.h = 0, !.hremovable = 9, !.hkind = "plain"]}

Programs(kind, rest, orders) ==
  {Program(Main(kind, a1, a2, rest), F(result, fa, fr, size), G(ga, size), H(hr, size), order) :
     a1 \in {Number, Unknown}, a2 \in {Number, <<1>>}, result \in {"int", "other"},
     fa \in Args, fr \in {Param, <<1>>}, ga \in Args, hr \in Args, size \in Sizes,
     order \in orders}

PlainPrograms == Programs("plain", 9, {"down", "up"})

\* main is small, and nobody calls it
MethodPrograms ==
  {p \in Programs("method", 1, {"down"}) : p.functions[1].calls[1].arg = Number}

\* h is large, is emitted itself, and calls itself; it returns what that call
\* returns or not
RecursivePrograms ==
  {[Program(Main("plain", a1, Number, 9), F("int", Param, <<1>>, Large),
            G(ga, Large), Fn("h", "function", "int", <<C(1, "h", ha)>>, hr, 9, 0),
            order) EXCEPT !.entrypoints = {"main", "h"}] :
     a1 \in {Number, Unknown}, ga \in Args, ha \in Args, hr \in {Number, Param, <<1>>},
     order \in {"down", "up"}}

\* g is inlined as soon as its variant is made, and only then grows and is
\* renamed.  In the second program the variant of z, which is small and inlined
\* itself, keeps a call of the old name.
RenamedPrograms ==
  {[functions |->
      <<Fn("g", "function", "int", <<C(1, "k", Number), C(2, "h", Param)>>, <<2>>, 1, 9),
        Fn("main", "plain", "other", <<C(1, "g", Number), C(2, "z", Number)>>,
           Unknown, 9, 0),
        Fn("h", "plain", "int", <<>>, Number, 3, 9),
        Fn("k", "function", "int", <<C(1, "m", Param)>>, <<1>>, 9, 0),
        Fn("m", "plain", "int", <<>>, Number, 1, 9),
        Fn("z", "function", "int", <<C(1, "g", Param)>>, <<1>>, 9, 0)>>,
    entrypoints |-> {"main"}],
   [functions |->
      <<Fn("z", "function", "int", <<C(1, "g", Number)>>, <<1>>, 1, 9),
        Fn("main", "plain", "other", <<C(1, "z", Number)>>, Unknown, 9, 0),
        Fn("p", "plain", "other", [n \in 1 .. 4 |-> C(n, "k", Number)], Unknown, 0, 0),
        Fn("q", "plain", "other", <<>>, Unknown, 0, 9),
        Fn("h", "plain", "int", <<C(1, "p", Unknown)>>, Number, 3, 0),
        Fn("k", "function", "other", [n \in 1 .. 4 |-> C(n, "q", Param)], Unknown, 0, 0),
        Fn("g", "function", "int",
           <<C(1, "p", Unknown), C(2, "p", Unknown), C(3, "h", Param)>>, <<3>>, 1, 0)>>,
    entrypoints |-> {"main"}]}

\* f calls g and g calls f: inlining brings a call of a variant of f into f,
\* and what a function calls of itself is not specialized
MutualPrograms ==
  {[functions |->
      <<Fn("g", "function", "int", <<C(1, "f", Param)>>, Unknown, 1, 3),
        Fn("f", "function", "int", <<C(1, "g", Number), C(2, "h", Param)>>, <<2>>, 9, 0),
        Fn("main", "plain", "other", <<C(1, "f", Unknown)>>, Unknown, 9, 0),
        Fn("h", "function", "int", <<>>, Number, 9, 0)>>,
    entrypoints |-> {"main", "f"}]}

\* inlining f brings a call of g into main after the last sweep, if MaxSweeps = 1
SweepPrograms ==
  {[functions |->
      <<Fn("f", "function", "int", <<C(1, "g", Param)>>, Unknown, 1, 3),
        Fn("main", "plain", "other", <<C(1, "f", Number)>>, Unknown, 9, 0),
        Fn("g", "function", "int", <<C(1, "h", Param)>>, <<1>>, 9, 0),
        Fn("h", "function", "int", <<>>, Number, 9, 0)>>,
    entrypoints |-> {"main"}]}

TranslatedPrograms ==
  PlainPrograms \union MethodPrograms \union RecursivePrograms
    \union RenamedPrograms \union MutualPrograms \union SweepPrograms
=============================================================================
