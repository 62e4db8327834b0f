---------------------------- MODULE OptimizerRun ----------------------------
(***************************************************************************)
(* The optimizer (local_optimize, pydrofoil/ir.py) at work on a program:   *)
(* it passes over the program until a pass changes nothing.  The programs  *)
(* are those that a Sail model can contain, with operands in every form    *)
(* the optimizer tells apart: an object, an object the block goes on to    *)
(* cast to a machine type, a machine value put in an object, a constant.   *)
(***************************************************************************)
EXTENDS LocalOptimizer

CONSTANTS
  Sizes,       \* bound: sizes of the bit vectors of the programs
  Values,      \* bound: the numbers their bits stand for
  Numbers,     \* bound: values of their integers
  Literals,    \* bound: numbers that are written in sums
  PassLimit,   \* passes before repeat gives up: 1000
  LongShifts   \* machine words are shifted by their width and more, too

ASSUME OptimizerAssumption ==
  /\ Sizes \subseteq 1 .. MaxInt /\ Values \subseteq Nat
  /\ Numbers \subseteq Int /\ Literals \subseteq MinInt .. MaxInt
  /\ PassLimit \in Nat /\ LongShifts \in BOOLEAN

VARIABLES
  expression,  \* the program that is optimized
  meaning,     \* what the program that was given computes (history)
  passes,      \* how often the optimizer has passed over it
  done         \* the last pass did not change it

vars == <<expression, meaning, passes, done>>

-----------------------------------------------------------------------------
(***************************************************************************)
(* Operands.                                                               *)
(***************************************************************************)

ValuesOf(n) == Values \cap 0 .. Ones(n)

ObjectsOf(n, v) ==
  {FromBigint(n, v)} \union {FromRuint(n, w) : w \in {v} \cap Word}

Vector(name, n, v) ==
  {Var(name, Gbv, x, FALSE) : x \in ObjectsOf(n, v)}
  \union {Const(Gbv, FromBigint(n, v))}
  \union (IF n <= WordBits
          THEN {Var(name, Gbv, Small(n, v), TRUE), Cast(Var(name, Bv(n), v, FALSE), Gbv)}
          ELSE {})

Vectors(name, n) == UNION {Vector(name, n, v) : v \in ValuesOf(n)}

\* an integer of a machine; objects for all others
Machine(name, n) == {FromInt64(Var(name, I64, k, FALSE)) : k \in {n} \cap MinInt .. MaxInt}

Integer(name, n) ==
  {Var(name, Int1, NumberObject(n), FALSE), IntConst(n)}
  \union Machine(name, n)
  \union {Var(name, Int1, SmallInt(k), TRUE) : k \in {n} \cap MinInt .. MaxInt}

Integers2(name) == UNION {Integer(name, n) : n \in Numbers}
MachineInts(name) == {Var(name, I64, n, FALSE) : n \in Numbers \cap MinInt .. MaxInt}

\* sizes and positions are known, or computed
Known(n) == {IntConst(n)}
Position(n) == Known(n) \union Machine("i", n) \union {Var("i", Int1, SmallInt(n), FALSE)}

Start(program) == expression = program

-----------------------------------------------------------------------------
(***************************************************************************)
(* Programs on bit vectors.                                                *)
(***************************************************************************)

StartPair ==
  \E n \in Sizes : \E x \in Vectors("x", n), y \in Vectors("y", n) :
    \/ \E op \in {"xor_bits", "and_bits", "or_bits", "add_bits", "sub_bits"} :
         Start(Op(op, <<x, y>>, Gbv))
    \/ \E op \in {"eq_bits", "neq_bits"} : Start(Op(op, <<x, y>>, Bool))

StartAppend ==
  \E n, m \in Sizes : \E x \in Vectors("x", n), y \in Vectors("y", m) :
    Start(Op("append", <<x, y>>, Gbv))

\* one vector made from another
Made(At(_), x, n) ==
  {Op("not_bits", <<x>>, Gbv)}
  \union {Op(op, <<x, k>>, Gbv) :
            op \in {"sign_extend", "zero_extend"},
            k \in UNION {At(m) : m \in {s \in Sizes : s >= n}}}
  \union {Op("sail_truncate", <<x, k>>, Gbv) :
            k \in UNION {At(m) : m \in {s \in Sizes : s <= n}}}
  \union {Op("replicate_bits", <<x, k>>, Gbv) : k \in UNION {At(m) : m \in {t \in {1, 2} : t * n <= MaxInt}}}

Asked(x) ==
  {Op("sail_signed", <<x>>, Int1), Op("sail_unsigned", <<x>>, Int1), Op("length", <<x>>, Int1)}

\* the size of a vector made from one of n bits, with a number that is known
SizeMade(e, n) ==
  CASE e.op = "not_bits" -> n
    [] e.op = "replicate_bits" -> n * ConstNumber(e.args[2])
    [] OTHER -> ConstNumber(e.args[2])

StartUnary ==
  \E n \in Sizes : \E x \in Vectors("x", n) : \E y \in Made(Position, x, n) :
    \E z \in {y} \union Asked(y) \union {ToInt64(a) : a \in Asked(y)} : Start(z)

StartUnaryTwice ==
  \E n \in Sizes : \E x \in Vectors("x", n) : \E y \in Made(Known, x, n) :
    \E z \in Made(Known, y, SizeMade(y, n)) : Start(z)

\* a shift of a machine word by its width is left out unless LongShifts
Shifts(n) == IF LongShifts \/ n > WordBits THEN 0 .. MaxInt ELSE 0 .. WordBits - 1

StartShift ==
  \E n \in Sizes, op \in {"shiftl", "shiftr", "arith_shiftr"} :
    \E x \in Vectors("x", n), i \in UNION {Position(k) : k \in Shifts(n)} :
      Start(Op(op, <<x, i>>, Gbv))

StartAddInt ==
  \E n \in Sizes, op \in {"add_bits_int", "sub_bits_int"} :
    \E x \in Vectors("x", n), i \in Integers2("i") : Start(Op(op, <<x, i>>, Gbv))

\* positions are in range: Sail's types see to that
StartPart ==
  \E n \in Sizes : \E x \in Vectors("x", n) : \E high \in 0 .. n - 1 : \E low \in 0 .. high :
    \/ \E i \in Position(high), j \in Position(low) :
         Start(Op("vector_subrange", <<x, i, j>>, Gbv))
    \/ \E i \in Position(low), k \in Position(high - low + 1) :
         Start(Op("slice", <<x, i, k>>, Gbv))
    \/ \E i \in Machine("i", low) :
         LET upper == Op("add_int", <<i, IntConst(high - low)>>, Int1)
         IN  Start(Op("vector_subrange", <<x, upper, i>>, Gbv))

StartUpdate ==
  \E n \in Sizes : \E x \in Vectors("x", n) : \E high \in 0 .. n - 1 : \E low \in 0 .. high :
    \E y \in Vector("y", high - low + 1, Ones(high - low + 1)) :
      \/ \E i \in Position(high), j \in Position(low) :
           Start(Op("vector_update_subrange", <<x, i, j, y>>, Gbv))
      \/ \E i \in Position(low) :
           Start(Op("set_slice",
                    <<IntConst(n), IntConst(high - low + 1), x, i, y>>, Gbv))

\* a variable index in a vector of one bit is left out: it stops the translation
StartBit ==
  \E n \in Sizes : \E x \in Vectors("x", n), pos \in 0 .. n - 1 :
    \E i \in IF n = 1 THEN {IntConst(pos)} ELSE Position(pos) :
      \/ Start(Op("vector_access", <<x, i>>, Bv(1)))
      \/ \E bit \in {Const(Bv(1), 0), Var("b", Bv(1), 1, FALSE)} :
           Start(Op("vector_update", <<x, i, bit>>, Gbv))

StartZeros ==
  \E n \in Sizes, op \in {"zeros", "undefined_bitvector"} : \E k \in Position(n) :
    Start(Op(op, <<k>>, Gbv))

StartBits ==
  \/ StartPair \/ StartAppend \/ StartUnary \/ StartUnaryTwice \/ StartShift
  \/ StartAddInt \/ StartPart \/ StartUpdate \/ StartBit \/ StartZeros

-----------------------------------------------------------------------------
(***************************************************************************)
(* Programs on integers.                                                   *)
(***************************************************************************)

\* an integer, or a machine integer if the program wants one
StartInteger(e) == Start(e) \/ Start(ToInt64(e))

StartArithmetic ==
  \E x \in Integers2("x"), y \in Integers2("y") :
    \/ \E op \in {"add_int", "sub_int", "mult_int", "tdiv_int", "ediv_int"} :
         StartInteger(Op(op, <<x, y>>, Int1))
    \/ StartInteger(Op("neg_int", <<x>>, Int1))
    \/ \E op \in Comparisons \union {"eq_int"} :
         \/ Start(Op(op, <<x, y>>, Bool))
         \/ Start(Op("not", <<Op(op, <<x, y>>, Bool)>>, Bool))

StartPower ==
  \E n \in Numbers \cap Nat : \E i \in Position(n) :
    \/ StartInteger(Op("pow2", <<i>>, Int1))
    \/ \E x \in Integers2("x") : StartInteger(Op("shl_int", <<x, i>>, Int1))

StartGetSlice ==
  \E x \in Integers2("x"), n \in Sizes, start \in Shifts(WordBits) :
    \E k \in Position(n), i \in Position(start) :
      Start(Op("get_slice_int", <<k, x, i>>, Gbv))

\* sums of three: two variables that may be the same, and numbers
Terms(x, y) == {x, y} \union {IntConst(n) : n \in Literals}

Sums(x, y) ==
  LET two == {Op(op, <<a, b>>, Int1) :
                op \in {"add_int", "sub_int"}, a \in Terms(x, y), b \in Terms(x, y)}
  IN  {Op(op, <<s, t>>, Int1) :
         op \in {"add_int", "sub_int"}, s \in two, t \in Terms(x, y)}
      \union {Op(op, <<t, s>>, Int1) :
                op \in {"add_int", "sub_int"}, s \in two, t \in Terms(x, y)}

StartSum ==
  \E n \in Numbers, m \in Literals :
    \E x \in Machine("x", n) \union {Var("x", Int1, NumberObject(n), FALSE)},
       y \in Machine("y", m) : \E s \in Sums(x, y) : StartInteger(s)

\* a sum is compared with a number, as objects and as machine integers
StartCompareSums ==
  \E n \in Numbers : \E x \in Machine("x", n) :
    \E op \in {"add_int", "sub_int"}, c, d \in Literals, rel \in Comparisons :
      \E s \in {Op(op, <<x, IntConst(c)>>, Int1), Op(op, <<IntConst(c), x>>, Int1)} :
        \/ Start(Op(rel, <<s, IntConst(d)>>, Bool))
        \/ Start(Op(rel, <<IntConst(d), s>>, Bool))
        \/ Start(Op(rel, <<ToInt64(s), Number64(d)>>, Bool))
        \/ Start(Op(rel, <<Number64(d), ToInt64(s)>>, Bool))

\* Align: a vector is rounded down to a multiple of a power of two
StartAlign ==
  \E x \in Vectors("x", WordBits), n \in PowersOfTwo, m \in PowersOfTwo :
    Start(Op("get_slice_int",
             <<IntConst(WordBits),
               Op("mult_int",
                  <<Op("tdiv_int", <<Op("sail_unsigned", <<x>>, Int1), IntConst(n)>>, Int1),
                    IntConst(m)>>, Int1),
               IntConst(0)>>, Gbv))

StartIntegers ==
  \/ StartArithmetic \/ StartPower \/ StartGetSlice \/ StartSum \/ StartCompareSums
  \/ StartAlign

-----------------------------------------------------------------------------

Init ==
  /\ StartBits \/ StartIntegers
  /\ meaning = Meaning(expression) /\ passes = 0 /\ done = FALSE

\* one pass of the optimizer; it passes again as long as something changes
OptimizePass ==
  LET pass == Pass(expression, FALSE)
  IN  /\ ~ done /\ passes < PassLimit
      /\ passes' = passes + 1
      /\ expression' = pass.e
      /\ done' = ~ pass.changed
      /\ UNCHANGED meaning

Next == OptimizePass

Spec == Init /\ [][Next]_vars

-----------------------------------------------------------------------------
(***************************************************************************)
(* Properties.                                                             *)
(***************************************************************************)

\* The constants that a pass makes are values of their types, and the type of
\* a program is the type it had: what uses it is not told of a change.
RECURSIVE WellFormed(_)
WellFormed(e) ==
  CASE IsConst(e) -> /\ e.type = I64 => FitsMachine(e.value)
                     /\ e.type.kind = "bv" => e.value \in 0 .. Ones(e.type.width)
    [] IsConst(e) = FALSE /\ IsLeaf(e) -> TRUE
    [] OTHER -> \A i \in DOMAIN e.args : WellFormed(e.args[i])

TypeOK ==
  /\ done \in BOOLEAN /\ passes \in 0 .. PassLimit
  /\ meaning # {} => WellFormed(expression)
  /\ \A d \in meaning : d.kind = "number" <=> expression.type.kind \in {"int", "i64"}

\* Whatever the optimizer makes of a program, in however many passes, the
\* result computes what the program did: an operation on machine words gives
\* what the one on objects gives, nothing overflows that did not before, and
\* merged sums keep their value.  A program that raises may do anything.
SameMeaning == meaning # {} => Meaning(expression) = meaning

\* No two rewritings undo each other (the comments in optimize_lt and
\* _general_add_sub_opt ask for that): the loop in repeat ends before its limit.
Settles == passes = PassLimit => done
=============================================================================
