--------------------------- MODULE LocalOptimizer ---------------------------
(***************************************************************************)
(* The rewriting of operations in pydrofoil/ir.py (LocalOptimizer): boxed  *)
(* operations on bit vectors and integers are replaced by unboxed ones     *)
(* where the types allow it, sums are merged, and constants are folded.    *)
(*                                                                         *)
(* An optimization gives the set of expressions it returns: none if it     *)
(* raises NoMatchException or returns None.  The operations of a block are *)
(* a tree here; phis and what CSE makes available are left out.            *)
(***************************************************************************)
EXTENDS Expressions

ToInt64(e) == Op("int_to_int64", <<e>>, I64)
FromInt64(e) == Op("int64_to_int", <<e>>, Int1)

(***************************************************************************)
(* Operands without their objects.                                         *)
(***************************************************************************)

\* _extract_smallfixedbitvector
WordOf(e) ==
  CASE e.type.kind = "bv" -> {e}
    [] e.type.kind # "bv" /\ IsConst(e) ->
         {Const(Bv(v.size), Val(v)) : v \in {w \in {e.value} : w.size <= WordBits}}
    [] e.type.kind # "bv" /\ e.op = "cast" -> {a \in {e.args[1]} : a.type.kind = "bv"}
    [] e.type.kind # "bv" /\ e.op = "var" ->
         {Cast(e, Bv(v.size)) : v \in {w \in {e.value} : e.cast}}
    [] OTHER -> {}

\* mutant of MachineIntOf: a constant need not fit a machine integer
MachineIntOfAny(e) ==
  CASE e.type = I64 -> {e}
    [] e.type # I64 /\ IsConst(e) -> {Number64(ConstNumber(e))}
    [] e.type # I64 /\ e.op = "int64_to_int" -> {e.args[1]}
    [] e.type # I64 /\ e.op = "var" -> {ToInt64(x) : x \in {y \in {e} : y.cast}}
    [] OTHER -> {}

\* _extract_machineint
MachineIntOf(e) ==
  CASE e.type = I64 -> {e}
    [] e.type # I64 /\ IsConst(e) ->
         {Number64(n) : n \in {k \in {ConstNumber(e)} : FitsMachine(k)}}
    [] e.type # I64 /\ e.op = "int64_to_int" -> {e.args[1]}
    [] e.type # I64 /\ e.op = "var" -> {ToInt64(x) : x \in {y \in {e} : y.cast}}
    [] OTHER -> {}

\* _extract_number
NumberOf(e) == {m \in MachineIntOf(e) : IsConst(m)}
NumbersOf(e) == {m.value : m \in NumberOf(e)}

Widths(n) == {n} \cap 1 .. WordBits
Otherwise(first, second) == IF first # {} THEN first ELSE second
Symmetric(Opt(_, _), e) ==
  Otherwise(Opt(e.args[1], e.args[2]), Opt(e.args[2], e.args[1]))

PowersOfTwo == {Pow2[k] : k \in 0 .. WordBits - 2}
ExponentOf(n) == CHOOSE k \in 0 .. WordBits - 2 : Pow2[k] = n

Boxed(name, args, width) == Cast(Op(name, args, Bv(width)), Gbv)

(***************************************************************************)
(* Bit vectors.                                                            *)
(***************************************************************************)

\* two vectors of one size: the other operand is cast, too
OptimizePair(name, e) ==
  Symmetric(LAMBDA x, y : {Boxed(name, <<w, Cast(y, w.type)>>, w.type.width) : w \in WordOf(x)},
            e)

OptimizeAddBits(e) ==
  Symmetric(LAMBDA x, y : {Boxed("add_bits_bv_bv",
                                 <<w, Cast(y, w.type), Number64(w.type.width)>>,
                                 w.type.width) : w \in WordOf(x)},
            e)

OptimizeSubBits(e) ==
  LET difference(x, y, type) ==
        Boxed("sub_bits_bv_bv", <<x, y, Number64(type.width)>>, type.width)
  IN  Otherwise(
        {difference(w, Cast(e.args[2], w.type), w.type) : w \in WordOf(e.args[1])},
        {difference(Cast(e.args[1], w.type), w, w.type) : w \in WordOf(e.args[2])})

OptimizeEqBits(e) ==
  Symmetric(LAMBDA x, y : {Op("eq_bits_bv_bv", <<w, Cast(y, w.type)>>, Bool) : w \in WordOf(x)},
            e)

\* an operation of a vector and a machine integer, on words
OptimizeWithInt(name, e) ==
  {Boxed(name, <<x, Number64(x.type.width), i>>, x.type.width) :
     x \in WordOf(e.args[1]), i \in MachineIntOf(e.args[2])}

OptimizeShift(name, e) ==
  IF NumbersOf(e.args[2]) = {0} THEN {e.args[1]} ELSE OptimizeWithInt(name, e)

OptimizeNotBits(e) ==
  {Boxed("not_vec_bv", <<x, Number64(x.type.width)>>, x.type.width) : x \in WordOf(e.args[1])}

OptimizeAppend(e) ==
  UNION {{Boxed("bitvector_concat_bv_bv", <<x, Number64(y.type.width), y>>, n) :
            n \in Widths(x.type.width + y.type.width)} :
         x \in WordOf(e.args[1]), y \in WordOf(e.args[2])}

OptimizeUpdateSubrange(e) ==
  {Boxed("vector_update_subrange_fixed_bv_i_i_bv",
         <<x, e.args[2], e.args[3], s>>, x.type.width) :
     x \in WordOf(e.args[1]), s \in WordOf(e.args[4])}

OptimizeSetSlice(e) ==
  {Op("vector_update_subrange_o_i_i_o",
      <<e.args[3], Number64(start + s.type.width - 1), Number64(start), e.args[5]>>, Gbv) :
     start \in NumbersOf(e.args[4]), s \in WordOf(e.args[5])}

\* a slice of a known length, on a word or with a word as its result
OptimizeSlice(e) ==
  UNION {Otherwise(
           {Boxed("slice_fixed_bv_i_i", <<x, i, Number64(n)>>, n) : x \in WordOf(e.args[1])},
           {Boxed("vector_slice_o_i_i_unwrapped_res", <<e.args[1], i, Number64(n)>>, n)}) :
         i \in MachineIntOf(e.args[2]),
         n \in UNION {Widths(k) : k \in NumbersOf(e.args[3])}}

OptimizeExtend(name, e) ==
  UNION {{Boxed(name, <<e.args[1], Number64(n)>>, n) : n \in Widths(k)} :
         k \in NumbersOf(e.args[2])}

OptimizeExtendWord(name, e) ==
  {Cast(IF x.type.width = n THEN x
        ELSE Op(name, <<x, Number64(x.type.width), Number64(n)>>, Bv(n)), e.type) :
     x \in WordOf(e.args[1]), n \in NumbersOf(e.args[2])}

OptimizeTruncate(e) ==
  UNION {{Cast(IF x.type.width = n THEN x
               ELSE Op("truncate_bv_i", <<x, Number64(n)>>, Bv(n)), Gbv) :
            n \in {k \in NumbersOf(e.args[2]) : k <= x.type.width}} :
         x \in WordOf(e.args[1])}

OptimizeReplicate(e) ==
  UNION {IF times = 1 THEN {e.args[1]}
         ELSE UNION {{Boxed("replicate_bv_i_i",
                            <<x, Number64(x.type.width), Number64(times)>>, n) :
                        n \in Widths(x.type.width * times)} : x \in WordOf(e.args[1])} :
         times \in NumbersOf(e.args[2])}

\* an index out of range is left to the boxed operation
OptimizeUpdateBit(e) ==
  {Boxed("zupdate_fbits", <<x, e.args[2], e.args[3]>>, x.type.width) :
     x \in {w \in WordOf(e.args[1]) :
              IsConst(e.args[2]) => e.args[2].value \in 0 .. w.type.width - 1}}

OptimizeZeros(e) ==
  UNION {{Cast(Const(Bv(n), 0), Gbv) : n \in Widths(k)} : k \in NumbersOf(e.args[1])}

OptimizeSigned(e) ==
  {FromInt64(Op("signed_bv", <<x, Number64(x.type.width)>>, I64)) : x \in WordOf(e.args[1])}

OptimizeUnsigned(e) ==
  {IF x.type.width < WordBits
   THEN FromInt64(Op("unsigned_bv", <<x, Number64(x.type.width)>>, I64))
   ELSE Op("unsigned_bv_wrapped_res", <<x, Number64(x.type.width)>>, Int1) :
     x \in WordOf(e.args[1])}

OptimizeLength(e) ==
  {Number64(x.type.width) : x \in {w \in WordOf(e.args[1]) : e.args[1].op = "cast"}}

(***************************************************************************)
(* Sums.  A tree of sums and differences becomes a list of what is added,  *)
(* a list of what is subtracted and one constant; operands that are on     *)
(* both sides cancel out.                                                  *)
(*                                                                         *)
(* add_int and sub_int are atoms: the code looks for them by these names,  *)
(* but in a program they have the mangled names of makecode.py, line 509.  *)
(***************************************************************************)

AddOps == {"add_o_i_wrapped_res", "add_i_i_wrapped_res", "add_i_i_must_fit"}
SubOps == {"sub_o_i_wrapped_res", "sub_i_o_wrapped_res", "sub_i_i_wrapped_res",
           "sub_i_i_must_fit"}

Equal(x, y) == x.type = y.type /\ x.op = y.op /\ x = y

RECURSIVE Summands(_, _)
Summands(e, polarity) ==
  IF e.op \in AddOps \union SubOps
  THEN Summands(e.args[2], IF e.op \in SubOps THEN -polarity ELSE polarity)
       \o Summands(e.args[1], polarity)
  ELSE <<[e |-> e, polarity |-> polarity]>>

\* one operand less on both sides for each that is on both
RECURSIVE Cancelled(_, _)
Cancelled(add, sub) ==
  IF add = <<>> THEN [add |-> add, sub |-> sub, useful |-> 0]
  ELSE LET same == {i \in DOMAIN sub : Equal(sub[i], Head(add))}
           first == CHOOSE i \in same : \A j \in same : i <= j
           rest == Cancelled(Tail(add), IF same = {} THEN sub ELSE RemoveAt(sub, first))
       IN  IF same = {} THEN [rest EXCEPT !.add = <<Head(add)>> \o @]
                        ELSE [rest EXCEPT !.useful = @ + 1]

\* the operands that are left, and the numbers among the summands
ComponentsWith(summands, constant) ==
  LET operands(polarity) ==
        LET s == SelectSeq(summands, LAMBDA t : t.polarity = polarity /\ ~ IsConst(t.e))
        IN  [i \in DOMAIN s |-> s[i].e]
      constants == Cardinality({i \in DOMAIN summands : IsConst(summands[i].e)})
      merged(rest) ==
        [add |-> rest.add, sub |-> rest.sub, constants |-> constants, constant |-> constant,
         useful |-> rest.useful + (IF constants > 1 THEN constants - 1 ELSE 0)]
  IN  merged(Cancelled(operands(1), operands(-1)))

Added(sum, t) == IF IsConst(t.e) THEN sum + t.polarity * ConstNumber(t.e) ELSE sum
AddedUnsigned(sum, t) == IF IsConst(t.e) THEN sum + ConstNumber(t.e) ELSE sum

\* mutant of Components: numbers are added up without their signs
ComponentsUnsigned(summands) ==
  ComponentsWith(summands, FoldLeft(AddedUnsigned, 0, summands))

\* _add_sub_extract_components
Components(summands) == ComponentsWith(summands, FoldLeft(Added, 0, summands))

\* with two objects opname is unbound, or what the last sum left in it
Sum(x, y) ==
  CASE x.type = I64 /\ y.type = I64 -> Op("add_i_i_wrapped_res", <<x, y>>, Int1)
    [] x.type = I64 /\ y.type = Int1 -> Op("add_o_i_wrapped_res", <<y, x>>, Int1)
    [] x.type = Int1 /\ y.type = I64 -> Op("add_o_i_wrapped_res", <<x, y>>, Int1)
    [] x.type = Int1 /\ y.type = Int1 -> Op("unbound", <<x, y>>, Int1)

Difference(x, y) ==
  Op(CASE x.type = I64 /\ y.type = I64 -> "sub_i_i_wrapped_res"
       [] x.type = I64 /\ y.type = Int1 -> "sub_i_o_wrapped_res"
       [] x.type = Int1 /\ y.type = I64 -> "sub_o_i_wrapped_res"
       [] x.type = Int1 /\ y.type = Int1 -> "unbound", <<x, y>>, Int1)

SumOf(operands) == FoldRight(Sum, Front(operands), Last(operands))

\* a sum as the type that is wanted
SumAs(sum, type) ==
  CASE sum.type = type -> sum
    [] sum.type # type /\ sum.type = I64 -> FromInt64(sum)
    [] sum.type # type /\ sum.op = "add_i_i_wrapped_res" ->
         Op("add_i_i_must_fit", sum.args, type)
    [] sum.type # type /\ sum.op = "sub_i_i_wrapped_res" ->
         Op("sub_i_i_must_fit", sum.args, type)
    [] OTHER -> ToInt64(sum)

\* the sum of what is added and of number, less what is subtracted
SumOfComponents(c, number, type) ==
  LET added == c.add \o (IF c.constant = 0 THEN <<>> ELSE <<number>>)
      sum == IF added = <<>> THEN Number64(0) ELSE SumOf(added)
  IN  SumAs(IF c.sub = <<>> THEN sum ELSE Difference(sum, SumOf(c.sub)), type)

ConstantNumber(n) == IF FitsMachine(n) THEN Number64(n) ELSE IntConst(n)

\* mutant of MergeSums: sums are rewritten when there is nothing to merge, too
MergeSumsAlways(e) ==
  {SumOfComponents(c, Number64(c.constant), e.type) : c \in {Components(Summands(e, 1))}}

\* _general_add_sub_opt
MergeSums(e) ==
  {SumOfComponents(c, ConstantNumber(c.constant), e.type) :
     c \in {d \in {Components(Summands(e, 1))} : d.useful > 0}}

MustFitOf(name, e, fits) == IF fits THEN {FromInt64(Op(name, e.args, I64))} ELSE {}

\* e without the operand that does not change the other one
Without(n, x, y) == IF NumbersOf(y) = {n} THEN {x} ELSE {}

OptimizeAdd(e, fits) ==
  LET x == e.args[1]
      y == e.args[2]
      unboxed(a, b) ==
        IF NumbersOf(b) = {} THEN MustFitOf("add_i_i_must_fit", e, fits)
                             ELSE {FromInt64(a1) : a1 \in Without(0, a, b)}
  IN  CASE e.op = "add_int" ->
             Symmetric(LAMBDA a, b : {Op("add_o_i_wrapped_res", <<a, m>>, Int1) :
                                        m \in MachineIntOf(b)}, e)
        [] e.op = "add_o_i_wrapped_res" ->
             Otherwise(Without(0, x, y),
                       {Op("add_i_i_wrapped_res", <<m, y>>, Int1) : m \in MachineIntOf(x)})
        [] e.op = "add_i_i_wrapped_res" ->
             Symmetric(unboxed, e)
        [] e.op = "add_i_i_must_fit" -> Symmetric(LAMBDA a, b : Without(0, a, b), e)

OptimizeSub(e, fits) ==
  LET x == e.args[1]
      y == e.args[2]
      unboxed(left) == {Op("sub_i_i_wrapped_res", <<m, y>>, Int1) : m \in left}
  IN  CASE e.op = "sub_int" ->
             Otherwise({Op("sub_o_i_wrapped_res", <<x, m>>, Int1) : m \in MachineIntOf(y)},
                       {Op("sub_i_o_wrapped_res", <<m, y>>, Int1) : m \in MachineIntOf(x)})
        [] e.op = "sub_o_i_wrapped_res" ->
             Otherwise(Without(0, x, y), unboxed(MachineIntOf(x)))
        [] e.op = "sub_i_o_wrapped_res" ->
             {Op("sub_i_i_wrapped_res", <<x, m>>, Int1) : m \in MachineIntOf(y)}
        [] e.op = "sub_i_i_wrapped_res" ->
             Otherwise(MustFitOf("sub_i_i_must_fit", e, fits),
                       {FromInt64(a) : a \in Without(0, x, y)})
        [] e.op = "sub_i_i_must_fit" -> Without(0, x, y)

OptimizeSums(e, fits) ==
  Otherwise(MergeSums(e),
            IF e.op \in AddOps \union {"add_int"} THEN OptimizeAdd(e, fits)
                                                  ELSE OptimizeSub(e, fits))

(***************************************************************************)
(* Products, quotients, shifts.                                            *)
(***************************************************************************)

OptimizeMultInt(e) ==
  Symmetric(LAMBDA x, y : {Op("mult_o_i_wrapped_res", <<x, m>>, Int1) :
                             m \in MachineIntOf(y)}, e)

\* by a number that is known, or by a machine integer
OptimizeMultWithInt(e, fits) ==
  LET x == e.args[1]
      product(m, n) == Op("mult_i_i_wrapped_res", <<m, n>>, Int1)
  IN  IF NumbersOf(e.args[2]) = {}
      THEN {product(m, e.args[2]) : m \in MachineIntOf(x)}
      ELSE UNION {CASE n = 1 -> {x}
                    [] n = 0 -> {IntConst(0)}
                    [] n > 1 /\ n \in PowersOfTwo ->
                         {Op("shl_int_o_i", <<x, Number64(ExponentOf(n))>>, Int1)}
                    [] n > 1 /\ n \notin PowersOfTwo /\ fits ->
                         {product(ToInt64(x), Number64(n))}
                    [] OTHER -> {} : n \in NumbersOf(e.args[2])}

\* by a number that is known: the product, and a shift of the same kind
MultByNumber(shift, x, y, one, zero, type) ==
  UNION {CASE n = 1 -> {one}
           [] n = 0 -> {zero}
           [] n > 1 /\ n \in PowersOfTwo ->
                {Op(shift, <<x, Number64(ExponentOf(n))>>, type)}
           [] OTHER -> {} : n \in NumbersOf(y)}

OptimizeMultMachineInts(e, fits) ==
  LET byNumber(x, y) == MultByNumber("shl_int_i_i_wrapped_res", x, y, FromInt64(x),
                                     IntConst(0), Int1)
      mustFit == MustFitOf("mult_i_i_must_fit", e, fits)
  IN  Otherwise(byNumber(e.args[1], e.args[2]),
                Otherwise(mustFit, byNumber(e.args[2], e.args[1])))

OptimizeMultMustFit(e) ==
  Symmetric(LAMBDA x, y : MultByNumber("shl_int_i_i_must_fit", x, y, x, Number64(0), I64),
            e)

\* quotients of two known numbers that are not negative
KnownQuotients(e) ==
  {IntConst(a \div b) : a \in NumbersOf(e.args[1]) \cap Nat,
                        b \in NumbersOf(e.args[2]) \cap (Nat \ {0})}

OptimizeEdiv(e) ==
  IF NumbersOf(e.args[2]) = {1} THEN {e.args[1]}
  ELSE Otherwise(KnownQuotients(e),
                 {FromInt64(Op("ediv_int_i_ipos", <<x, Number64(n)>>, I64)) :
                    x \in MachineIntOf(e.args[1]),
                    n \in {k \in NumbersOf(e.args[2]) : k > 1}})

OptimizeTdiv(e) ==
  LET x == e.args[1]
      shifted == {FromInt64(Op("unsigned_bv64_rshift_int_result",
                               <<x.args[1], Number64(ExponentOf(n))>>, I64)) :
                    n \in {k \in NumbersOf(e.args[2]) \cap PowersOfTwo :
                             k >= 2 /\ x.op = "unsigned_bv_wrapped_res"}}
      divided == {FromInt64(Op("tdiv_int_i_i", <<m, Number64(n)>>, I64)) :
                    m \in MachineIntOf(x), n \in NumbersOf(e.args[2]) \ {0, -1}}
  IN  IF NumbersOf(e.args[2]) = {1} THEN {x}
      ELSE Otherwise(KnownQuotients(e), Otherwise(shifted, divided))

OptimizeNegInt(e) ==
  {Op("sub_i_i_wrapped_res", <<Number64(0), m>>, Int1) : m \in MachineIntOf(e.args[1])}

OptimizeShlInt(e) ==
  {Op("shl_int_i_i_wrapped_res", <<m, e.args[2]>>, Int1) : m \in MachineIntOf(e.args[1])}

OptimizePow2(e, fits) ==
  IF fits THEN {FromInt64(Op("shl_int_i_i_must_fit", <<Number64(1), e.args[1]>>, I64))}
          ELSE {}

(***************************************************************************)
(* Slices of integers, and of vectors at positions that are integers.      *)
(***************************************************************************)

OptimizeGetSlice(e) ==
  UNION {Otherwise(
           {Boxed("get_slice_int_i_i_i", <<Number64(n), m, start>>, n) :
              m \in MachineIntOf(e.args[2])},
           {Boxed("get_slice_int_i_o_i_unwrapped_res",
                  <<Number64(n), e.args[2], start>>, n)}) :
         n \in UNION {Widths(k) : k \in NumbersOf(e.args[1])},
         start \in MachineIntOf(e.args[3])}

\* a word shifted down, up again and cut to its width is a word with a mask
AlignedWord(e) ==
  LET up == e.args[2]
      down == up.args[1]
  IN  IF /\ NumbersOf(e.args[1]) = {WordBits} /\ NumbersOf(e.args[3]) = {0}
         /\ up.op = "shl_int_i_i_wrapped_res"
         /\ down.op = "unsigned_bv64_rshift_int_result"
         /\ NumbersOf(up.args[2]) = NumbersOf(down.args[2])
      THEN {Op("and_vec_bv_bv",
               <<down.args[1], Const(Bv(WordBits), Complement(Ones(n)))>>, Bv(WordBits)) :
              n \in NumbersOf(up.args[2]) \cap 1 .. WordBits \div 2}
      ELSE {}

OptimizeGetSliceWord(e) ==
  Otherwise({Op("get_slice_int_i_i_i", <<e.args[1], m, e.args[3]>>, e.type) :
               m \in MachineIntOf(e.args[2])},
            AlignedWord(e))

\* bits n to m: known positions, or positions at a known distance
OptimizeSubrange(e) ==
  LET known == NumbersOf(e.args[2]) # {} /\ NumbersOf(e.args[3]) # {}
      words(n, m, width) ==
        Otherwise({Boxed("vector_subrange_fixed_bv_i_i", <<x, Number64(n), Number64(m)>>,
                         width) : x \in WordOf(e.args[1])},
                  {Boxed("vector_subrange_o_i_i_unwrapped_res",
                         <<e.args[1], Number64(n), Number64(m)>>, width)})
      distance == Components(Summands(e.args[3], -1) \o Summands(e.args[2], 1))
  IN  IF known
      THEN UNION {UNION {words(n, m, width) : width \in Widths(n - m + 1)} :
                  n \in NumbersOf(e.args[2]), m \in NumbersOf(e.args[3])}
      ELSE {Op("slice_o_i_i", <<e.args[1], e.args[3], Number64(c.constant + 1)>>, Gbv) :
              c \in {d \in {distance} : d.add = <<>> /\ d.sub = <<>> /\ d.constants > 0}}

(***************************************************************************)
(* Comparisons.                                                            *)
(***************************************************************************)

OptimizeEqInt(e) ==
  Symmetric(LAMBDA x, y : {Op("eq_int_o_i", <<x, m>>, Bool) : m \in MachineIntOf(y)}, e)

NonNegativeOps == {"unsigned_bv_wrapped_res", "unsigned_bv", "length_unwrapped_res"}

\* _cmp_generic_optimization: one operand is compared with one constant
CompareSums(e) ==
  LET as(x, n) == IF x.type = I64 THEN Number64(n) ELSE IntConst(n)
      sides(c) ==
        CASE c.sub # <<>> -> <<as(c.sub[1], c.constant), c.sub[1]>>
          [] c.add # <<>> -> <<c.add[1], as(c.add[1], -c.constant)>>
          [] OTHER -> <<Number64(c.constant), Number64(0)>>
      mergeable(c) == /\ c.useful > 0 /\ Len(c.add) + Len(c.sub) <= 1
                      /\ c.constants > 0 /\ FitsMachine(c.constant)
      components == Components(Summands(e.args[2], -1) \o Summands(e.args[1], 1))
  IN  {Op(e.op, sides(c), Bool) : c \in {d \in {components} : mergeable(d)}}

OptimizeComparison(e) ==
  LET x == e.args[1]
      y == e.args[2]
      itself == IF Equal(x, y) THEN {BoolConst(e.op \in {"lteq", "gteq"})} ELSE {}
      positive == IF e.op = "lt" /\ NumbersOf(y) = {0} /\ x.op \in NonNegativeOps
                  THEN {BoolConst(FALSE)} ELSE {}
      unboxed == IF x.type = Int1
                 THEN {Op(e.op, <<m, n>>, Bool) : m \in MachineIntOf(x), n \in MachineIntOf(y)}
                 ELSE {BoolConst(Compare(e.op, m, n)) : m \in NumbersOf(x), n \in NumbersOf(y)}
  IN  Otherwise(itself, Otherwise(positive, Otherwise(unboxed, CompareSums(e))))

OptimizeEq(e) ==
  Otherwise(IF Equal(e.args[1], e.args[2]) THEN {BoolConst(TRUE)} ELSE {},
            {BoolConst(m = n) : m \in NumbersOf(e.args[1]), n \in NumbersOf(e.args[2])})

OptimizeNot(e) ==
  LET x == e.args[1]
  IN  CASE IsConst(x) -> {BoolConst(~ x.value)}
        [] x.op = "not" -> {x.args[1]}
        [] OTHER -> {}

(***************************************************************************)
(* Conversions.                                                            *)
(***************************************************************************)

\* _optimize_Cast
OptimizeCast(e) ==
  LET x == e.args[1]
  IN  CASE e.type = x.type -> {x}
        [] e.type # x.type /\ x.op = "cast" ->
             {IF x.args[1].type = e.type THEN x.args[1] ELSE Cast(x.args[1], e.type)}
        [] OTHER -> {}

OptimizeFromInt64(e) ==
  LET x == e.args[1]
  IN  CASE IsConst(x) -> {IntConst(x.value)}
        [] x.op = "int_to_int64" -> {x.args[1]}
        [] OTHER -> {}

OptimizeToInt64(e) ==
  LET x == e.args[1]
  IN  CASE IsConst(x) -> {Number64(ConstNumber(x))}
        [] x.op = "int64_to_int" -> {x.args[1]}
        [] OTHER -> {}

(***************************************************************************)
(* Unwrapping, dispatch and constant folding.                              *)
(***************************************************************************)

Unwrap(e) ==
  LET u == Unwraps[e.op]
      arg(i) == IF u.spec[i] = "o" THEN e.args[i]
                ELSE CHOOSE m \in Otherwise(MachineIntOf(e.args[i]), {ToInt64(e.args[i])}) :
                       TRUE
  IN  Op(u.name, [i \in DOMAIN e.args |-> arg(i)], e.type)

\* the method optimize_<name> of an operation
OptimizeOperation(e, fits) ==
  LET name == e.op
  IN  CASE name = "cast" -> OptimizeCast(e)
        [] name = "int64_to_int" -> OptimizeFromInt64(e)
        [] name = "int_to_int64" -> OptimizeToInt64(e)
        [] name = "not" -> OptimizeNot(e)
        [] name = "eq_bits" -> OptimizeEqBits(e)
        [] name = "neq_bits" -> {Op("not", <<Op("eq_bits", e.args, Bool)>>, Bool)}
        [] name = "xor_bits" -> OptimizePair("xor_vec_bv_bv", e)
        [] name = "and_bits" -> OptimizePair("and_vec_bv_bv", e)
        [] name = "or_bits" -> OptimizePair("or_vec_bv_bv", e)
        [] name = "not_bits" -> OptimizeNotBits(e)
        [] name = "add_bits" -> OptimizeAddBits(e)
        [] name = "sub_bits" -> OptimizeSubBits(e)
        [] name = "add_bits_int" -> OptimizeWithInt("add_bits_int_bv_i", e)
        [] name = "sub_bits_int" -> OptimizeWithInt("sub_bits_int_bv_i", e)
        [] name = "shiftl_o_i" -> OptimizeShift("shiftl_bv_i", e)
        [] name = "shiftr_o_i" -> OptimizeShift("shiftr_bv_i", e)
        [] name = "arith_shiftr_o_i" -> OptimizeShift("arith_shiftr_bv_i", e)
        [] name = "append" -> OptimizeAppend(e)
        [] name = "vector_access_o_i" ->
             {Op("vector_access_bv_i", <<x, i>>, e.type) :
                x \in WordOf(e.args[1]), i \in MachineIntOf(e.args[2])}
        [] name = "vector_update_o_i_o" -> OptimizeUpdateBit(e)
        [] name = "zupdate_fbits" ->
             {x \in {e.args[3]} : e.args[1].type = Bv(1)}
        [] name = "vector_update_subrange_o_i_i_o" -> OptimizeUpdateSubrange(e)
        [] name = "set_slice_i_i_o_i_o" -> OptimizeSetSlice(e)
        [] name = "vector_subrange_o_i_i" -> OptimizeSubrange(e)
        [] name = "vector_subrange_o_i_i_unwrapped_res" ->
             {Op("vector_subrange_fixed_bv_i_i", <<x, e.args[2], e.args[3]>>, e.type) :
                x \in WordOf(e.args[1])}
        [] name = "slice_o_i_i" -> OptimizeSlice(e)
        [] name = "vector_slice_o_i_i_unwrapped_res" ->
             {Op("slice_fixed_bv_i_i", <<x, e.args[2], e.args[3]>>, e.type) :
                x \in WordOf(e.args[1])}
        [] name = "sign_extend_o_i" -> OptimizeExtend("sign_extend_o_i_unwrapped_res", e)
        [] name = "zero_extend_o_i" -> OptimizeExtend("zero_extend_o_i_unwrapped_res", e)
        [] name = "sign_extend_o_i_unwrapped_res" ->
             OptimizeExtendWord("sign_extend_bv_i_i", e)
        [] name = "zero_extend_o_i_unwrapped_res" ->
             OptimizeExtendWord("zero_extend_bv_i_i", e)
        [] name = "sail_truncate_o_i" -> OptimizeTruncate(e)
        [] name = "replicate_bits_o_i" -> OptimizeReplicate(e)
        [] name \in {"zeros_i", "undefined_bitvector_i"} -> OptimizeZeros(e)
        [] name = "sail_signed" -> OptimizeSigned(e)
        [] name = "sail_unsigned" -> OptimizeUnsigned(e)
        [] name = "length" -> {FromInt64(Op("length_unwrapped_res", e.args, I64))}
        [] name = "length_unwrapped_res" -> OptimizeLength(e)
        [] name \in AddOps \union SubOps \union {"add_int", "sub_int"} ->
             OptimizeSums(e, fits)
        [] name = "neg_int" -> OptimizeNegInt(e)
        [] name = "mult_int" -> OptimizeMultInt(e)
        [] name = "mult_o_i_wrapped_res" -> OptimizeMultWithInt(e, fits)
        [] name = "mult_i_i_wrapped_res" -> OptimizeMultMachineInts(e, fits)
        [] name = "mult_i_i_must_fit" -> OptimizeMultMustFit(e)
        [] name = "ediv_int" -> OptimizeEdiv(e)
        [] name = "tdiv_int" -> OptimizeTdiv(e)
        [] name = "shl_int_o_i" -> OptimizeShlInt(e)
        [] name = "shl_int_i_i_wrapped_res" -> MustFitOf("shl_int_i_i_must_fit", e, fits)
        [] name = "pow2_i" -> OptimizePow2(e, fits)
        [] name = "get_slice_int_i_o_i" -> OptimizeGetSlice(e)
        [] name = "get_slice_int_i_o_i_unwrapped_res" -> OptimizeGetSliceWord(e)
        [] name = "eq_int" -> OptimizeEqInt(e)
        [] name = "eq_int_o_i" ->
             {Op("eq", <<m, e.args[2]>>, Bool) : m \in MachineIntOf(e.args[1])}
        [] name = "eq" -> OptimizeEq(e)
        [] name \in Comparisons -> OptimizeComparison(e)
        [] OTHER -> {}

\* functions that are not marked as pure, or are called undefined, are not folded
NotFolded ==
  {"cast", "not", "xor_bits", "and_bits", "or_bits", "not_bits", "xor_vec_bv_bv",
   "and_vec_bv_bv", "or_vec_bv_bv", "sign_extend_o_i", "sign_extend_bv_i_i",
   "sign_extend_o_i_unwrapped_res", "zero_extend_o_i_unwrapped_res",
   "arith_shiftr_o_i", "arith_shiftr_bv_i", "replicate_bv_i_i",
   "undefined_bitvector_i"}

\* _try_fold: an operation of constants that does not raise becomes its result
Fold(e) ==
  LET constant(v) == IF e.type = Int1 THEN IntConst(ToBigint(v)) ELSE Const(e.type, v)
      foldable == /\ e.op \notin NotFolded /\ e.op \notin DOMAIN Unwraps
                  /\ \A i \in DOMAIN e.args :
                       /\ IsConst(e.args[i])
                       /\ e.args[i].type = Int1 => FitsMachine(ConstNumber(e.args[i]))
  IN  IF foldable THEN {constant(v) : v \in Run(e)} ELSE {}

Optimize(e, fits) ==
  IF e.op \in DOMAIN Unwraps THEN {Unwrap(e)}
  ELSE Otherwise(OptimizeOperation(e, fits), Fold(e))

\* Operations are visited after their operands, those that a pass makes in the
\* next one.  fits: the result is cast to a machine integer, so that it must
\* fit one.
RECURSIVE Pass(_, _)
Pass(e, fits) ==
  LET args == [i \in DOMAIN e.args |-> Pass(e.args[i], e.op = "int_to_int64")]
      visited == [e EXCEPT !.args = [i \in DOMAIN args |-> args[i].e]]
      kept == [e |-> visited, changed |-> \E i \in DOMAIN args : args[i].changed]
  IN  IF IsLeaf(e) THEN [e |-> e, changed |-> FALSE]
      ELSE CHOOSE result \in Otherwise({[e |-> b, changed |-> TRUE] : b \in Optimize(visited, fits)},
                                        {kept}) : TRUE
=============================================================================
