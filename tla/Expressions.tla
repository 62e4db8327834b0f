---------------------------- MODULE Expressions ----------------------------
(***************************************************************************)
(* Expressions of the intermediate representation (pydrofoil/ir.py) over   *)
(* bit vectors and integers, and what they give when the generated code is *)
(* run: each operation calls a function of pydrofoil/supportcode.py.       *)
(*                                                                         *)
(* An operation may exist boxed, on objects (GenericBitVector, Int), and   *)
(* unboxed, on machine words (SmallFixedBitVector, MachineInt).  The names *)
(* are those of supportcode.py; an operation that raises has no result,    *)
(* one that C leaves undefined has several.                                *)
(***************************************************************************)
EXTENDS SailIntegers, ExactValues, SequencesExt

(***************************************************************************)
(* Types and expressions.                                                  *)
(***************************************************************************)

Int1 == [kind |-> "int", width |-> 0]   \* an object: unbounded integer
I64 == [kind |-> "i64", width |-> 0]    \* a machine integer
Gbv == [kind |-> "gbv", width |-> 0]    \* an object: bit vector of any size
Bool == [kind |-> "bool", width |-> 0]
Bv(width) == [kind |-> "bv", width |-> width]  \* in a machine word

Const(type, value) == [op |-> "const", type |-> type, value |-> value]

\* an argument; cast: the rest of the block casts it to a machine type
Var(name, type, value, cast) ==
  [op |-> "var", type |-> type, value |-> value, name |-> name, cast |-> cast]

Op(name, args, type) == [op |-> name, args |-> args, type |-> type]
Cast(e, type) == Op("cast", <<e>>, type)
Number64(n) == Const(I64, n)

IsConst(e) == e.op = "const"
IsLeaf(e) == e.op \in {"const", "var"}

\* the number in an integer constant
ConstNumber(e) == IF e.type = I64 THEN e.value ELSE ToBigint(e.value)

\* an IntConstant is a Python number
NumberObject(n) == IF FitsMachine(n) THEN SmallInt(n) ELSE IntegerFromBigint(n)
IntConst(n) == Const(Int1, NumberObject(n))
BoolConst(b) == Const(Bool, b)

(***************************************************************************)
(* Unboxed bit vectors.                                                    *)
(***************************************************************************)

\* a shift by the width of a word or more gives any word in C
Shifted(i, word) == IF i < WordBits THEN {word} ELSE Word

SignedBv(word, n) ==
  IF n = WordBits THEN Intmask(word)
  ELSE Intmask(Wrap(((word & Ones(n)) ^^ Pow2[n - 1]) - Pow2[n - 1]))

SafeRshift(word, i) == IF i >= WordBits THEN 0 ELSE Shr(word, i)

SubrangeFixed(word, n, m) == RuintMask(n - m + 1, SafeRshift(word, m))

UpdateSubrangeFixed(word, n, m, s) ==
  (word & Complement(Shl(Ones(n - m + 1), m))) | Shl(s, m)

ReplicateWord(word, width, times) ==
  LET done[k \in 1 .. times] == IF k = 1 THEN word ELSE Shl(done[k - 1], width) | word
  IN  done[times]

SignExtendFixed(word, width, target) ==
  RuintMask(target, Wrap((word ^^ Pow2[width - 1]) - Pow2[width - 1]))

WordOps ==
  {"eq_bits_bv_bv", "xor_vec_bv_bv", "and_vec_bv_bv", "or_vec_bv_bv", "not_vec_bv",
   "add_bits_bv_bv", "sub_bits_bv_bv", "add_bits_int_bv_i", "sub_bits_int_bv_i",
   "sign_extend_bv_i_i", "zero_extend_bv_i_i", "shiftl_bv_i", "shiftr_bv_i",
   "arith_shiftr_bv_i", "replicate_bv_i_i", "bitvector_concat_bv_bv",
   "vector_access_bv_i", "zupdate_fbits", "vector_update_subrange_fixed_bv_i_i_bv",
   "vector_subrange_fixed_bv_i_i", "slice_fixed_bv_i_i", "truncate_bv_i",
   "signed_bv", "unsigned_bv", "unsigned_bv_wrapped_res",
   "unsigned_bv64_rshift_int_result"}

RunWordOp(op, a) ==
  CASE op = "eq_bits_bv_bv" -> {a[1] = a[2]}
    [] op = "xor_vec_bv_bv" -> {a[1] ^^ a[2]}
    [] op = "and_vec_bv_bv" -> {a[1] & a[2]}
    [] op = "or_vec_bv_bv" -> {a[1] | a[2]}
    [] op = "not_vec_bv" -> {RuintMask(a[2], Complement(a[1]))}
    [] op = "add_bits_bv_bv" -> {RuintMask(a[3], Wrap(a[1] + a[2]))}
    [] op = "sub_bits_bv_bv" -> {RuintMask(a[3], Wrap(a[1] - a[2]))}
    [] op = "add_bits_int_bv_i" -> {RuintMask(a[2], Wrap(a[1] + a[3]))}
    [] op = "sub_bits_int_bv_i" -> {RuintMask(a[2], Wrap(a[1] - a[3]))}
    [] op = "sign_extend_bv_i_i" -> {SignExtendFixed(a[1], a[2], a[3])}
    [] op = "zero_extend_bv_i_i" -> {a[1]}
    [] op = "shiftl_bv_i" ->
         {RuintMask(a[2], w) : w \in Shifted(a[3], Shl(a[1], a[3]))}
    [] op = "shiftr_bv_i" ->
         {RuintMask(a[2], w) : w \in Shifted(a[3], Shr(a[1], a[3]))}
    [] op = "arith_shiftr_bv_i" ->
         {RuintMask(a[2], w) :
            w \in Shifted(a[3], Wrap(SignedBv(a[1], a[2]) \div Pow2[a[3]]))}
    [] op = "replicate_bv_i_i" -> {ReplicateWord(a[1], a[2], a[3])}
    [] op = "bitvector_concat_bv_bv" -> {Shl(a[1], a[2]) | a[3]}
    [] op = "vector_access_bv_i" -> {SafeRshift(a[1], a[2]) & 1}
    [] op = "zupdate_fbits" ->
         {WordWithBit(a[1], a[2], a[3] = 1) : i \in {a[2]} \cap 0 .. WordBits - 1}
    [] op = "vector_update_subrange_fixed_bv_i_i_bv" ->
         {UpdateSubrangeFixed(a[1], a[2], a[3], a[4])}
    [] op = "vector_subrange_fixed_bv_i_i" -> {SubrangeFixed(a[1], a[2], a[3])}
    [] op = "slice_fixed_bv_i_i" -> {SubrangeFixed(a[1], a[2] + a[3] - 1, a[2])}
    [] op = "truncate_bv_i" -> {RuintMask(a[2], a[1])}
    [] op = "signed_bv" -> {SignedBv(a[1], a[2])}
    [] op = "unsigned_bv" ->
         IF a[2] = WordBits /\ a[1] > MaxInt THEN {} ELSE {Intmask(a[1])}
    [] op = "unsigned_bv_wrapped_res" -> {IntegerFromRuint(a[1])}
    [] op = "unsigned_bv64_rshift_int_result" ->
         {Intmask(Shr(a[1], a[2])) : i \in {a[2]} \cap 1 .. WordBits - 1}

(***************************************************************************)
(* Boxed bit vectors.  A name that ends in _o_i has its integers unboxed;  *)
(* unwrapped_res: the result is a machine word.                            *)
(***************************************************************************)

BitVectorOps ==
  {"eq_bits", "neq_bits", "xor_bits", "and_bits", "or_bits", "not_bits", "add_bits",
   "sub_bits", "add_bits_int", "sub_bits_int", "append", "sail_signed",
   "sail_unsigned", "length", "length_unwrapped_res", "sign_extend_o_i",
   "sign_extend_o_i_unwrapped_res", "zero_extend_o_i",
   "zero_extend_o_i_unwrapped_res", "shiftl_o_i", "shiftr_o_i", "arith_shiftr_o_i",
   "replicate_bits_o_i", "vector_access_o_i", "vector_update_o_i_o",
   "vector_update_subrange_o_i_i_o", "set_slice_i_i_o_i_o", "vector_subrange_o_i_i",
   "vector_subrange_o_i_i_unwrapped_res", "slice_o_i_i",
   "vector_slice_o_i_i_unwrapped_res", "sail_truncate_o_i", "zeros_i",
   "undefined_bitvector_i"}

RunBitVectorOp(op, a) ==
  CASE op = "eq_bits" -> {EqBits(a[1], a[2])}
    [] op = "neq_bits" -> {~ EqBits(a[1], a[2])}
    [] op = "xor_bits" -> {XorBits(a[1], a[2])}
    [] op = "and_bits" -> {AndBits(a[1], a[2])}
    [] op = "or_bits" -> {OrBits(a[1], a[2])}
    [] op = "not_bits" -> {Invert(a[1])}
    [] op = "add_bits" -> {AddBits(a[1], a[2])}
    [] op = "sub_bits" -> {SubBits(a[1], a[2])}
    [] op = "add_bits_int" -> {AddInt(a[1], a[2])}
    [] op = "sub_bits_int" -> {SubInt(a[1], a[2])}
    [] op = "append" -> {AppendBits(a[1], a[2])}
    [] op = "sail_signed" -> {Signed(a[1])}
    [] op = "sail_unsigned" -> {Unsigned(a[1])}
    [] op = "length" -> {SmallInt(a[1].size)}
    [] op = "length_unwrapped_res" -> {a[1].size}
    [] op = "sign_extend_o_i" -> {SignExtend(a[1], a[2])}
    [] op = "zero_extend_o_i" -> {ZeroExtend(a[1], a[2])}
    [] op = "sign_extend_o_i_unwrapped_res" -> {SignExtendFixed(Val(a[1]), a[1].size, a[2])}
    [] op = "zero_extend_o_i_unwrapped_res" -> {Val(a[1])}
    [] op = "shiftl_o_i" -> {Lshift(a[1], Absolute(a[2]))}
    [] op = "shiftr_o_i" -> {Rshift(a[1], a[2]) : i \in {a[2]} \cap Nat}
    [] op = "arith_shiftr_o_i" -> {ArithRshift(a[1], a[2]) : i \in {a[2]} \cap Nat}
    [] op = "replicate_bits_o_i" -> {Replicate(a[1], a[2])}
    [] op = "vector_access_o_i" -> {Bit(ReadBit(a[1], a[2]))}
    [] op = "vector_update_o_i_o" -> {UpdateBit(a[1], a[2], a[3] = 1)}
    [] op = "vector_update_subrange_o_i_i_o" -> {UpdateSubrange(a[1], a[2], a[3], a[4])}
    [] op = "set_slice_i_i_o_i_o" ->
         {UpdateSubrange(a[3], a[4] + a[5].size - 1, a[4], a[5])}
    [] op = "vector_subrange_o_i_i" -> {Subrange(a[1], a[2], a[3])}
    [] op = "vector_subrange_o_i_i_unwrapped_res" -> {SubrangeWord(a[1], a[2], a[3])}
    [] op = "slice_o_i_i" -> {Subrange(a[1], a[2] + a[3] - 1, a[2])}
    [] op = "vector_slice_o_i_i_unwrapped_res" ->
         {SubrangeWord(a[1], a[2] + a[3] - 1, a[2])}
    [] op = "sail_truncate_o_i" -> {Truncate(a[1], a[2])}
    [] op \in {"zeros_i", "undefined_bitvector_i"} -> {FromRuint(a[1], 0)}

(***************************************************************************)
(* Integers.  An operation that must fit asserts that it does.             *)
(***************************************************************************)

MustFit(n) == IF FitsMachine(n) THEN {n} ELSE {}

Compare(op, a, b) ==
  CASE op = "eq" -> a = b
    [] op = "lt" -> a < b
    [] op = "lteq" -> a <= b
    [] op = "gt" -> a > b
    [] op = "gteq" -> a >= b

\* on machine integers, too: they are specialized by the argument's type
Comparisons == {"lt", "lteq", "gt", "gteq"}

IntegerOps ==
  {"add_int", "sub_int", "mult_int", "neg_int", "tdiv_int", "ediv_int", "eq_int",
   "eq_int_o_i", "add_o_i_wrapped_res", "sub_o_i_wrapped_res", "sub_i_o_wrapped_res",
   "mult_o_i_wrapped_res", "shl_int_o_i", "get_slice_int_i_o_i",
   "get_slice_int_i_o_i_unwrapped_res", "int_to_int64"}

RunIntegerOp(op, a) ==
  CASE op = "add_int" -> {AddInteger(a[1], a[2])}
    [] op = "sub_int" -> {SubInteger(a[1], a[2])}
    [] op = "mult_int" -> {MulInteger(a[1], a[2])}
    [] op = "neg_int" -> {Neg(a[1])}
    [] op = "tdiv_int" -> {Tdiv(a[1], j) : j \in {a[2]} \ {IntZero}}
    [] op = "ediv_int" -> {Ediv(a[1], j) : j \in {a[2]} \ {IntZero}}
    [] op = "eq_int" -> {EqInteger(a[1], a[2])}
    [] op = "eq_int_o_i" -> {EqInteger(a[1], SmallInt(a[2]))}
    [] op = "lt" -> {LtInteger(a[1], a[2])}
    [] op = "lteq" -> {LeInteger(a[1], a[2])}
    [] op = "gt" -> {GtInteger(a[1], a[2])}
    [] op = "gteq" -> {GeInteger(a[1], a[2])}
    [] op = "add_o_i_wrapped_res" -> {AddInteger(a[1], SmallInt(a[2]))}
    [] op = "sub_o_i_wrapped_res" -> {SubInteger(a[1], SmallInt(a[2]))}
    [] op = "sub_i_o_wrapped_res" -> {SubInteger(SmallInt(a[1]), a[2])}
    [] op = "mult_o_i_wrapped_res" -> {MulInteger(a[1], SmallInt(a[2]))}
    [] op = "shl_int_o_i" -> {LshiftInteger(a[1], a[2])}
    [] op = "get_slice_int_i_o_i" -> {Slice(a[2], a[1], a[3])}
    [] op = "get_slice_int_i_o_i_unwrapped_res" -> {SliceWord(a[2], a[1], a[3])}
    [] op = "int_to_int64" -> {ToInt(i) : i \in {j \in {a[1]} : IntegerFitsInt(j)}}

MachineIntOps ==
  {"add_i_i_wrapped_res", "sub_i_i_wrapped_res", "mult_i_i_wrapped_res",
   "shl_int_i_i_wrapped_res", "add_i_i_must_fit", "sub_i_i_must_fit",
   "mult_i_i_must_fit", "shl_int_i_i_must_fit", "tdiv_int_i_i", "ediv_int_i_ipos",
   "get_slice_int_i_i_i", "pow2_i", "int64_to_int", "eq"}

RunMachineIntOp(op, a) ==
  CASE op = "add_i_i_wrapped_res" -> {AddInteger(SmallInt(a[1]), SmallInt(a[2]))}
    [] op = "sub_i_i_wrapped_res" -> {SubInteger(SmallInt(a[1]), SmallInt(a[2]))}
    [] op = "mult_i_i_wrapped_res" -> {MulInteger(SmallInt(a[1]), SmallInt(a[2]))}
    [] op = "shl_int_i_i_wrapped_res" -> {LshiftInteger(SmallInt(a[1]), a[2])}
    [] op = "add_i_i_must_fit" -> MustFit(a[1] + a[2])
    [] op = "sub_i_i_must_fit" -> MustFit(a[1] - a[2])
    [] op = "mult_i_i_must_fit" -> MustFit(a[1] * a[2])
    [] op = "shl_int_i_i_must_fit" -> MustFit(a[1] * Pow2[a[2]])
    [] op = "tdiv_int_i_i" -> {Truncated(a[1], j) : j \in {a[2]} \ {0, -1}}
    [] op = "ediv_int_i_ipos" -> {a[1] \div j : j \in {k \in {a[2]} : k >= 2}}
    [] op = "get_slice_int_i_i_i" ->
         {RuintMask(a[1], w) : w \in Shifted(a[3], Wrap(a[2] \div Pow2[a[3]]))}
    [] op = "pow2_i" -> {NumberObject(Pow2[i]) : i \in {a[1]} \cap Nat}
    [] op = "int64_to_int" -> {SmallInt(a[1])}
    [] op \in Comparisons \union {"eq"} -> {Compare(op, a[1], a[2])}

(***************************************************************************)
(* Operations as a program has them, on objects only: their integers are   *)
(* taken out of their objects when they are called (supportcode.unwrap).   *)
(***************************************************************************)

\* the operation on unboxed integers, and which arguments are integers
Unwraps ==
  [sign_extend |-> [name |-> "sign_extend_o_i", spec |-> <<"o", "i">>],
   zero_extend |-> [name |-> "zero_extend_o_i", spec |-> <<"o", "i">>],
   shiftl |-> [name |-> "shiftl_o_i", spec |-> <<"o", "i">>],
   shiftr |-> [name |-> "shiftr_o_i", spec |-> <<"o", "i">>],
   arith_shiftr |-> [name |-> "arith_shiftr_o_i", spec |-> <<"o", "i">>],
   replicate_bits |-> [name |-> "replicate_bits_o_i", spec |-> <<"o", "i">>],
   vector_update |-> [name |-> "vector_update_o_i_o", spec |-> <<"o", "i", "o">>],
   vector_access |-> [name |-> "vector_access_o_i", spec |-> <<"o", "i">>],
   vector_update_subrange |->
     [name |-> "vector_update_subrange_o_i_i_o", spec |-> <<"o", "i", "i", "o">>],
   vector_subrange |-> [name |-> "vector_subrange_o_i_i", spec |-> <<"o", "i", "i">>],
   slice |-> [name |-> "slice_o_i_i", spec |-> <<"o", "i", "i">>],
   set_slice |->
     [name |-> "set_slice_i_i_o_i_o", spec |-> <<"i", "i", "o", "i", "o">>],
   sail_truncate |-> [name |-> "sail_truncate_o_i", spec |-> <<"o", "i">>],
   zeros |-> [name |-> "zeros_i", spec |-> <<"i">>],
   undefined_bitvector |-> [name |-> "undefined_bitvector_i", spec |-> <<"i">>],
   get_slice_int |-> [name |-> "get_slice_int_i_o_i", spec |-> <<"i", "o", "i">>],
   shl_int |-> [name |-> "shl_int_o_i", spec |-> <<"o", "i">>],
   pow2 |-> [name |-> "pow2_i", spec |-> <<"i">>]]

(***************************************************************************)
(* Running an expression.                                                  *)
(***************************************************************************)

\* a bit vector is taken out of its object, or put into one
RunCast(from, to, v) ==
  CASE from.kind = "bv" /\ to.kind = "gbv" -> {FromRuint(from.width, v)}
    [] from.kind = "gbv" /\ to.kind = "bv" -> {Val(x) : x \in {y \in {v} : y.size = to.width}}
    [] from = to -> {v}

RunUnboxed(name, a, machine) ==
  CASE name \in WordOps -> RunWordOp(name, a)
    [] name \in BitVectorOps -> RunBitVectorOp(name, a)
    [] name \in IntegerOps \union Comparisons /\ ~ machine -> RunIntegerOp(name, a)
    [] name \in MachineIntOps \/ machine -> RunMachineIntOp(name, a)

\* the operation on unboxed values that a call ends up in, and its arguments;
\* an integer that is no machine integer raises
UnboxedCall(op, a) ==
  LET u == Unwraps[op]
  IN  IF op \notin DOMAIN Unwraps THEN {[name |-> op, args |-> a]}
      ELSE {[name |-> u.name,
             args |-> [i \in DOMAIN a |-> IF u.spec[i] = "i" THEN ToInt(a[i]) ELSE a[i]]] :
              all \in {b \in {a} : \A i \in DOMAIN a : u.spec[i] = "i" => IntegerFitsInt(a[i])}}

\* the comparisons of objects and of machine integers have one name
IsMachineIntOp(e) ==
  e.op \in MachineIntOps \/ (e.op \in Comparisons /\ e.args[1].type = I64)

\* a sum of two objects that was merged has no operation: it does not compile
RunOp(e, a) ==
  CASE e.op = "cast" -> RunCast(e.args[1].type, e.type, a[1])
    [] e.op = "not" -> {~ a[1]}
    [] e.op = "unbound" -> {}
    [] OTHER -> UNION {RunUnboxed(call.name, call.args, IsMachineIntOp(e)) :
                         call \in UnboxedCall(e.op, a)}

\* the lists of values that the arguments give
RECURSIVE RunAll(_), Run(_)
RunAll(args) ==
  IF args = <<>> THEN {<<>>}
  ELSE {<<v>> \o rest : v \in Run(Head(args)), rest \in RunAll(Tail(args))}

Run(e) == IF IsLeaf(e) THEN {e.value} ELSE UNION {RunOp(e, a) : a \in RunAll(e.args)}

\* the value a representation stands for
Denoted(type, v) ==
  CASE type.kind = "int" -> Number(ToBigint(v))
    [] type.kind = "i64" -> Number(v)
    [] type.kind = "gbv" -> Bits(v.size, ValueOf(v.data))
    [] type.kind = "bv" -> Bits(type.width, v)
    [] type.kind = "bool" -> Bits(1, Bit(v))

Meaning(e) == {Denoted(e.type, v) : v \in Run(e)}
=============================================================================
