---------------------------- MODULE ValueMachine ----------------------------
(***************************************************************************)
(* A program that computes with Sail values: register holds a value as the *)
(* code represents it, and each step replaces it by the result of an       *)
(* operation of pydrofoil/bitvector.py with operands in any                *)
(* representation.  value follows with exact arithmetic.                   *)
(*                                                                         *)
(* Which representation a result gets depends on those of the operands, so *)
(* that chains of operations reach combinations no single test starts from.*)
(***************************************************************************)
EXTENDS SailIntegers, ExactValues

CONSTANTS
  MaxSize,    \* bound: the size of bit vectors
  MaxDigits,  \* bound: the digits of the big integers computed with
  MaxShift,   \* bound: shift amounts and positions in integers
  MinIntProducts  \* big integers are multiplied by MININT, too

ASSUME ValueAssumption ==
  /\ MaxSize \in Nat /\ MaxSize > WordBits
  /\ MaxDigits \in Nat \ {0} /\ MaxShift \in Nat
  /\ MinIntProducts \in BOOLEAN

VARIABLES
  register,  \* a value in the code's representation
  value      \* the value it stands for (history)

vars == <<register, value>>

(***************************************************************************)
(* All representations.                                                    *)
(***************************************************************************)

Sizes == 1 .. MaxSize

BitVectorsOf(size) ==
  IF size <= WordBits THEN {Small(size, n) : n \in 0 .. Pow2[size] - 1}
  ELSE {Sparse(size, word) : word \in Word}
       \union {FromBigint(size, n) : n \in 0 .. Pow2[size] - 1}

Integers1 ==
  {SmallInt(n) : n \in MinInt .. MaxInt}
  \union {BigInt(d, sign) : d \in {e \in UNION {[1 .. k -> Word] : k \in 1 .. MaxDigits} :
                                     e[Len(e)] # 0}, sign \in {-1, 1}}

IsBits(v) == v.kind \in {"small", "sparse", "generic"}

\* the value a representation stands for
Denote(v) ==
  IF IsBits(v) THEN Bits(v.size, ValueOf(v.data)) ELSE Number(ToBigint(v))
NumberOf(v) == Denote(v).n

\* registers the program goes on with
BitsRegister == IsBits(register)
IntegerRegister ==
  ~ IsBits(register) /\ (register.kind = "big" => Len(register.data) <= MaxDigits)

Init ==
  \E n \in MinInt .. MaxInt : register = SmallInt(n) /\ value = Number(n)

Becomes(result, exact) == register' = result /\ value' = exact

-----------------------------------------------------------------------------
(***************************************************************************)
(* Bit vectors.                                                            *)
(***************************************************************************)

Add_bits == BitsRegister /\ \E w \in BitVectorsOf(register.size) :
  Becomes(AddBits(register, w), Bits(value.size, value.n + NumberOf(w)))

Sub_bits == BitsRegister /\ \E w \in BitVectorsOf(register.size) :
  Becomes(SubBits(register, w), Bits(value.size, value.n - NumberOf(w)))

Xor_bits == BitsRegister /\ \E w \in BitVectorsOf(register.size) :
  Becomes(XorBits(register, w), Bitwise2(XorBit, value, Denote(w)))

Or_bits == BitsRegister /\ \E w \in BitVectorsOf(register.size) :
  Becomes(OrBits(register, w), Bitwise2(OrBit, value, Denote(w)))

And_bits == BitsRegister /\ \E w \in BitVectorsOf(register.size) :
  Becomes(AndBits(register, w), Bitwise2(AndBit, value, Denote(w)))

Invert_bits == BitsRegister /\
  Becomes(Invert(register), Bits(value.size, -1 - value.n))

Add_int == BitsRegister /\ \E i \in Integers1 :
  Becomes(AddInt(register, i), Bits(value.size, value.n + NumberOf(i)))

Sub_int == BitsRegister /\ \E i \in Integers1 :
  Becomes(SubInt(register, i), Bits(value.size, value.n - NumberOf(i)))

Lshift_bits == BitsRegister /\ \E i \in 0 .. MaxShift :
  Becomes(Lshift(register, i), Bits(value.size, value.n * Pow2[i]))

Rshift_bits == BitsRegister /\ \E i \in 0 .. MaxShift :
  Becomes(Rshift(register, i), Bits(value.size, value.n \div Pow2[i]))

\* a shift of a machine word by its width is left out: C does not define it
Arith_rshift == BitsRegister /\ \E i \in 0 .. MaxShift :
  /\ register.size = WordBits => i < WordBits
  /\ Becomes(ArithRshift(register, i), Bits(value.size, SignedOf(value) \div Pow2[i]))

Subrange_bits == BitsRegister /\ \E n \in 0 .. register.size - 1 : \E m \in 0 .. n :
  Becomes(Subrange(register, n, m), Part(value.n, n, m))

Truncate_bits == BitsRegister /\ \E i \in 1 .. register.size :
  Becomes(Truncate(register, i), Bits(i, value.n))

Zero_extend == BitsRegister /\ \E i \in register.size .. MaxSize :
  Becomes(ZeroExtend(register, i), Bits(i, value.n))

Sign_extend == BitsRegister /\ \E i \in register.size .. MaxSize :
  Becomes(SignExtend(register, i), Bits(i, SignedOf(value)))

Update_bit == BitsRegister /\ \E pos \in 0 .. register.size - 1, bit \in BOOLEAN :
  Becomes(UpdateBit(register, pos, bit),
          Bits(value.size, Replaced(value.n, pos, Bits(1, Bit(bit)))))

Update_subrange ==
  BitsRegister /\ \E n \in 0 .. register.size - 1 : \E m \in 0 .. n :
    \E s \in BitVectorsOf(n - m + 1) :
      Becomes(UpdateSubrange(register, n, m, s),
              Bits(value.size, Replaced(value.n, m, Denote(s))))

Append_bits ==
  BitsRegister /\ \E size \in 1 .. MaxSize - register.size :
    \E w \in BitVectorsOf(size) :
      Becomes(AppendBits(register, w),
              Bits(value.size + size, value.n * Pow2[size] + NumberOf(w)))

Replicate_bits ==
  BitsRegister /\ \E times \in 1 .. MaxSize \div register.size :
    Becomes(Replicate(register, times),
            Bits(value.size * times,
                 value.n * ((Pow2[value.size * times] - 1) \div Ones(value.size))))

Signed_bits == BitsRegister /\ Becomes(Signed(register), Number(SignedOf(value)))
Unsigned_bits == BitsRegister /\ Becomes(Unsigned(register), Number(value.n))

-----------------------------------------------------------------------------
(***************************************************************************)
(* Integers.                                                               *)
(***************************************************************************)

Add_integer == IntegerRegister /\ \E i \in Integers1 :
  Becomes(AddInteger(register, i), Number(value.n + NumberOf(i)))

Sub_integer == IntegerRegister /\ \E i \in Integers1 :
  Becomes(SubInteger(register, i), Number(value.n - NumberOf(i)))

\* the products in which a big integer is multiplied by MININT
WithMinInt(i, j) ==
  \/ i.kind = "big" /\ j = SmallInt(MinInt)
  \/ j.kind = "big" /\ i = SmallInt(MinInt)

Mul_integer == IntegerRegister /\ \E i \in Integers1 :
  /\ WithMinInt(register, i) => MinIntProducts
  /\ Becomes(MulInteger(register, i), Number(value.n * NumberOf(i)))

Neg_integer == IntegerRegister /\ Becomes(Neg(register), Number(-value.n))
Abs_integer == IntegerRegister /\
  Becomes(AbsInteger(register), Number(Absolute(value.n)))

Lshift_integer == IntegerRegister /\ \E n \in 0 .. MaxShift :
  Becomes(LshiftInteger(register, n), Number(value.n * Pow2[n]))

\* a shift of a machine integer by its width is left out
Rshift_integer == IntegerRegister /\ \E n \in 0 .. MaxShift :
  /\ register.kind = "int" => n < WordBits
  /\ Becomes(RshiftInteger(register, n), Number(value.n \div Pow2[n]))

\* a divisor that is zero raises ZeroDivisionError
Divisors == {i \in Integers1 : i # IntZero}

Tdiv_integer == IntegerRegister /\ \E i \in Divisors :
  Becomes(Tdiv(register, i), Number(Truncated(value.n, NumberOf(i))))

Tmod_integer == IntegerRegister /\ \E i \in Divisors :
  Becomes(Tmod(register, i),
          Number(value.n - NumberOf(i) * Truncated(value.n, NumberOf(i))))

Ediv_integer == IntegerRegister /\ \E i \in Divisors :
  Becomes(Ediv(register, i), Number(Euclidean(value.n, NumberOf(i))))

Emod_integer == IntegerRegister /\ \E i \in Divisors :
  Becomes(Emod(register, i),
          Number(value.n - NumberOf(i) * Euclidean(value.n, NumberOf(i))))

Slice_integer == IntegerRegister /\ \E length \in Sizes, start \in 0 .. MaxShift :
  Becomes(Slice(register, length, start), Bits(length, value.n \div Pow2[start]))

Set_slice == IntegerRegister /\ \E length \in Sizes, start \in 0 .. MaxShift :
  \E v \in BitVectorsOf(length) :
    Becomes(SetSlice(register, start, v), Number(Replaced(value.n, start, Denote(v))))

\* a number out of bounds is only cut down
Cut_integer == ~ IsBits(register) /\ ~ IntegerRegister /\ \E length \in Sizes :
  Becomes(Slice(register, length, 0), Bits(length, value.n))

BitsNext ==
  \/ Add_bits \/ Sub_bits \/ Xor_bits \/ Or_bits \/ And_bits \/ Invert_bits
  \/ Add_int \/ Sub_int \/ Lshift_bits \/ Rshift_bits \/ Arith_rshift
  \/ Subrange_bits \/ Truncate_bits \/ Zero_extend \/ Sign_extend \/ Update_bit
  \/ Update_subrange \/ Append_bits \/ Replicate_bits \/ Signed_bits
  \/ Unsigned_bits

IntegersNext ==
  \/ Add_integer \/ Sub_integer \/ Mul_integer \/ Neg_integer \/ Abs_integer
  \/ Lshift_integer \/ Rshift_integer \/ Tdiv_integer \/ Tmod_integer
  \/ Ediv_integer \/ Emod_integer \/ Slice_integer \/ Set_slice \/ Cut_integer

Next == BitsNext \/ IntegersNext

Spec == Init /\ [][Next]_vars

-----------------------------------------------------------------------------
(***************************************************************************)
(* Properties.                                                             *)
(***************************************************************************)

\* Representations are as the constructors assert (lines 147, 381, 645): the
\* vector's class goes with its size, it has as many words as it needs and no
\* bits above its size; big integers have a sign and no leading zeros.
TypeOK ==
  \/ /\ register.kind = "small"
     /\ register.size \in 1 .. WordBits /\ Val(register) \in 0 .. Ones(register.size)
  \/ /\ register.kind = "sparse"
     /\ register.size > WordBits /\ Val(register) \in Word
  \/ /\ register.kind = "generic"
     /\ register.size > WordBits
     /\ register.data \in [1 .. DataSize(register.size) -> Word]
     /\ ValueOf(register.data) < Pow2[register.size]
  \/ register.kind = "int" /\ register.val \in MinInt .. MaxInt
  \/ /\ register.kind = "big"
     /\ register.sign \in {-1, 1} /\ register.data # <<>>
     /\ \A k \in DOMAIN register.data : register.data[k] \in Word
     /\ register.data[Len(register.data)] # 0

\* Every operation is exact, whatever chain of operations chose the
\* representations of its operands: carries run through all words, results
\* that do not fit a representation get a wider one.
Exact == Denote(register) = value

\* Two representations are equal exactly if they stand for the same value.
EqualityExact ==
  IF IsBits(register)
  THEN \A w \in BitVectorsOf(register.size) :
         EqBits(register, w) <=> Denote(register) = Denote(w)
  ELSE \A i \in Integers1 : EqInteger(register, i) <=> NumberOf(register) = NumberOf(i)

\* Integers are ordered as the numbers they stand for.
OrderExact ==
  ~ IsBits(register) =>
    \A i \in Integers1 :
      /\ LtInteger(register, i) <=> NumberOf(register) < NumberOf(i)
      /\ LeInteger(register, i) <=> NumberOf(register) <= NumberOf(i)
      /\ GtInteger(register, i) <=> NumberOf(register) > NumberOf(i)
      /\ GeInteger(register, i) <=> NumberOf(register) >= NumberOf(i)

\* touint and toint of a vector, with which addresses and shift amounts are
\* computed, and toint of an integer give the number, or raise, which they do
\* exactly if it does not fit.  touint of an integer gives every word; it raises
\* for every other number, but for a negative one that is held as a machine
\* integer, which it takes modulo Base (bitvector.py:1192).  read_bit gives the
\* bit of the number.
ConversionsExact ==
  IF IsBits(register)
  THEN /\ FitsUint(register) <=> NumberOf(register) < Base
       /\ FitsUint(register) => Val(register) = NumberOf(register)
       /\ FitsInt(register) <=> NumberOf(register) <= MaxInt
       /\ FitsInt(register) => BitsToInt(register) = NumberOf(register)
       /\ \A pos \in 0 .. register.size - 1 :
            ReadBit(register, pos) <=> BitOf(NumberOf(register), pos) = 1
  ELSE /\ IntegerFitsInt(register) <=> FitsMachine(NumberOf(register))
       /\ IntegerFitsInt(register) => ToInt(register) = NumberOf(register)
       /\ IntegerFitsUint(register) <=>
            NumberOf(register) \in Word
            \/ (register.kind = "int" /\ NumberOf(register) < 0)
       /\ IntegerFitsUint(register) => ToUint(register) = NumberOf(register) % Base
=============================================================================
