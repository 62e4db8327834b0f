---------------------------- MODULE SailIntegers ----------------------------
(***************************************************************************)
(* The rest of the unbounded integers of pydrofoil/bitvector.py: shifts,   *)
(* products, quotients and slices, and the operations of bit vectors that  *)
(* take or give integers.  What the code leaves to RPython's rbigint is    *)
(* done with TLA+'s integers.                                              *)
(***************************************************************************)
EXTENDS BitVectors, BigIntegers

\* Integer.from_bigint: the words of an rbigint, until none is left
IntegerFromBigint(n) ==
  LET size == CHOOSE k \in 0 .. Magnitude(n) :
                /\ Magnitude(n) < Pow2[WordBits * k]
                /\ k = 0 \/ Magnitude(n) >= Pow2[WordBits * (k - 1)]
  IN  FromDataAndSign(
        [k \in 1 .. size |-> Wrap(Magnitude(n) \div Pow2[WordBits * (k - 1)])], Sign(n))

\* what toint of a vector gives, if it does not raise
BitsToInt(v) == Intmask(Val(v))

IntegerFromRuint(word) ==
  IF word > MaxInt THEN BigInt(<<word>>, 1) ELSE SmallInt(word)

(***************************************************************************)
(* Shifts by a non-negative amount.                                        *)
(***************************************************************************)

LshiftData(d, i) ==
  LET moved == Ripple(LAMBDA k, carry : ShlDigit(d[k], BitIndex(i), carry), d)
  IN  [k \in 1 .. WordIndex(i) |-> 0]
      \o (IF BitIndex(i) = 0 THEN d ELSE Append(moved.digits, moved.carry))

LshiftInteger(i, n) ==
  CASE i.kind = "int" ->
         IF i.val = 0 THEN IntZero
         ELSE IF n < WordBits /\ FitsMachine(i.val * Pow2[n])
         THEN SmallInt(i.val * Pow2[n])
         ELSE FromDataAndSign(LshiftData(DataOf(i.val), n), Sign(i.val))
    [] i.kind = "big" ->
         IF n = 0 THEN i ELSE FromDataAndSign(LshiftData(i.data, n), i.sign)

\* a machine integer is shifted by less than its width
RshiftInteger(i, n) ==
  LET size == Len(i.data) - WordIndex(n)
  IN  CASE i.kind = "int" -> SmallInt(i.val \div Pow2[n])
        [] i.kind = "big" /\ n = 0 -> i
        [] i.kind = "big" /\ n # 0 /\ i.sign < 0 ->
             IntegerFromBigint(ToBigint(i) \div Pow2[n])
        [] i.kind = "big" /\ n # 0 /\ i.sign > 0 ->
             IF size <= 0 THEN IntZero
             ELSE FromDataAndSign(WordsFrom(i.data, n, size), 1)

(***************************************************************************)
(* Products and quotients.                                                 *)
(***************************************************************************)

\* other & (other - 1) == 0, in words
SeemsPowerOfTwo(n) == (Wrap(n) & Wrap(n - 1)) = 0

ShiftAmount(n) ==
  CHOOSE shift \in 0 .. WordBits - 1 : Wrap(Pow2[shift]) = Wrap(n)

\* BigInteger.int_mul
IntMul(i, n) ==
  IF n = 0 THEN IntZero
  ELSE IF n = 1 THEN i
  ELSE IF SeemsPowerOfTwo(n) THEN LshiftInteger(i, ShiftAmount(n))
  ELSE FromDataAndSign(DataMul1(i.data, DigitOf(n)), i.sign * Sign(n))

MulInteger(i, j) ==
  LET product == DigitOf(i.val) * DigitOf(j.val)
  IN  CASE i.kind = "int" /\ j.kind = "int" ->
             IF FitsMachine(i.val * j.val) THEN SmallInt(i.val * j.val)
             ELSE FromDataAndSign(<<Wrap(product), product \div Base>>,
                                  Sign(i.val) * Sign(j.val))
        [] i.kind = "int" /\ j.kind = "big" -> IntMul(j, i.val)
        [] i.kind = "big" /\ j.kind = "int" -> IntMul(i, j.val)
        [] i.kind = "big" /\ j.kind = "big" ->
             IntegerFromBigint(ToBigint(i) * ToBigint(j))

\* rbigint's divrem, and C's division
TruncatedQuotient(a, b) == Sign(a) * Sign(b) * (Magnitude(a) \div Magnitude(b))
TruncatedRemainder(a, b) == a - b * TruncatedQuotient(a, b)

Tdiv(i, j) ==
  LET quotient == TruncatedQuotient(ToBigint(i), ToBigint(j))
  IN  CASE i.kind = "int" /\ j.kind = "int" ->
             IF i.val = MinInt /\ j.val = -1 THEN AbsInteger(i)
                                             ELSE SmallInt(quotient)
        [] i.kind = "big" /\ j.kind = "int" /\ j.val > 0
           /\ SeemsPowerOfTwo(j.val) /\ i.sign >= 0 ->
             RshiftInteger(i, ShiftAmount(j.val))
        [] OTHER -> IntegerFromBigint(quotient)

Tmod(i, j) ==
  LET remainder == TruncatedRemainder(ToBigint(i), ToBigint(j))
  IN  IF j.kind = "int" /\ (i.kind = "int" \/ j.val # MinInt)
      THEN IF i.kind = "int" /\ i.val = MinInt /\ j.val = -1 THEN IntZero
           ELSE SmallInt(remainder)
      ELSE IntegerFromBigint(remainder)

\* both divide machine integers with Python's operators
Machines(i, j) ==
  i.kind = "int" /\ j.kind = "int" /\ i.val # MinInt /\ j.val # MinInt

Ediv(i, j) ==
  LET a == ToBigint(i)
      b == ToBigint(j)
      quotient == IF b > 0 THEN a \div b ELSE -(a \div (-b))
  IN  CASE i = IntZero -> IntZero
        [] i # IntZero /\ Machines(i, j) -> SmallInt(quotient)
        [] OTHER -> IntegerFromBigint(quotient)

\* a Python remainder has the sign of the divisor
Emod(i, j) ==
  LET a == ToBigint(i)
      b == ToBigint(j)
      python == IF b > 0 THEN a % b ELSE -((-a) % (-b))
      remainder == IF python < 0 THEN python - b ELSE python
  IN  CASE i = IntZero -> IntZero
        [] i # IntZero /\ Machines(i, j) -> SmallInt(remainder)
        [] OTHER -> IntegerFromBigint(remainder)

(***************************************************************************)
(* Bits of integers.                                                       *)
(***************************************************************************)

\* slice_unwrapped_res: at most a word, from bit start on, in two's complement
SliceWordUp(data, length, start) ==
  IF WordIndex(start) >= Len(data) THEN 0
  ELSE RuintMask(length, WordsFrom(data, start, 1)[1])

SliceWord(i, length, start) ==
  LET inverted == Neg(AddInteger(i, SmallInt(1)))
      upward(j) == IF j.kind = "int" THEN RuintMask(length, Wrap(j.val \div Pow2[start]))
                                     ELSE SliceWordUp(j.data, length, start)
  IN  CASE i.kind = "int" /\ start >= WordBits ->
             IF i.val >= 0 THEN 0 ELSE RuintMask(length, Base - 1)
        [] i.kind = "int" /\ start < WordBits -> upward(i)
        [] i.kind = "big" /\ i.sign > 0 -> upward(i)
        [] i.kind = "big" /\ i.sign < 0 ->
             RuintMask(length, Complement(
               IF inverted.kind = "int" /\ start >= WordBits THEN 0
               ELSE upward(inverted)))

Slice(i, length, start) ==
  LET n == IF start >= WordBits THEN -1 ELSE i.val \div Pow2[start]
  IN  CASE length <= WordBits -> Small(length, SliceWord(i, length, start))
        [] length > WordBits /\ i.kind = "int" ->
             IF start >= WordBits /\ i.val >= 0 THEN Sparse(length, 0)
             ELSE IF n > 0 THEN Sparse(length, n)
             ELSE FromBigint(length, n)
        [] length > WordBits /\ i.kind = "big" ->
             FromBigint(length, ToBigint(RshiftInteger(i, start)))

\* set_slice_int of an rbigint: bits start to start + length - 1 become v's
SetSliceBigint(n, start, v) ==
  LET old == (n \div Pow2[start]) % Pow2[v.size]
  IN  IntegerFromBigint(n + (ValueOf(v.data) - old) * Pow2[start])

SetSlice(i, start, v) ==
  IF i.kind = "big" \/ v.size > WordBits \/ start + v.size >= WordBits
  THEN SetSliceBigint(ToBigint(i), start, v)
  ELSE SmallInt(Intmask((Wrap(i.val) & Complement(Shl(Ones(v.size), start)))
                        | (Shl(Val(v), start) & Ones(start + v.size))))

(***************************************************************************)
(* Bit vectors and integers.                                               *)
(***************************************************************************)

WordOfInteger(i) == IF i.kind = "int" THEN Wrap(i.val) ELSE SliceWord(i, WordBits, 0)

GenericOfMagnitude(v, i) == Generic(v.size, ArrayFromBigint(v.size, Magnitude(ToBigint(i))))

AddIntGeneric(v, i) ==
  CASE i.kind = "int" /\ i.val >= 0 -> AddRuint(v, Wrap(i.val))
    [] i.kind = "int" /\ i.val < 0 -> SubRuint(v, Wrap(-i.val))
    [] i.kind = "big" /\ i.sign > 0 ->
         MakeGeneric(v, SubSeq(DataAdd(v.data, i.data), 1, Len(v.data)))
    [] i.kind = "big" /\ i.sign < 0 -> SubFromGeneric(v, GenericOfMagnitude(v, i))

AddInt(v, i) ==
  LET sum == Wrap(Val(v) + i.val)
      stays == i.kind = "int" /\ i.val > 0 /\ sum >= Val(v)
  IN  CASE v.kind = "small" -> MakeSmall(v, Wrap(Val(v) + WordOfInteger(i)))
        [] v.kind = "sparse" ->
             IF stays THEN Sparse(v.size, sum) ELSE AddIntGeneric(ToGeneric(v), i)
        [] v.kind = "generic" -> AddIntGeneric(v, i)

SubIntGeneric(v, i) ==
  CASE i.kind = "int" /\ i.val >= 0 -> SubRuint(v, Wrap(i.val))
    [] i.kind = "int" /\ i.val < 0 -> AddRuint(v, Wrap(-i.val))
    [] i.kind = "big" /\ i.sign > 0 -> SubFromGeneric(v, GenericOfMagnitude(v, i))
    [] i.kind = "big" /\ i.sign < 0 -> AddBits(v, GenericOfMagnitude(v, i))

SubInt(v, i) ==
  LET stays == i.kind = "int" /\ 0 <= i.val /\ i.val <= Val(v)
  IN  CASE v.kind = "small" -> MakeSmall(v, Wrap(Val(v) - WordOfInteger(i)))
        [] v.kind = "sparse" ->
             IF stays THEN Sparse(v.size, Val(v) - i.val)
                      ELSE SubIntGeneric(ToGeneric(v), i)
        [] v.kind = "generic" -> SubIntGeneric(v, i)

Unsigned(v) ==
  IF v.kind = "generic" THEN FromDataAndSign(v.data, 1) ELSE IntegerFromRuint(Val(v))

Signed(v) ==
  LET m == Pow2[v.size - 1]
      top == Len(v.data)
      highest == Pow2[BitIndex(v.size - 1)]
      difference == DataSub([v.data EXCEPT ![top] = @ ^^ highest],
                            [k \in 1 .. top |-> IF k = top THEN highest ELSE 0])
  IN  CASE v.kind = "small" ->
             SmallInt(Intmask(IF v.size = WordBits THEN Val(v)
                                                   ELSE Wrap((Val(v) ^^ m) - m)))
        [] v.kind = "sparse" -> IntegerFromRuint(Val(v))
        [] v.kind = "generic" -> FromDataAndSign(difference.digits, difference.sign)

\* a small vector is shifted by less than the width of a word
ArithRshift(v, i) ==
  LET n == IF i >= v.size THEN v.size ELSE i
      negative == ReadBit(v, v.size - 1)
  IN  CASE v.kind = "small" ->
             Small(v.size, IF negative THEN Shr(Val(v), n) | Shl(Ones(n), v.size - n)
                                       ELSE Shr(Val(v), n))
        [] v.kind = "sparse" -> Rshift(v, i)
        [] v.kind = "generic" ->
             IF i < v.size THEN Slice(RshiftInteger(Signed(v), i), v.size, 0)
             ELSE IF negative
             THEN MakeGeneric(v, [k \in DOMAIN v.data |-> Base - 1])
             ELSE Sparse(v.size, 0)
=============================================================================
