----------------------------- MODULE BigIntegers -----------------------------
(***************************************************************************)
(* Sail's unbounded integers as pydrofoil/bitvector.py keeps them: a       *)
(* machine integer (SmallInteger), or a sign and an array of words without *)
(* leading zeros (BigInteger), which may hold a number that would fit a    *)
(* machine integer.  Here are their sums, differences and comparisons; the *)
(* rest is in SailIntegers.                                                *)
(***************************************************************************)
EXTENDS Digits

\* a word is as often a negative machine integer as not
ASSUME HalfAssumption == Base % 2 = 0

MaxInt == Base \div 2 - 1
MinInt == -(Base \div 2)

SmallInt(n) == [kind |-> "int", val |-> n]
BigInt(data, sign) == [kind |-> "big", data |-> data, sign |-> sign]
IntZero == SmallInt(0)

FitsMachine(n) == MinInt <= n /\ n <= MaxInt  \* ovfcheck does not raise
Intmask(word) == IF word > MaxInt THEN word - Base ELSE word
Sign(n) == IF n = 0 THEN 0 ELSE IF n < 0 THEN -1 ELSE 1

\* the digits of the absolute value of a machine integer
DigitOf(n) == Wrap(IF n < 0 THEN -n ELSE n)
DataOf(n) == IF n = 0 THEN <<>> ELSE <<DigitOf(n)>>

FromDataAndSign(data, sign) ==
  LET used == {k \in DOMAIN data : data[k] # 0}
  IN  IF used = {} THEN IntZero
      ELSE BigInt(SubSeq(data, 1, CHOOSE k \in used : \A j \in used : j <= k), sign)

ToBigint(i) == IF i.kind = "int" THEN i.val ELSE i.sign * ValueOf(i.data)

Magnitude(n) == IF n < 0 THEN -n ELSE n

(***************************************************************************)
(* Sums and differences.                                                   *)
(***************************************************************************)

Neg(i) ==
  CASE i.kind = "int" /\ i.val = MinInt -> BigInt(<<Wrap(i.val)>>, 1)
    [] i.kind = "int" /\ i.val # MinInt -> SmallInt(-i.val)
    [] i.kind = "big" -> FromDataAndSign(i.data, -i.sign)

AbsInteger(i) ==
  CASE i.kind = "int" -> IF i.val < 0 THEN Neg(i) ELSE i
    [] i.kind = "big" -> BigInt(i.data, 1)

\* BigInteger._add_int: an array with a sign plus a machine integer
AddIntToData(data, sign, n) ==
  LET difference == DataSub1(data, DigitOf(n))
  IN  IF sign = Sign(n)
      THEN FromDataAndSign(DataAdd1(data, DigitOf(n)), Sign(n))
      ELSE FromDataAndSign(difference.digits, -difference.sign * Sign(n))

SubIntFromData(data, sign, n) ==
  LET difference == DataSub1(data, DigitOf(n))
  IN  IF sign = Sign(n)
      THEN FromDataAndSign(difference.digits, difference.sign * sign)
      ELSE FromDataAndSign(DataAdd1(data, DigitOf(n)), sign)

IntAdd(i, n) == IF n = 0 THEN i ELSE AddIntToData(i.data, i.sign, n)
IntSub(i, n) == IF n = 0 THEN i ELSE SubIntFromData(i.data, i.sign, n)

AddInteger(i, j) ==
  LET difference == DataSub(j.data, i.data)
  IN  CASE i.kind = "int" /\ j.kind = "int" ->
             IF FitsMachine(j.val + i.val) THEN SmallInt(j.val + i.val)
             ELSE AddIntToData(DataOf(j.val), Sign(j.val), i.val)
        [] i.kind = "int" /\ j.kind = "big" -> IntAdd(j, i.val)
        [] i.kind = "big" /\ j.kind = "int" -> IntAdd(i, j.val)
        [] i.kind = "big" /\ j.kind = "big" /\ i.sign = j.sign ->
             FromDataAndSign(DataAdd(i.data, j.data), j.sign)
        [] i.kind = "big" /\ j.kind = "big" /\ i.sign # j.sign ->
             FromDataAndSign(difference.digits, difference.sign * j.sign)

SubInteger(i, j) ==
  LET difference == DataSub(i.data, j.data)
  IN  CASE i.kind = "int" /\ j.kind = "int" ->
             IF FitsMachine(i.val - j.val) THEN SmallInt(i.val - j.val)
             ELSE IF i.val = 0 THEN Neg(j)
             ELSE SubIntFromData(DataOf(i.val), Sign(i.val), j.val)
        [] i.kind = "int" /\ j.kind = "big" ->
             IF i.val = 0 THEN Neg(j) ELSE Neg(IntSub(j, i.val))
        [] i.kind = "big" /\ j.kind = "int" -> IntSub(i, j.val)
        [] i.kind = "big" /\ j.kind = "big" /\ i.sign = j.sign ->
             FromDataAndSign(difference.digits, difference.sign * i.sign)
        [] i.kind = "big" /\ j.kind = "big" /\ i.sign # j.sign ->
             FromDataAndSign(DataAdd(i.data, j.data), i.sign)

(***************************************************************************)
(* Comparisons.                                                            *)
(***************************************************************************)

EqInt(i, n) ==
  i.sign = Sign(n) /\ Len(i.data) = 1
  /\ i.data[1] = (IF i.sign < 0 THEN Wrap(-n) ELSE Wrap(n))

EqInteger(i, j) ==
  CASE i.kind = "int" /\ j.kind = "int" -> i.val = j.val
    [] i.kind = "int" /\ j.kind = "big" -> EqInt(j, i.val)
    [] i.kind = "big" /\ j.kind = "int" -> EqInt(i, j.val)
    [] i.kind = "big" /\ j.kind = "big" -> i.sign = j.sign /\ i.data = j.data

LtInteger(i, j) ==
  CASE i.kind = "int" /\ j.kind = "int" -> i.val < j.val
    [] i.kind = "int" /\ j.kind = "big" ->
         DataLt(DataOf(i.val), Sign(i.val), j.data, j.sign)
    [] i.kind = "big" /\ j.kind = "int" ->
         IF j.val > 0 THEN DataLt1(i.data, i.sign, Wrap(j.val), 1)
                      ELSE DataLt1(i.data, i.sign, Wrap(-j.val), -1)
    [] i.kind = "big" /\ j.kind = "big" -> DataLt(i.data, i.sign, j.data, j.sign)

\* le, gt and ge of big integers are made of lt
LeInteger(i, j) ==
  IF i.kind = "int" /\ j.kind = "int" THEN i.val <= j.val ELSE ~ LtInteger(j, i)
GtInteger(i, j) ==
  IF i.kind = "int" /\ j.kind = "int" THEN i.val > j.val ELSE LtInteger(j, i)
GeInteger(i, j) ==
  IF i.kind = "int" /\ j.kind = "int" THEN i.val >= j.val ELSE ~ LtInteger(i, j)

\* mutant of IntegerFitsInt: one word and a sign is taken for a machine integer
IntegerFitsIntLonger(i) == i.kind = "int" \/ Len(i.data) = 1

\* toint raises ValueError when the number does not fit; otherwise it is ToInt
IntegerFitsInt(i) ==
  i.kind = "int" \/
  (Len(i.data) = 1 /\ (i.data[1] <= MaxInt \/ (i.sign = -1 /\ i.data[1] = Base \div 2)))

ToInt(i) ==
  IF i.kind = "int" THEN i.val
  ELSE Intmask(IF i.sign = -1 THEN Wrap(-i.data[1]) ELSE i.data[1])

\* touint of a machine integer is r_uint, which takes negative ones modulo
\* Base; that of a big one is rbigint's, which raises unless it is a word
IntegerFitsUint(i) == i.kind = "int" \/ ToBigint(i) \in Word
ToUint(i) == IF i.kind = "int" THEN Wrap(i.val) ELSE ToBigint(i)
=============================================================================
