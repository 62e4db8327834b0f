----------------------------- MODULE ValueProofs -----------------------------
(***************************************************************************)
(* The arithmetic of Sail's integers is exact in every combination of      *)
(* their representations, and so is every chain of operations of           *)
(* ValueMachine, for words of any width, vectors of any size and integers  *)
(* of any length, but for products with MININT.                            *)
(***************************************************************************)
EXTENDS ValueMachine, WordProofs

-----------------------------------------------------------------------------
(***************************************************************************)
(* Sail's integers.                                                        *)
(***************************************************************************)

\* What the operations keep: a big integer has a digit, and its highest digit
\* is not zero.
SailInteger ==
  [kind : {"int"}, val : MinInt .. MaxInt] \cup
  [kind : {"big"}, data : Data, sign : {-1, 1}]

\* i is in its proper form and stands for n.
IsExact(i, n) == i \in SailInteger /\ ToBigint(i) = n

LEMMA HalfIs ==
  /\ Base \div 2 \in Nat \ {0} /\ Base = 2 * (Base \div 2)
  /\ MaxInt \in Int /\ MinInt \in Int
  /\ MaxInt = (Base \div 2) - 1 /\ MinInt = -(Base \div 2)
BY BaseAssumption, HalfAssumption DEF MaxInt, MinInt

LEMMA IntegerIs ==
  ASSUME NEW i \in SailInteger
  PROVE  /\ i.kind \in {"int", "big"}
         /\ i.kind = "int" => /\ i.val \in MinInt .. MaxInt /\ i.val \in Int
                              /\ ToBigint(i) = i.val
         /\ i.kind = "big" => /\ i.data \in Data /\ i.sign \in {-1, 1}
                              /\ ValueOf(i.data) \in Nat /\ ValueOf(i.data) >= 1
                              /\ ToBigint(i) = i.sign * ValueOf(i.data)
         /\ ToBigint(i) \in Int
<1>1. CASE i \in [kind : {"int"}, val : MinInt .. MaxInt]
  <2>1. i.kind = "int" /\ i.val \in MinInt .. MaxInt
    BY <1>1
  <2>2. ToBigint(i) = i.val
    BY <2>1 DEF ToBigint
  <2> QED  BY <2>1, <2>2, HalfIs
<1>2. CASE i \in [kind : {"big"}, data : Data, sign : {-1, 1}]
  <2>1. i.kind = "big" /\ i.data \in Data /\ i.sign \in {-1, 1}
    BY <1>2
  <2>2. ToBigint(i) = i.sign * ValueOf(i.data)
    BY <2>1 DEF ToBigint
  <2>3. ValueOf(i.data) \in Nat /\ ValueOf(i.data) >= 1
    BY <2>1, DataIs
  <2>4. ToBigint(i) \in Int
    BY <2>1, <2>2, <2>3
  <2> QED  BY <2>1, <2>2, <2>3, <2>4
<1> QED  BY <1>1, <1>2 DEF SailInteger

LEMMA SmallIsExact ==
  ASSUME NEW n \in MinInt .. MaxInt
  PROVE  IsExact(SmallInt(n), n)
BY DEF IsExact, SailInteger, SmallInt, ToBigint

LEMMA BigIsExact ==
  ASSUME NEW data \in Data, NEW sign \in {-1, 1}
  PROVE  IsExact(BigInt(data, sign), sign * ValueOf(data))
BY DEF IsExact, SailInteger, BigInt, ToBigint

\* Leading zeros are dropped, and the number stays what it is.
LEMMA FromDataAndSignIs ==
  ASSUME NEW data \in Arrays, NEW sign \in {-1, 0, 1}, sign = 0 => data = <<>>
  PROVE  IsExact(FromDataAndSign(data, sign), sign * ValueOf(data))
<1> DEFINE used == {k \in DOMAIN data : data[k] # 0}
           top == CHOOSE k \in used : \A j \in used : j <= k
           rest == SubSeq(data, 1, top)
<1>1. Len(data) \in Nat /\ DOMAIN data = 1 .. Len(data) /\ ValueOf(data) \in Nat
  <2>1. Len(data) \in Nat /\ DOMAIN data = 1 .. Len(data)
    BY DEF Arrays
  <2> QED  BY <2>1, RestIs
<1>2. FromDataAndSign(data, sign) = IF used = {} THEN IntZero ELSE BigInt(rest, sign)
  BY DEF FromDataAndSign
<1>3. used \subseteq 1 .. Len(data)
  BY <1>1
<1>4. CASE used = {}
  <2>1. <<>> \in Arrays /\ DOMAIN <<>> = {} /\ Len(<<>>) = 0
    BY DEF Arrays
  <2>2. \A i \in Nat \ {0} : Digit(data, i) = Digit(<<>>, i)
    BY <1>4, <2>1 DEF Digit
  <2>3. ValueOf(data) = ValueOf(<<>>)
    BY <2>1, <2>2, EqualDigits
  <2>4. ValueOf(<<>>) = 0
    BY <2>1, RestIs
  <2>5. sign * ValueOf(data) = 0
    BY <2>3, <2>4
  <2>6. 0 \in MinInt .. MaxInt
    BY HalfIs
  <2>7. IsExact(SmallInt(0), 0)
    BY <2>6, SmallIsExact
  <2> QED  BY <1>2, <1>4, <2>5, <2>7 DEF IntZero
<1>5. CASE used # {}
  <2>1. top \in used /\ \A j \in used : j <= top
    <3> HIDE DEF used
    <3> QED  BY <1>1, <1>3, <1>5, Greatest
  <2> HIDE DEF top
  <2>2. top \in 1 .. Len(data) /\ data[top] # 0
    BY <1>1, <2>1
  <2>3. /\ rest \in Arrays /\ Len(rest) = top /\ DOMAIN rest = 1 .. top
        /\ \A i \in 1 .. top : rest[i] = data[i]
    BY <1>1, <2>2 DEF Arrays
  <2> HIDE DEF rest
  <2>4. ASSUME NEW i \in Nat \ {0} PROVE Digit(rest, i) = Digit(data, i)
    <3>1. CASE i \in 1 .. top
      BY <1>1, <2>2, <2>3, <3>1 DEF Digit
    <3>2. CASE i \notin 1 .. top
      <4>1. i > top /\ Digit(rest, i) = 0
        BY <2>2, <2>3, <3>2 DEF Digit
      <4>2. i \notin used
        BY <1>1, <2>1, <2>2, <4>1
      <4> QED  BY <4>1, <4>2 DEF Digit
    <3> QED  BY <3>1, <3>2
  <2>5. ValueOf(rest) = ValueOf(data)
    BY <2>3, <2>4, EqualDigits
  <2>6. rest # <<>> /\ rest[Len(rest)] # 0
    BY <1>1, <2>2, <2>3
  <2>7. rest \in Data
    BY <2>3, <2>6 DEF Data
  <2>8. data # <<>>
    BY <1>1, <2>2
  <2>9. sign \in {-1, 1}
    BY <2>8
  <2> HIDE DEF used
  <2> QED  BY <1>2, <1>5, <2>5, <2>7, <2>9, BigIsExact
<1> QED  BY <1>4, <1>5

\* A difference, given a sign.
LEMMA DifferenceIs ==
  ASSUME NEW d, NEW n \in Int, IsDifference(d, n), NEW sign \in {-1, 1}
  PROVE  /\ IsExact(FromDataAndSign(d.digits, d.sign * sign), n * sign)
         /\ IsExact(FromDataAndSign(d.digits, -d.sign * sign), -(n * sign))
<1>1. /\ d.digits \in Arrays /\ d.sign \in {-1, 0, 1}
      /\ d.sign = 0 => d.digits = <<>>
      /\ d.sign * ValueOf(d.digits) = n
  BY DEF IsDifference
<1>2. ValueOf(d.digits) \in Nat
  BY <1>1, RestIs
<1> DEFINE v == ValueOf(d.digits)
           s1 == d.sign * sign
           s2 == -d.sign * sign
<1>3. /\ s1 \in {-1, 0, 1} /\ s2 \in {-1, 0, 1}
      /\ s1 = 0 => d.digits = <<>>
      /\ s2 = 0 => d.digits = <<>>
  BY <1>1
<1>4. s1 * v = n * sign /\ s2 * v = -(n * sign)
  <2>1. CASE d.sign = 0
    BY <1>2, <1>1, <2>1
  <2>2. CASE d.sign = 1
    BY <1>2, <1>1, <2>2
  <2>3. CASE d.sign = -1
    BY <1>2, <1>1, <2>3
  <2> QED  BY <1>1, <2>1, <2>2, <2>3
<1>5. /\ IsExact(FromDataAndSign(d.digits, s1), s1 * v)
      /\ IsExact(FromDataAndSign(d.digits, s2), s2 * v)
  <2> HIDE DEF s1, s2
  <2> QED  BY <1>1, <1>3, FromDataAndSignIs
<1> QED  BY <1>4, <1>5

LEMMA DigitOfIs ==
  ASSUME NEW n \in MinInt .. MaxInt
  PROVE  /\ DigitOf(n) \in Word /\ Sign(n) \in {-1, 0, 1}
         /\ n = 0 <=> Sign(n) = 0
         /\ n = Sign(n) * DigitOf(n)
         /\ n < 0 => DigitOf(n) = -n /\ Sign(n) = -1
         /\ n > 0 => DigitOf(n) = n /\ Sign(n) = 1
         /\ n = 0 => DigitOf(n) = 0
<1>1. n \in Int /\ n \in -(Base \div 2) .. (Base \div 2) - 1
  BY HalfIs
<1>2. CASE n < 0
  <2>1. -n \in Word
    BY <1>1, <1>2, HalfIs, BaseAssumption DEF Word
  <2>2. DigitOf(n) = -n
    BY <1>1, <1>2, <2>1, WrapNear DEF DigitOf
  <2> QED  BY <1>1, <1>2, <2>1, <2>2 DEF Sign
<1>3. CASE n >= 0
  <2>1. n \in Word
    BY <1>1, <1>3, HalfIs, BaseAssumption DEF Word
  <2>2. DigitOf(n) = n
    BY <1>1, <1>3, <2>1, WrapNear DEF DigitOf
  <2> QED  BY <1>1, <1>3, <2>1, <2>2 DEF Sign
<1> QED  BY <1>1, <1>2, <1>3

LEMMA DataOfIs ==
  ASSUME NEW n \in MinInt .. MaxInt, n # 0
  PROVE  /\ DataOf(n) \in Data /\ ValueOf(DataOf(n)) = DigitOf(n)
         /\ Sign(n) \in {-1, 1}
         /\ Sign(n) * ValueOf(DataOf(n)) = n
<1>1. DigitOf(n) \in Word /\ DigitOf(n) # 0
  BY DigitOfIs, HalfIs
<1>2. DataOf(n) = <<DigitOf(n)>>
  BY DEF DataOf
<1> QED  BY <1>1, <1>2, SingleWord, DigitOfIs

LEMMA AddIntToDataIs ==
  ASSUME NEW data \in Data, NEW sign \in {-1, 1},
         NEW n \in MinInt .. MaxInt, n # 0
  PROVE  /\ IsExact(AddIntToData(data, sign, n), sign * ValueOf(data) + n)
         /\ IsExact(SubIntFromData(data, sign, n), sign * ValueOf(data) - n)
<1> DEFINE digit == DigitOf(n)
           v == ValueOf(data)
           sum == DataAdd1(data, digit)
           difference == DataSub1(data, digit)
           t == Sign(n)
<1>1. data \in Arrays /\ data # <<>> /\ v \in Nat
  BY DataIs DEF Data
<1>2. digit \in Word /\ digit \in Nat /\ t \in {-1, 1} /\ n = t * digit
  BY DigitOfIs, DataOfIs DEF Word
<1>3. sum \in Arrays /\ ValueOf(sum) = v + digit
  BY <1>1, <1>2, DataAdd1Is
<1>4. IsDifference(difference, v - digit)
  BY <1>2, DataSub1Is
<1>5. /\ AddIntToData(data, sign, n) =
           IF sign = t THEN FromDataAndSign(sum, t)
           ELSE FromDataAndSign(difference.digits, -difference.sign * t)
      /\ SubIntFromData(data, sign, n) =
           IF sign = t THEN FromDataAndSign(difference.digits, difference.sign * sign)
           ELSE FromDataAndSign(sum, sign)
  BY DEF AddIntToData, SubIntFromData
<1> HIDE DEF digit, v, sum, difference, t
<1>6. IsExact(FromDataAndSign(sum, sign), sign * (v + digit))
  BY <1>3, FromDataAndSignIs
<1>7. v - digit \in Int
  BY <1>1, <1>2
<1>8. /\ IsExact(FromDataAndSign(difference.digits, difference.sign * sign),
                 (v - digit) * sign)
      /\ IsExact(FromDataAndSign(difference.digits, -difference.sign * t),
                 -((v - digit) * t))
  BY <1>2, <1>4, <1>7, DifferenceIs
<1>9. CASE sign = t
  <2>1. sign * (v + digit) = sign * v + n /\ (v - digit) * sign = sign * v - n
    BY <1>1, <1>2, <1>9
  <2> QED  BY <1>5, <1>6, <1>8, <1>9, <2>1 DEF v
<1>10. CASE sign # t
  <2>1. sign * (v + digit) = sign * v - n /\ -((v - digit) * t) = sign * v + n
    BY <1>1, <1>2, <1>10
  <2> QED  BY <1>5, <1>6, <1>8, <1>10, <2>1 DEF v
<1> QED  BY <1>9, <1>10

\* Negation and absolute value are exact: the negation of the least machine
\* integer is a big one.
THEOREM NegationExact ==
  ASSUME NEW i \in SailInteger
  PROVE  /\ IsExact(Neg(i), -ToBigint(i))
         /\ IsExact(AbsInteger(i), Magnitude(ToBigint(i)))
<1>1. IsExact(Neg(i), -ToBigint(i))
  <2>1. CASE i.kind = "int" /\ i.val = MinInt
    <3>1. Wrap(i.val) = Base \div 2 /\ Base \div 2 \in Word
      <4>1. i.val + Base = Base \div 2 /\ i.val \in Int
        BY <2>1, HalfIs, BaseAssumption
      <4>2. Base \div 2 \in Word
        BY HalfIs, BaseAssumption DEF Word
      <4> QED  BY <4>1, <4>2, WrapNear
    <3>2. Neg(i) = BigInt(<<Wrap(i.val)>>, 1)
      BY <2>1 DEF Neg
    <3> DEFINE h == Base \div 2
    <3>3. h \in Word /\ h \in Nat \ {0} /\ Wrap(i.val) = h /\ ToBigint(i) = -h
      BY <2>1, <3>1, HalfIs, IntegerIs
    <3> HIDE DEF h
    <3>4. <<h>> \in Data /\ ValueOf(<<h>>) = h
      BY <3>3, SingleWord
    <3>5. IsExact(BigInt(<<h>>, 1), 1 * ValueOf(<<h>>))
      BY <3>4, BigIsExact
    <3>6. 1 * ValueOf(<<h>>) = -ToBigint(i)
      BY <3>3, <3>4
    <3> QED  BY <3>2, <3>3, <3>5, <3>6
  <2>2. CASE i.kind = "int" /\ i.val # MinInt
    <3>1. -i.val \in MinInt .. MaxInt /\ ToBigint(i) = i.val
      BY <2>2, IntegerIs, HalfIs
    <3>2. Neg(i) = SmallInt(-i.val)
      BY <2>2 DEF Neg
    <3> QED  BY <3>1, <3>2, SmallIsExact
  <2>3. CASE i.kind = "big"
    <3>1. /\ i.data \in Arrays /\ -i.sign \in {-1, 1} /\ i.sign \in {-1, 1}
          /\ ValueOf(i.data) \in Nat
          /\ ToBigint(i) = i.sign * ValueOf(i.data)
      BY <2>3, IntegerIs, DataIs
    <3>2. Neg(i) = FromDataAndSign(i.data, -i.sign)
      BY <2>3 DEF Neg
    <3>3. IsExact(Neg(i), (-i.sign) * ValueOf(i.data))
      BY <3>1, <3>2, FromDataAndSignIs
    <3>4. (-i.sign) * ValueOf(i.data) = -ToBigint(i)
      BY <3>1
    <3> QED  BY <3>3, <3>4
  <2> QED  BY <2>1, <2>2, <2>3, IntegerIs
<1>2. IsExact(AbsInteger(i), Magnitude(ToBigint(i)))
  <2>1. CASE i.kind = "int"
    <3>1. ToBigint(i) = i.val /\ i.val \in Int
      BY <2>1, IntegerIs
    <3>2. AbsInteger(i) = IF i.val < 0 THEN Neg(i) ELSE i
      BY <2>1 DEF AbsInteger
    <3>3. IsExact(i, i.val)
      BY <3>1 DEF IsExact
    <3> QED  BY <1>1, <3>1, <3>2, <3>3 DEF Magnitude
  <2>2. CASE i.kind = "big"
    <3>1. /\ i.data \in Data /\ i.sign \in {-1, 1} /\ ValueOf(i.data) \in Nat
          /\ ValueOf(i.data) >= 1 /\ ToBigint(i) = i.sign * ValueOf(i.data)
      BY <2>2, IntegerIs
    <3>2. AbsInteger(i) = BigInt(i.data, 1)
      BY <2>2 DEF AbsInteger
    <3>3. IsExact(AbsInteger(i), 1 * ValueOf(i.data))
      BY <3>1, <3>2, BigIsExact
    <3>4. Magnitude(ToBigint(i)) = 1 * ValueOf(i.data)
      BY <3>1 DEF Magnitude
    <3> QED  BY <3>3, <3>4
  <2> QED  BY <2>1, <2>2, IntegerIs
<1> QED  BY <1>1, <1>2

LEMMA IntAddIs ==
  ASSUME NEW i \in SailInteger, i.kind = "big", NEW n \in MinInt .. MaxInt
  PROVE  /\ IsExact(IntAdd(i, n), ToBigint(i) + n)
         /\ IsExact(IntSub(i, n), ToBigint(i) - n)
<1>1. /\ i.data \in Data /\ i.sign \in {-1, 1} /\ ToBigint(i) \in Int
      /\ ToBigint(i) = i.sign * ValueOf(i.data)
  BY IntegerIs
<1>2. CASE n = 0
  <2>1. IntAdd(i, n) = i /\ IntSub(i, n) = i
    BY <1>2 DEF IntAdd, IntSub
  <2>2. ToBigint(i) + n = ToBigint(i) /\ ToBigint(i) - n = ToBigint(i)
    BY <1>1, <1>2
  <2>3. IsExact(i, ToBigint(i))
    BY DEF IsExact
  <2> QED  BY <2>1, <2>2, <2>3
<1>3. CASE n # 0
  <2>1. /\ IntAdd(i, n) = AddIntToData(i.data, i.sign, n)
        /\ IntSub(i, n) = SubIntFromData(i.data, i.sign, n)
    BY <1>3 DEF IntAdd, IntSub
  <2> QED  BY <1>1, <1>3, <2>1, AddIntToDataIs
<1> QED  BY <1>2, <1>3

\* The sum of two integers is exact, whichever of the two are big, also when
\* the machine sum overflows; and it is kept in the proper form.
THEOREM AdditionExact ==
  ASSUME NEW i \in SailInteger, NEW j \in SailInteger
  PROVE  IsExact(AddInteger(i, j), ToBigint(i) + ToBigint(j))
<1>1. ToBigint(i) \in Int /\ ToBigint(j) \in Int
  BY IntegerIs
<1>2. CASE i.kind = "int" /\ j.kind = "int"
  <2> DEFINE m == i.val
             n == j.val
  <2>1. /\ m \in MinInt .. MaxInt /\ n \in MinInt .. MaxInt
        /\ m \in Int /\ n \in Int /\ ToBigint(i) = m /\ ToBigint(j) = n
    BY <1>2, IntegerIs
  <2>2. AddInteger(i, j) = IF FitsMachine(n + m) THEN SmallInt(n + m)
                           ELSE AddIntToData(DataOf(n), Sign(n), m)
    BY <1>2 DEF AddInteger
  <2> HIDE DEF m, n
  <2>3. CASE FitsMachine(n + m)
    <3>1. n + m \in MinInt .. MaxInt /\ n + m = m + n
      BY <2>1, <2>3, HalfIs DEF FitsMachine
    <3> QED  BY <2>1, <2>2, <2>3, <3>1, SmallIsExact
  <2>4. CASE ~ FitsMachine(n + m)
    <3>1. m # 0 /\ n # 0
      BY <2>1, <2>4, HalfIs DEF FitsMachine
    <3>2. /\ DataOf(n) \in Data /\ Sign(n) \in {-1, 1}
          /\ Sign(n) * ValueOf(DataOf(n)) = n
      BY <2>1, <3>1, DataOfIs
    <3>3. IsExact(AddIntToData(DataOf(n), Sign(n), m),
                  Sign(n) * ValueOf(DataOf(n)) + m)
      BY <2>1, <3>1, <3>2, AddIntToDataIs
    <3>4. Sign(n) * ValueOf(DataOf(n)) + m = m + n
      BY <2>1, <3>2
    <3> QED  BY <2>1, <2>2, <2>4, <3>3, <3>4
  <2> QED  BY <2>3, <2>4
<1>3. CASE i.kind = "int" /\ j.kind = "big"
  <2>1. AddInteger(i, j) = IntAdd(j, i.val)
    BY <1>3 DEF AddInteger
  <2>2. i.val \in MinInt .. MaxInt /\ ToBigint(i) = i.val
    BY <1>3, IntegerIs
  <2>3. ToBigint(j) + i.val = ToBigint(i) + ToBigint(j)
    BY <1>1, <2>2
  <2> QED  BY <1>3, <2>1, <2>2, <2>3, IntAddIs
<1>4. CASE i.kind = "big" /\ j.kind = "int"
  <2>1. AddInteger(i, j) = IntAdd(i, j.val)
    BY <1>4 DEF AddInteger
  <2>2. j.val \in MinInt .. MaxInt /\ ToBigint(j) = j.val
    BY <1>4, IntegerIs
  <2> QED  BY <1>4, <2>1, <2>2, IntAddIs
<1>5. CASE i.kind = "big" /\ j.kind = "big"
  <2> DEFINE a == i.data
             b == j.data
             s == i.sign
             t == j.sign
             difference == DataSub(b, a)
  <2>1. /\ a \in Data /\ b \in Data /\ s \in {-1, 1} /\ t \in {-1, 1}
        /\ ValueOf(a) \in Nat /\ ValueOf(b) \in Nat
        /\ ToBigint(i) = s * ValueOf(a) /\ ToBigint(j) = t * ValueOf(b)
    BY <1>5, IntegerIs
  <2>2. AddInteger(i, j) =
          IF s = t THEN FromDataAndSign(DataAdd(a, b), t)
          ELSE FromDataAndSign(difference.digits, difference.sign * t)
    BY <1>5 DEF AddInteger
  <2> HIDE DEF a, b, s, t
  <2>3. CASE s = t
    <3>1. DataAdd(a, b) \in Arrays /\ ValueOf(DataAdd(a, b)) = ValueOf(a) + ValueOf(b)
      BY <2>1, DataIs, DataAddIs
    <3>2. IsExact(AddInteger(i, j), t * (ValueOf(a) + ValueOf(b)))
      BY <2>1, <2>2, <2>3, <3>1, FromDataAndSignIs
    <3>3. t * (ValueOf(a) + ValueOf(b)) = ToBigint(i) + ToBigint(j)
      BY <2>1, <2>3
    <3> QED  BY <3>2, <3>3
  <2>4. CASE s # t
    <3>1. IsDifference(difference, ValueOf(b) - ValueOf(a))
      BY <2>1, DataSubIs
    <3> HIDE DEF difference
    <3>2. ValueOf(b) - ValueOf(a) \in Int
      BY <2>1
    <3>3. IsExact(AddInteger(i, j), (ValueOf(b) - ValueOf(a)) * t)
      BY <2>1, <2>2, <2>4, <3>1, <3>2, DifferenceIs
    <3>4. (ValueOf(b) - ValueOf(a)) * t = ToBigint(i) + ToBigint(j)
      BY <2>1, <2>4
    <3> QED  BY <3>3, <3>4
  <2> QED  BY <2>3, <2>4
<1> QED  BY <1>2, <1>3, <1>4, <1>5, IntegerIs

\* The difference of two integers is exact, whichever of the two are big.
THEOREM SubtractionExact ==
  ASSUME NEW i \in SailInteger, NEW j \in SailInteger
  PROVE  IsExact(SubInteger(i, j), ToBigint(i) - ToBigint(j))
<1>1. ToBigint(i) \in Int /\ ToBigint(j) \in Int
  BY IntegerIs
<1>2. CASE i.kind = "int" /\ j.kind = "int"
  <2> DEFINE m == i.val
             n == j.val
  <2>1. /\ m \in MinInt .. MaxInt /\ n \in MinInt .. MaxInt
        /\ m \in Int /\ n \in Int /\ ToBigint(i) = m /\ ToBigint(j) = n
    BY <1>2, IntegerIs
  <2>2. SubInteger(i, j) = IF FitsMachine(m - n) THEN SmallInt(m - n)
                           ELSE IF m = 0 THEN Neg(j)
                           ELSE SubIntFromData(DataOf(m), Sign(m), n)
    BY <1>2 DEF SubInteger
  <2> HIDE DEF m, n
  <2>3. CASE FitsMachine(m - n)
    <3>1. m - n \in MinInt .. MaxInt
      BY <2>1, <2>3, HalfIs DEF FitsMachine
    <3> QED  BY <2>1, <2>2, <2>3, <3>1, SmallIsExact
  <2>4. CASE ~ FitsMachine(m - n) /\ m = 0
    <3>1. -n = m - n
      BY <2>1, <2>4
    <3>2. IsExact(Neg(j), -ToBigint(j))
      BY NegationExact
    <3> QED  BY <2>1, <2>2, <2>4, <3>1, <3>2
  <2>5. CASE ~ FitsMachine(m - n) /\ m # 0
    <3>1. n # 0
      BY <2>1, <2>5, HalfIs DEF FitsMachine
    <3>2. /\ DataOf(m) \in Data /\ Sign(m) \in {-1, 1}
          /\ Sign(m) * ValueOf(DataOf(m)) = m
      BY <2>1, <2>5, DataOfIs
    <3>3. IsExact(SubIntFromData(DataOf(m), Sign(m), n),
                  Sign(m) * ValueOf(DataOf(m)) - n)
      BY <2>1, <3>1, <3>2, AddIntToDataIs
    <3> QED  BY <2>1, <2>2, <2>5, <3>2, <3>3
  <2> QED  BY <2>3, <2>4, <2>5
<1>3. CASE i.kind = "int" /\ j.kind = "big"
  <2>1. SubInteger(i, j) = IF i.val = 0 THEN Neg(j) ELSE Neg(IntSub(j, i.val))
    BY <1>3 DEF SubInteger
  <2>2. i.val \in MinInt .. MaxInt /\ ToBigint(i) = i.val
    BY <1>3, IntegerIs
  <2>3. CASE i.val = 0
    <3>1. -ToBigint(j) = ToBigint(i) - ToBigint(j)
      BY <1>1, <2>2, <2>3
    <3>2. IsExact(Neg(j), -ToBigint(j))
      BY NegationExact
    <3> QED  BY <2>1, <2>3, <3>1, <3>2
  <2>4. CASE i.val # 0
    <3> DEFINE k == IntSub(j, i.val)
    <3>1. k \in SailInteger /\ ToBigint(k) = ToBigint(j) - i.val
      BY <1>3, <2>2, IntAddIs DEF IsExact
    <3> HIDE DEF k
    <3>2. IsExact(Neg(k), -ToBigint(k))
      BY <3>1, NegationExact
    <3>3. -ToBigint(k) = ToBigint(i) - ToBigint(j)
      BY <1>1, <2>2, <3>1
    <3> QED  BY <2>1, <2>4, <3>2, <3>3 DEF k
  <2> QED  BY <2>3, <2>4
<1>4. CASE i.kind = "big" /\ j.kind = "int"
  <2>1. SubInteger(i, j) = IntSub(i, j.val)
    BY <1>4 DEF SubInteger
  <2>2. j.val \in MinInt .. MaxInt /\ ToBigint(j) = j.val
    BY <1>4, IntegerIs
  <2> QED  BY <1>4, <2>1, <2>2, IntAddIs
<1>5. CASE i.kind = "big" /\ j.kind = "big"
  <2> DEFINE a == i.data
             b == j.data
             s == i.sign
             t == j.sign
             difference == DataSub(a, b)
  <2>1. /\ a \in Data /\ b \in Data /\ s \in {-1, 1} /\ t \in {-1, 1}
        /\ ValueOf(a) \in Nat /\ ValueOf(b) \in Nat
        /\ ToBigint(i) = s * ValueOf(a) /\ ToBigint(j) = t * ValueOf(b)
    BY <1>5, IntegerIs
  <2>2. SubInteger(i, j) =
          IF s = t THEN FromDataAndSign(difference.digits, difference.sign * s)
          ELSE FromDataAndSign(DataAdd(a, b), s)
    BY <1>5 DEF SubInteger
  <2> HIDE DEF a, b, s, t
  <2>3. CASE s # t
    <3>1. DataAdd(a, b) \in Arrays /\ ValueOf(DataAdd(a, b)) = ValueOf(a) + ValueOf(b)
      BY <2>1, DataIs, DataAddIs
    <3>2. IsExact(SubInteger(i, j), s * (ValueOf(a) + ValueOf(b)))
      BY <2>1, <2>2, <2>3, <3>1, FromDataAndSignIs
    <3>3. s * (ValueOf(a) + ValueOf(b)) = ToBigint(i) - ToBigint(j)
      BY <2>1, <2>3
    <3> QED  BY <3>2, <3>3
  <2>4. CASE s = t
    <3>1. IsDifference(difference, ValueOf(a) - ValueOf(b))
      BY <2>1, DataSubIs
    <3> HIDE DEF difference
    <3>2. ValueOf(a) - ValueOf(b) \in Int
      BY <2>1
    <3>3. IsExact(SubInteger(i, j), (ValueOf(a) - ValueOf(b)) * s)
      BY <2>1, <2>2, <2>4, <3>1, <3>2, DifferenceIs
    <3>4. (ValueOf(a) - ValueOf(b)) * s = ToBigint(i) - ToBigint(j)
      BY <2>1, <2>4
    <3> QED  BY <3>3, <3>4
  <2> QED  BY <2>3, <2>4
<1> QED  BY <1>2, <1>3, <1>4, <1>5, IntegerIs

-----------------------------------------------------------------------------
(***************************************************************************)
(* Comparisons and conversions.                                            *)
(***************************************************************************)

\* A number as the comparisons are given it: zero has no digits.
SignedData(data, sign) ==
  \/ data = <<>> /\ sign = 0
  \/ data \in Data /\ sign \in {-1, 1}

LEMMA SignedIs ==
  ASSUME NEW data, NEW sign, SignedData(data, sign)
  PROVE  /\ data \in Arrays /\ Len(data) \in Nat /\ sign \in {-1, 0, 1}
         /\ ValueOf(data) \in Nat
         /\ sign = 0 => data = <<>> /\ ValueOf(data) = 0
         /\ sign # 0 => data \in Data /\ ValueOf(data) >= 1
<1>1. CASE data = <<>> /\ sign = 0
  <2>1. <<>> \in Arrays /\ Len(<<>>) = 0
    BY DEF Arrays
  <2>2. ValueOf(<<>>) = 0
    BY <2>1, RestIs
  <2> QED  BY <1>1, <2>1, <2>2
<1>2. CASE data \in Data /\ sign \in {-1, 1}
  BY <1>2, DataIs
<1> QED  BY <1>1, <1>2 DEF SignedData

\* _data_lt tells the order of two numbers.
LEMMA DataLtIs ==
  ASSUME NEW a, NEW s, SignedData(a, s), NEW b, NEW t, SignedData(b, t)
  PROVE  DataLt(a, s, b, t) <=> s * ValueOf(a) < t * ValueOf(b)
<1> DEFINE v == ValueOf(a)
           w == ValueOf(b)
           top == HighestDifference(a, b)
<1>1. /\ a \in Arrays /\ Len(a) \in Nat /\ s \in {-1, 0, 1} /\ v \in Nat
      /\ s = 0 => a = <<>> /\ v = 0
      /\ s # 0 => a \in Data /\ v >= 1
  BY SignedIs
<1>2. /\ b \in Arrays /\ Len(b) \in Nat /\ t \in {-1, 0, 1} /\ w \in Nat
      /\ t = 0 => b = <<>> /\ w = 0
      /\ t # 0 => b \in Data /\ w >= 1
  BY SignedIs
<1>3. DataLt(a, s, b, t) <=>
        IF s # t THEN s < t
        ELSE IF Len(a) > Len(b) THEN t <= 0
        ELSE IF Len(a) < Len(b) THEN t > 0
        ELSE top # 0 /\ IF a[top] > b[top] THEN t <= 0 ELSE t > 0
  BY DEF DataLt
<1>4. CASE s # t
  <2>1. s * v < t * w <=> s < t
    <3> HIDE DEF v, w
    <3>1. CASE s = -1 /\ t = 0
      BY <1>1, <1>2, <3>1
    <3>2. CASE s = -1 /\ t = 1
      BY <1>1, <1>2, <3>2
    <3>3. CASE s = 0 /\ t = -1
      BY <1>1, <1>2, <3>3
    <3>4. CASE s = 0 /\ t = 1
      BY <1>1, <1>2, <3>4
    <3>5. CASE s = 1 /\ t = -1
      BY <1>1, <1>2, <3>5
    <3>6. CASE s = 1 /\ t = 0
      BY <1>1, <1>2, <3>6
    <3> QED  BY <1>1, <1>2, <1>4, <3>1, <3>2, <3>3, <3>4, <3>5, <3>6
  <2> QED  BY <1>3, <1>4, <2>1
<1>5. CASE s = t /\ s = 0
  <2>1. a = <<>> /\ b = <<>> /\ v = 0 /\ w = 0
    BY <1>1, <1>2, <1>5
  <2>2. top = 0
    BY <2>1 DEF HighestDifference
  <2>3. ~ DataLt(a, s, b, t)
    <3> HIDE DEF top
    <3> QED  BY <1>3, <1>5, <2>1, <2>2
  <2>4. ~ (s * v < t * w)
    <3> HIDE DEF v, w
    <3> QED  BY <1>5, <2>1
  <2> QED  BY <2>3, <2>4
<1>6. CASE s = t /\ s # 0
  <2>1. a \in Data /\ b \in Data /\ s \in {-1, 1}
    BY <1>1, <1>2, <1>6
  <2>2. CASE Len(a) > Len(b)
    <3>1. w < v
      BY <1>1, <1>2, <2>1, <2>2, LengthDecides
    <3> HIDE DEF v, w, top
    <3>2. t \in {-1, 1} /\ (s * v < t * w <=> t <= 0)
      BY <1>1, <1>2, <1>6, <2>1, <3>1
    <3> QED  BY <1>3, <1>6, <2>2, <3>2 DEF v, w
  <2>3. CASE Len(a) < Len(b)
    <3>1. v < w
      BY <1>1, <1>2, <2>1, <2>3, LengthDecides
    <3> HIDE DEF v, w, top
    <3>2. s * v < t * w <=> t > 0
      BY <1>1, <1>2, <1>6, <2>1, <3>1
    <3>3. ~ Len(a) > Len(b)
      BY <1>1, <1>2, <2>3
    <3> QED  BY <1>3, <1>6, <2>3, <3>2, <3>3 DEF v, w
  <2>4. CASE Len(a) = Len(b)
    <3>1. /\ top = 0 => v = w
          /\ top # 0 /\ a[top] < b[top] => v < w
          /\ top # 0 /\ ~ a[top] < b[top] => a[top] > b[top] /\ w < v
      BY <1>1, <1>2, <2>4, SameLengthDecides
    <3>2. top # 0 => a[top] \in Int /\ b[top] \in Int
      <4>1. top # 0 => top \in 1 .. Len(a)
        BY <1>1, <1>2, <2>4, HighestIs
      <4> HIDE DEF top
      <4>2. top # 0 => a[top] \in Word /\ b[top] \in Word
        BY <1>1, <1>2, <2>4, <4>1 DEF Arrays
      <4> QED  BY <4>2, BaseAssumption DEF Word
    <3> HIDE DEF v, w, top
    <3>3. DataLt(a, s, b, t) <=> top # 0 /\ IF a[top] > b[top] THEN t <= 0 ELSE t > 0
      BY <1>1, <1>2, <1>3, <1>6, <2>4
    <3>4. CASE top = 0
      <4>1. ~ (s * v < t * w)
        BY <1>1, <1>2, <1>6, <3>1, <3>4
      <4> QED  BY <3>3, <3>4, <4>1 DEF v, w
    <3>5. CASE top # 0 /\ a[top] < b[top]
      <4>1. v < w /\ ~ a[top] > b[top]
        BY <3>1, <3>2, <3>5
      <4>2. s * v < t * w <=> t > 0
        BY <1>1, <1>2, <1>6, <2>1, <4>1
      <4> QED  BY <3>3, <3>5, <4>1, <4>2 DEF v, w
    <3>6. CASE top # 0 /\ ~ a[top] < b[top]
      <4>1. w < v /\ a[top] > b[top]
        BY <3>1, <3>6
      <4>2. s * v < t * w <=> t <= 0
        BY <1>1, <1>2, <1>6, <2>1, <4>1
      <4> QED  BY <3>3, <3>6, <4>1, <4>2 DEF v, w
    <3> QED  BY <3>4, <3>5, <3>6
  <2> QED  BY <1>1, <1>2, <2>2, <2>3, <2>4
<1> QED  BY <1>4, <1>5, <1>6

\* _data_lt1 compares with a digit; zero is given as a digit with the sign -1.
LEMMA DataLt1Is ==
  ASSUME NEW a \in Data, NEW s \in {-1, 1}, NEW digit \in Word,
         NEW t \in {-1, 1}, t = 1 => digit # 0
  PROVE  DataLt1(a, s, digit, t) <=> s * ValueOf(a) < t * digit
<1> DEFINE v == ValueOf(a)
<1>1. a \in Arrays /\ Len(a) \in Nat \ {0} /\ v \in Nat /\ v >= 1 /\ digit \in Nat
  BY DataIs DEF Word
<1>2. DataLt1(a, s, digit, t) <=>
        IF s # t THEN s < t
        ELSE IF Len(a) > 1 THEN t <= 0
        ELSE a[1] # digit /\ IF a[1] > digit THEN t <= 0 ELSE t > 0
  BY DEF DataLt1
<1>3. CASE s # t
  <2>1. s * v < t * digit <=> s < t
    <3> HIDE DEF v
    <3> QED  BY <1>1, <1>3
  <2> QED  BY <1>2, <1>3, <2>1
<1>4. CASE s = t /\ Len(a) > 1
  <2>1. digit < v
    <3>1. <<digit>> \in Arrays /\ ValueOf(<<digit>>) = digit /\ Len(<<digit>>) = 1
      BY SingleWord
    <3> QED  BY <1>4, <3>1, LengthDecides
  <2> HIDE DEF v
  <2>2. s * v < t * digit <=> t <= 0
    BY <1>1, <1>4, <2>1
  <2> QED  BY <1>2, <1>4, <2>2 DEF v
<1>5. CASE s = t /\ ~ Len(a) > 1
  <2>1. Len(a) = 1
    <3> DEFINE n == Len(a)
    <3>1. n \in Nat /\ n # 0 /\ ~ n > 1
      BY <1>1, <1>5
    <3> HIDE DEF n
    <3>2. n = 1
      BY <3>1
    <3> QED  BY <3>2 DEF n
  <2>2. v = a[1] /\ a[1] \in Nat
    BY <1>1, <2>1, OneDigit DEF Word
  <2>3. DataLt1(a, s, digit, t) <=> v # digit /\ IF v > digit THEN t <= 0 ELSE t > 0
    BY <1>2, <1>5, <2>2
  <2> HIDE DEF v
  <2>4. s * v < t * digit <=> v # digit /\ IF v > digit THEN t <= 0 ELSE t > 0
    BY <1>1, <1>5
  <2> QED  BY <2>3, <2>4 DEF v
<1> QED  BY <1>3, <1>4, <1>5

\* A machine integer as it is compared with a big one.
LEMMA SmallSigned ==
  ASSUME NEW n \in MinInt .. MaxInt
  PROVE  SignedData(DataOf(n), Sign(n)) /\ Sign(n) * ValueOf(DataOf(n)) = n
<1>1. CASE n = 0
  <2>1. DataOf(n) = <<>> /\ Sign(n) = 0
    BY <1>1 DEF DataOf, Sign
  <2>2. SignedData(DataOf(n), Sign(n))
    BY <2>1 DEF SignedData
  <2> QED  BY <1>1, <2>1, <2>2, SignedIs
<1>2. CASE n # 0
  BY <1>2, DataOfIs DEF SignedData
<1> QED  BY <1>1, <1>2

\* The order of two integers is that of their numbers.
THEOREM OrderingExact ==
  ASSUME NEW i \in SailInteger, NEW j \in SailInteger
  PROVE  /\ LtInteger(i, j) <=> ToBigint(i) < ToBigint(j)
         /\ LeInteger(i, j) <=> ToBigint(i) <= ToBigint(j)
         /\ GtInteger(i, j) <=> ToBigint(i) > ToBigint(j)
         /\ GeInteger(i, j) <=> ToBigint(i) >= ToBigint(j)
<1>1. ASSUME NEW m \in SailInteger, NEW k \in SailInteger
      PROVE  LtInteger(m, k) <=> ToBigint(m) < ToBigint(k)
  <2>1. CASE m.kind = "int" /\ k.kind = "int"
    BY <2>1, IntegerIs DEF LtInteger
  <2>2. CASE m.kind = "int" /\ k.kind = "big"
    <3>1. LtInteger(m, k) <=> DataLt(DataOf(m.val), Sign(m.val), k.data, k.sign)
      BY <2>2 DEF LtInteger
    <3>2. /\ m.val \in MinInt .. MaxInt /\ ToBigint(m) = m.val
          /\ ToBigint(k) = k.sign * ValueOf(k.data) /\ SignedData(k.data, k.sign)
      BY <2>2, IntegerIs DEF SignedData
    <3>3. SignedData(DataOf(m.val), Sign(m.val))
          /\ Sign(m.val) * ValueOf(DataOf(m.val)) = m.val
      BY <3>2, SmallSigned
    <3> QED  BY <3>1, <3>2, <3>3, DataLtIs
  <2>3. CASE m.kind = "big" /\ k.kind = "int"
    <3> DEFINE n == k.val
    <3>1. /\ n \in MinInt .. MaxInt /\ ToBigint(k) = n /\ n \in Int
          /\ m.data \in Data /\ m.sign \in {-1, 1}
          /\ ToBigint(m) = m.sign * ValueOf(m.data)
      BY <2>3, IntegerIs
    <3>2. LtInteger(m, k) <=> IF n > 0 THEN DataLt1(m.data, m.sign, Wrap(n), 1)
                                       ELSE DataLt1(m.data, m.sign, Wrap(-n), -1)
      BY <2>3 DEF LtInteger
    <3> HIDE DEF n
    <3>3. DigitOf(n) \in Word
      BY <3>1, DigitOfIs
    <3>4. CASE n > 0
      <4>1. Wrap(n) = n /\ n \in Word
        BY <3>1, <3>3, <3>4, DigitOfIs DEF DigitOf
      <4>2. DataLt1(m.data, m.sign, n, 1) <=> m.sign * ValueOf(m.data) < 1 * n
        BY <3>1, <3>4, <4>1, DataLt1Is
      <4>3. 1 * n = n
        BY <3>1
      <4> QED  BY <3>1, <3>2, <3>4, <4>1, <4>2, <4>3
    <3>5. CASE n <= 0
      <4>1. Wrap(-n) = -n /\ -n \in Word
        <5>1. -n \in Word
          BY <3>1, <3>5, HalfIs, BaseAssumption DEF Word
        <5> QED  BY <3>1, <5>1, WrapNear
      <4>2. DataLt1(m.data, m.sign, -n, -1) <=> m.sign * ValueOf(m.data) < (-1) * (-n)
        BY <3>1, <4>1, DataLt1Is
      <4>3. (-1) * (-n) = n /\ ~ n > 0
        BY <3>1, <3>5
      <4> QED  BY <3>1, <3>2, <4>1, <4>2, <4>3
    <3> QED  BY <3>1, <3>4, <3>5
  <2>4. CASE m.kind = "big" /\ k.kind = "big"
    <3>1. LtInteger(m, k) <=> DataLt(m.data, m.sign, k.data, k.sign)
      BY <2>4 DEF LtInteger
    <3>2. /\ SignedData(m.data, m.sign) /\ SignedData(k.data, k.sign)
          /\ ToBigint(m) = m.sign * ValueOf(m.data)
          /\ ToBigint(k) = k.sign * ValueOf(k.data)
      BY <2>4, IntegerIs DEF SignedData
    <3> QED  BY <3>1, <3>2, DataLtIs
  <2> QED  BY <2>1, <2>2, <2>3, <2>4, IntegerIs
<1>2. ToBigint(i) \in Int /\ ToBigint(j) \in Int
  BY IntegerIs
<1>3. LtInteger(i, j) <=> ToBigint(i) < ToBigint(j)
  BY <1>1
<1>4. LtInteger(j, i) <=> ToBigint(j) < ToBigint(i)
  BY <1>1
<1>5. CASE i.kind = "int" /\ j.kind = "int"
  <2>1. /\ LeInteger(i, j) <=> i.val <= j.val
        /\ GtInteger(i, j) <=> i.val > j.val
        /\ GeInteger(i, j) <=> i.val >= j.val
    BY <1>5 DEF LeInteger, GtInteger, GeInteger
  <2> QED  BY <1>3, <1>5, <2>1, IntegerIs
<1>6. CASE ~ (i.kind = "int" /\ j.kind = "int")
  <2>1. /\ LeInteger(i, j) <=> ~ LtInteger(j, i)
        /\ GtInteger(i, j) <=> LtInteger(j, i)
        /\ GeInteger(i, j) <=> ~ LtInteger(i, j)
    BY <1>6 DEF LeInteger, GtInteger, GeInteger
  <2> QED  BY <1>2, <1>3, <1>4, <2>1
<1> QED  BY <1>5, <1>6

\* Two integers are equal if and only if their numbers are, though a machine
\* integer and a big one may stand for the same number.
THEOREM EqualityOfIntegersExact ==
  ASSUME NEW i \in SailInteger, NEW j \in SailInteger
  PROVE  EqInteger(i, j) <=> ToBigint(i) = ToBigint(j)
<1>1. ASSUME NEW m \in SailInteger, m.kind = "big", NEW n \in MinInt .. MaxInt
      PROVE  EqInt(m, n) <=> ToBigint(m) = n
  <2> DEFINE a == m.data
             s == m.sign
             v == ValueOf(a)
  <2>1. /\ a \in Data /\ s \in {-1, 1} /\ v \in Nat /\ v >= 1 /\ n \in Int
        /\ ToBigint(m) = s * v
    BY <1>1, IntegerIs, HalfIs
  <2>2. EqInt(m, n) <=> s = Sign(n) /\ Len(a) = 1
                        /\ a[1] = (IF s < 0 THEN Wrap(-n) ELSE Wrap(n))
    BY DEF EqInt
  <2>3. a \in Arrays /\ Len(a) = 1 => v = a[1]
    BY <2>1, DataIs, OneDigit
  <2>4. /\ n < 0 => Wrap(-n) = -n /\ Sign(n) = -1
        /\ n > 0 => Wrap(n) = n /\ Sign(n) = 1
        /\ n = 0 => Sign(n) = 0
    <3>1. n < 0 => Wrap(-n) = DigitOf(n)
      BY DEF DigitOf
    <3>2. n > 0 => Wrap(n) = DigitOf(n)
      BY <2>1 DEF DigitOf
    <3> QED  BY <3>1, <3>2, DigitOfIs
  <2>5. ASSUME EqInt(m, n) PROVE ToBigint(m) = n
    <3>1. s = Sign(n) /\ v = (IF s < 0 THEN Wrap(-n) ELSE Wrap(n))
      BY <2>1, <2>2, <2>3, <2>5, DataIs
    <3> HIDE DEF s, v
    <3> QED  BY <2>1, <2>4, <3>1
  <2>6. ASSUME ToBigint(m) = n PROVE EqInt(m, n)
    <3>1. n # 0 /\ s = Sign(n) /\ v = (IF s < 0 THEN Wrap(-n) ELSE Wrap(n))
      <4> HIDE DEF s, v
      <4> QED  BY <2>1, <2>4, <2>6
    <3>2. v = DigitOf(n) /\ DigitOf(n) \in Word
      BY <2>1, <2>4, <3>1, DigitOfIs DEF DigitOf
    <3>3. a = <<v>>
      <4> DEFINE d == DigitOf(n)
      <4>1. d \in Word /\ d # 0 /\ v = d
        BY <2>1, <3>2, BaseAssumption
      <4> HIDE DEF d
      <4>2. <<d>> \in Data /\ ValueOf(<<d>>) = v
        BY <4>1, SingleWord
      <4>3. a = <<d>>
        BY <2>1, <4>2, SameData
      <4> QED  BY <4>1, <4>3
    <3>4. Len(a) = 1 /\ a[1] = v
      <4> HIDE DEF v
      <4> QED  BY <3>3
    <3> QED  BY <2>2, <3>1, <3>4
  <2> QED  BY <2>5, <2>6
<1>2. CASE i.kind = "int" /\ j.kind = "int"
  BY <1>2, IntegerIs DEF EqInteger
<1>3. CASE i.kind = "int" /\ j.kind = "big"
  <2>1. EqInteger(i, j) <=> EqInt(j, i.val)
    BY <1>3 DEF EqInteger
  <2>2. i.val \in MinInt .. MaxInt /\ ToBigint(i) = i.val
    BY <1>3, IntegerIs
  <2> QED  BY <1>1, <1>3, <2>1, <2>2
<1>4. CASE i.kind = "big" /\ j.kind = "int"
  <2>1. EqInteger(i, j) <=> EqInt(i, j.val)
    BY <1>4 DEF EqInteger
  <2>2. j.val \in MinInt .. MaxInt /\ ToBigint(j) = j.val
    BY <1>4, IntegerIs
  <2> QED  BY <1>1, <1>4, <2>1, <2>2
<1>5. CASE i.kind = "big" /\ j.kind = "big"
  <2> DEFINE a == i.data
             b == j.data
             s == i.sign
             t == j.sign
             v == ValueOf(a)
             w == ValueOf(b)
  <2>1. /\ a \in Data /\ b \in Data /\ s \in {-1, 1} /\ t \in {-1, 1}
        /\ v \in Nat /\ v >= 1 /\ w \in Nat /\ w >= 1
        /\ ToBigint(i) = s * v /\ ToBigint(j) = t * w
    BY <1>5, IntegerIs
  <2>2. EqInteger(i, j) <=> s = t /\ a = b
    BY <1>5 DEF EqInteger
  <2>3. ASSUME ToBigint(i) = ToBigint(j) PROVE s = t /\ a = b
    <3>1. s = t /\ v = w
      <4> HIDE DEF s, t, v, w
      <4> QED  BY <2>1, <2>3
    <3> QED  BY <2>1, <3>1, SameData
  <2>4. ASSUME s = t /\ a = b PROVE ToBigint(i) = ToBigint(j)
    BY <2>1, <2>4
  <2> QED  BY <2>2, <2>3, <2>4
<1> QED  BY <1>2, <1>3, <1>4, <1>5, IntegerIs

\* toint raises if and only if the number does not fit a machine integer, and
\* otherwise it is the number, also for the least machine integer, whose
\* absolute value does not fit.
THEOREM ToIntExact ==
  ASSUME NEW i \in SailInteger
  PROVE  /\ IntegerFitsInt(i) <=> FitsMachine(ToBigint(i))
         /\ IntegerFitsInt(i) => ToInt(i) = ToBigint(i)
<1>1. CASE i.kind = "int"
  BY <1>1, IntegerIs, HalfIs DEF IntegerFitsInt, ToInt, FitsMachine
<1>2. CASE i.kind = "big"
  <2> DEFINE a == i.data
             s == i.sign
             v == ValueOf(a)
             h == Base \div 2
  <2>1. /\ a \in Data /\ s \in {-1, 1} /\ v \in Nat /\ v >= 1
        /\ ToBigint(i) = s * v
    BY <1>2, IntegerIs
  <2>2. h \in Nat \ {0} /\ Base = 2 * h /\ MaxInt = h - 1 /\ MinInt = -h
    BY HalfIs
  <2>3. /\ IntegerFitsInt(i) <=>
             Len(a) = 1 /\ (a[1] <= h - 1 \/ (s = -1 /\ a[1] = h))
        /\ ToInt(i) = Intmask(IF s = -1 THEN Wrap(-a[1]) ELSE a[1])
    BY <1>2, <2>2 DEF IntegerFitsInt, ToInt
  <2>4. FitsMachine(ToBigint(i)) <=> v <= h - 1 \/ (s = -1 /\ v = h)
    <3> HIDE DEF s, v, h
    <3> QED  BY <2>1, <2>2 DEF FitsMachine
  <2>5. CASE Len(a) = 1
    <3>1. v = a[1] /\ v \in Word
      BY <2>1, <2>5, DataIs, OneDigit
    <3>2. IntegerFitsInt(i) <=> v <= h - 1 \/ (s = -1 /\ v = h)
      BY <2>3, <2>5, <3>1
    <3>3. ASSUME v <= h - 1 \/ (s = -1 /\ v = h)
          PROVE  Intmask(IF s = -1 THEN Wrap(-v) ELSE v) = s * v
      <4> HIDE DEF s, v, h
      <4>1. CASE s = 1
        BY <2>1, <2>2, <3>3, <4>1 DEF Intmask
      <4>2. CASE s = -1
        <5>1. -v + Base \in Word /\ -v \in Int
          BY <2>1, <2>2, <3>1, <3>3 DEF Word
        <5>2. Wrap(-v) = -v + Base
          BY <5>1, WrapNear
        <5> DEFINE u == -v + Base
        <5>3. Intmask(u) = -v
          <6>1. u > MaxInt /\ u - Base = -v
            BY <2>1, <2>2, <3>3
          <6> HIDE DEF u
          <6>2. Intmask(u) = u - Base
            BY <6>1 DEF Intmask
          <6> QED  BY <6>1, <6>2
        <5>4. s * v = -v
          BY <2>1, <4>2
        <5> QED  BY <4>2, <5>2, <5>3, <5>4
      <4> QED  BY <2>1, <4>1, <4>2
    <3> QED  BY <2>1, <2>3, <2>4, <3>1, <3>2, <3>3
  <2>6. CASE Len(a) # 1
    <3> DEFINE d == <<Base - 1>>
    <3>1. d \in Arrays /\ Len(d) = 1 /\ ValueOf(d) = Base - 1
      <4>1. Base - 1 \in Word
        BY BaseAssumption DEF Word
      <4> QED  BY <4>1, SingleWord
    <3>2. Len(a) \in Nat /\ Len(a) # 0
      BY <2>1, DataIs
    <3> HIDE DEF d
    <3>3. 1 < Len(a)
      <4> DEFINE n == Len(a)
      <4>1. n \in Nat /\ n # 0 /\ n # 1
        BY <2>6, <3>2
      <4> HIDE DEF n
      <4>2. 1 < n
        BY <4>1
      <4> QED  BY <4>2 DEF n
    <3>4. Base - 1 < v
      BY <2>1, <3>1, <3>3, LengthDecides
    <3>5. ~ (v <= h - 1 \/ (s = -1 /\ v = h))
      <4> HIDE DEF v, h, s
      <4> QED  BY <2>1, <2>2, <3>4
    <3> QED  BY <2>3, <2>4, <2>6, <3>5
  <2> QED  BY <2>5, <2>6
<1> QED  BY <1>1, <1>2, IntegerIs

\* toint raises exactly if the number is not a machine integer.
LEMMA FitsIntIs ==
  ASSUME NEW v, NEW size, NEW n, IsVector(v, size, n)
  PROVE  FitsInt(v) <=> n <= MaxInt
<1> DEFINE p == WordBits - 1
           h == Base \div 2
<1>1. /\ n \in Nat /\ n \in Int /\ size \in Nat \ {0} /\ v.size = size /\ n < Pow2[size]
      /\ WordBits \in Nat /\ WordBits >= 2
  BY VectorIs, WordIs
<1>2. h \in Nat /\ Base = 2 * h /\ MaxInt = h - 1 /\ MaxInt \in Int
  BY HalfIs
<1>3. p \in Nat /\ Pow2[p] \in Nat /\ Pow2[p] = h
  <2>1. p \in Nat /\ p + 1 = WordBits
    BY <1>1
  <2> HIDE DEF p
  <2>2. Pow2[p + 1] = 2 * Pow2[p] /\ Pow2[p] \in Nat
    BY <2>1, Pow2Unfold
  <2>3. Pow2[WordBits] = Base
    BY WordIs
  <2> HIDE DEF h
  <2> QED  BY <1>2, <2>1, <2>2, <2>3
<1>4. FitsUint(v) <=> n \in Word
  BY FitsWord
<1>5. CASE n \notin Word
  <2>1. n >= Base
    BY <1>1, <1>5, WordIs
  <2> QED  BY <1>1, <1>2, <1>4, <1>5, <2>1 DEF FitsInt
<1>6. CASE n \in Word
  <2>1. Val(v) = n /\ FitsUint(v)
    BY <1>4, <1>6, FitsWord
  <2> HIDE DEF p, h
  <2>2. Shr(n, p) = 0 <=> n < Pow2[p]
    <3>1. Shr(n, p) = Up(n, p)
      BY <1>1, <1>3, ShrBits
    <3>2. n < Pow2[p] => Up(n, p) = 0
      BY <1>1, <1>3, FewBits
    <3>3. Up(n, p) \in Int /\ Low(n, p) \in Nat /\ Low(n, p) < Pow2[p] /\ n = Pow2[p] * Up(n, p) + Low(n, p)
      BY <1>1, <1>3, Halves
    <3>4. Up(n, p) = 0 => n < Pow2[p]
      BY <1>3, <3>3
    <3> QED  BY <3>1, <3>2, <3>4
  <2>3. n < Pow2[p] <=> n <= MaxInt
    BY <1>1, <1>2, <1>3
  <2>4. CASE size >= WordBits
    BY <1>1, <2>1, <2>2, <2>3, <2>4 DEF FitsInt, p
  <2>5. CASE ~ size >= WordBits
    <3>1. size <= p /\ size \in Nat
      BY <1>1, <2>5 DEF p
    <3>2. Pow2[size] <= Pow2[p] /\ Pow2[size] \in Nat
      BY <1>3, <3>1, Pow2Monotone
    <3>3. n < Pow2[p]
      BY <1>1, <1>3, <3>2
    <3> QED  BY <1>1, <2>1, <2>3, <2>5, <3>3 DEF FitsInt
  <2> QED  BY <2>4, <2>5
<1> QED  BY <1>5, <1>6

\* toint takes the word for a signed one; it does not raise for one that is not.
LEMMA ToIntOfBits ==
  ASSUME NEW v, NEW size, NEW n, IsVector(v, size, n), FitsInt(v)
  PROVE  BitsToInt(v) = n
<1>1. FitsUint(v)
  BY DEF FitsInt
<1>2. Val(v) = n
  BY <1>1, FitsWord
<1>3. n <= MaxInt /\ n \in Nat
  BY FitsIntIs, VectorIs
<1>4. ~ n > MaxInt
  BY <1>3, HalfIs
<1> QED  BY <1>2, <1>4 DEF BitsToInt, Intmask

\* touint of an integer gives every word and raises for every other number,
\* except that it takes negative machine integers modulo Base.
THEOREM ToUintExact ==
  ASSUME NEW i \in SailInteger
  PROVE  /\ IntegerFitsUint(i) <=>
              ToBigint(i) \in Word \/ (i.kind = "int" /\ ToBigint(i) < 0)
         /\ IntegerFitsUint(i) => ToUint(i) = ToBigint(i) % Base
<1>1. CASE i.kind = "int"
  <2>1. ToBigint(i) = i.val /\ i.val \in Int /\ i.val <= MaxInt
    BY <1>1, IntegerIs, HalfIs
  <2>2. i.val < 0 \/ i.val \in Word
    <3>1. MaxInt < Base /\ MaxInt \in Int /\ Base \in Int
      BY HalfIs, WordIs
    <3> QED  BY <2>1, <3>1 DEF Word
  <2> QED  BY <1>1, <2>1, <2>2 DEF IntegerFitsUint, ToUint, Wrap
<1>2. CASE i.kind = "big"
  <2>1. IntegerFitsUint(i) <=> ToBigint(i) \in Word
    BY <1>2 DEF IntegerFitsUint
  <2>2. ASSUME ToBigint(i) \in Word PROVE ToUint(i) = ToBigint(i) % Base
    <3>1. ToUint(i) = ToBigint(i)
      BY <1>2 DEF ToUint
    <3>2. Wrap(ToBigint(i)) = ToBigint(i)
      BY <2>2, IntegerIs, WrapNear
    <3> QED  BY <3>1, <3>2 DEF Wrap
  <2> QED  BY <1>2, <2>1, <2>2
<1> QED  BY <1>1, <1>2, IntegerIs

-----------------------------------------------------------------------------
(***************************************************************************)
(* Vectors read as integers.                                               *)
(***************************************************************************)

\* A word becomes a machine integer or a big one.
LEMMA WordToInteger ==
  ASSUME NEW word \in Word
  PROVE  IsExact(IntegerFromRuint(word), word)
<1>1. MaxInt \in Int /\ MinInt \in Int /\ MinInt <= 0 /\ word \in Nat /\ MaxInt >= 0
  BY HalfIs, WordIs
<1>2. CASE word > MaxInt
  <2>1. <<word>> \in Data /\ ValueOf(<<word>>) = word
    BY <1>1, <1>2, SingleWord
  <2>2. IsExact(BigInt(<<word>>, 1), 1 * ValueOf(<<word>>))
    BY <2>1, BigIsExact
  <2> QED  BY <1>1, <1>2, <2>1, <2>2 DEF IntegerFromRuint
<1>3. CASE ~ word > MaxInt
  <2>1. word \in MinInt .. MaxInt
    BY <1>1, <1>3
  <2> QED  BY <1>3, <2>1, SmallIsExact DEF IntegerFromRuint
<1> QED  BY <1>2, <1>3

\* unsigned.
LEMMA UnsignedIs ==
  ASSUME NEW v, NEW size, NEW n, IsVector(v, size, n)
  PROVE  IsExact(Unsigned(v), n)
<1>1. v.kind \in {"small", "sparse", "generic"} /\ v.data \in Arrays /\ ValueOf(v.data) = n /\ n \in Nat
  BY VectorIs
<1>2. CASE v.kind = "generic"
  <2>1. IsExact(FromDataAndSign(v.data, 1), 1 * ValueOf(v.data))
    BY <1>1, FromDataAndSignIs
  <2>2. 1 * n = n
    BY <1>1
  <2> QED  BY <1>1, <1>2, <2>1, <2>2 DEF Unsigned
<1>3. CASE v.kind # "generic"
  <2>1. Val(v) = n /\ n \in Word
    BY <1>1, <1>3, VectorIs
  <2> QED  BY <1>3, <2>1, WordToInteger DEF Unsigned
<1> QED  BY <1>2, <1>3

\* The numbers of machine integers have the sign bit as all higher bits.
LEMMA MachineNumber ==
  ASSUME NEW n \in Int
  PROVE  /\ n \in MinInt .. MaxInt <=> Up(n, WordBits - 1) \in {0, -1}
         /\ n \in MinInt .. MaxInt => Intmask(Wrap(n)) = n
<1> DEFINE p == WordBits - 1
           h == Base \div 2
           q == Up(n, p)
           r == Low(n, p)
<1>1. p \in Nat /\ WordBits = p + 1 /\ WordBits \in Nat
  BY WordIs
<1>2. h \in Nat /\ Base = 2 * h /\ MaxInt = h - 1 /\ MinInt = -h /\ h >= 1
  BY HalfIs
<1> HIDE DEF p, h
<1>3. Pow2[p] = h
  <2>1. Pow2[p + 1] = 2 * Pow2[p] /\ Pow2[p] \in Nat
    BY <1>1, Pow2Unfold
  <2>2. Pow2[WordBits] = Base
    BY WordIs
  <2> QED  BY <1>1, <1>2, <2>1, <2>2
<1>4. q \in Int /\ r \in Nat /\ r < h /\ n = h * q + r
  BY <1>1, <1>3, Halves
<1> HIDE DEF q, r
<1>5. q = 0 => n \in MinInt .. MaxInt
  BY <1>2, <1>4
<1>6. q = -1 => n \in MinInt .. MaxInt
  BY <1>2, <1>4
<1>7. q >= 1 => h * q >= h
  <2>1. 1 \in Int /\ h \in Int /\ h >= 0 /\ h * 1 = h
    BY <1>2
  <2> QED  BY <1>4, <2>1, ProductMonotone
<1>8. q <= -2 => h * q <= -2 * h
  <2>1. -2 \in Int /\ h \in Int /\ h >= 0 /\ h * (-2) = -2 * h
    BY <1>2
  <2> QED  BY <1>4, <2>1, ProductMonotone
<1>9. h * q \in Int
  BY <1>2, <1>4
<1>10. n \in MinInt .. MaxInt => q \in {0, -1}
  <2>1. ~ q >= 1 \/ n > MaxInt
    BY <1>2, <1>4, <1>7, <1>9
  <2>2. ~ q <= -2 \/ n < MinInt
    BY <1>2, <1>4, <1>8, <1>9
  <2> QED  BY <1>2, <1>4, <2>1, <2>2
<1>11. ASSUME n \in MinInt .. MaxInt
       PROVE  Intmask(Wrap(n)) = n
  <2>1. CASE n >= 0
    <3>1. n \in Word /\ ~ n > MaxInt
      BY <1>2, <1>11, <2>1 DEF Word
    <3>2. Wrap(n) = n
      BY <3>1, WrapNear
    <3> QED  BY <3>1, <3>2 DEF Intmask
  <2>2. CASE n < 0
    <3>1. n + Base \in Word /\ n + Base > MaxInt /\ (n + Base) - Base = n
      BY <1>2, <1>11, <2>2 DEF Word
    <3>2. Wrap(n) = n + Base
      BY <3>1, WrapNear
    <3> QED  BY <3>1, <3>2 DEF Intmask
  <2> QED  BY <2>1, <2>2
<1> QED  BY <1>5, <1>6, <1>10, <1>11 DEF q, p

\* signed of a small vector.
LEMMA SmallSignedIs ==
  ASSUME NEW v, NEW size, NEW n, IsVector(v, size, n), v.kind = "small"
  PROVE  IsExact(Signed(v), SignedNumber(size, n))
<1> DEFINE m == Pow2[size - 1]
           s == SignedNumber(size, n)
<1>1. /\ size \in Nat \ {0} /\ size <= WordBits /\ v.size = size /\ n \in Nat /\ n < Pow2[size]
      /\ Val(v) = n /\ n \in Word /\ WordBits \in Nat /\ Base \in Nat
  BY VectorIs, WordIs
<1>2. /\ size - 1 \in Nat /\ m \in Nat /\ Pow2[size] = 2 * m /\ Pow2[size] \in Nat
      /\ BitOf(n, size - 1) \in {0, 1} /\ (n >= m <=> BitOf(n, size - 1) = 1) /\ s \in Int
  BY <1>1, TopBit
<1>3. s = IF n >= m THEN n - Pow2[size] ELSE n
  BY DEF SignedNumber
<1>4. Pow2[size] <= Base
  BY <1>1, WordIs, Pow2Monotone
<1>5. s \in MinInt .. MaxInt
  <2>1. MaxInt \in Int /\ MinInt \in Int /\ Base = 2 * (MaxInt + 1) /\ MinInt = -(MaxInt + 1)
    BY HalfIs
  <2> HIDE DEF m, s
  <2> QED  BY <1>1, <1>2, <1>3, <1>4, <2>1
<1>6. (n ^^ m) = IF BitOf(n, size - 1) = 1 THEN n - m ELSE n + m
  <2>1. size - 1 < WordBits
    BY <1>1
  <2> QED  BY <1>1, <1>2, <2>1, XorPower
<1>7. (n ^^ m) - m = s
  <2> HIDE DEF m, s
  <2> QED  BY <1>1, <1>2, <1>3, <1>6
<1>8. size = WordBits => Wrap(s) = n
  <2> SUFFICES ASSUME size = WordBits PROVE Wrap(s) = n
    OBVIOUS
  <2>1. Wrap(s) = Low(s, size)
    BY <1>2, WrapIsLow
  <2> QED  BY <1>1, <2>1, LowOfSigned
<1>9. Signed(v) = SmallInt(Intmask(IF size = WordBits THEN n ELSE Wrap((n ^^ m) - m)))
  BY <1>1 DEF Signed, Small
<1> HIDE DEF m
<1>10. Signed(v) = SmallInt(Intmask(Wrap(s)))
  <2>1. CASE size = WordBits
    BY <1>8, <1>9, <2>1
  <2>2. CASE size # WordBits
    BY <1>7, <1>9, <2>2
  <2> QED  BY <2>1, <2>2
<1>11. Intmask(Wrap(s)) = s
  BY <1>2, <1>5, MachineNumber
<1> QED  BY <1>5, <1>10, <1>11, SmallIsExact

\* A number with its highest bit turned over, less that bit, is the number in
\* two's complement.
LEMMA FlippedBit ==
  ASSUME NEW x \in Word, NEW p \in Nat, p < WordBits
  PROVE  (x ^^ Pow2[p]) = WordWithBit(x, p, BitOf(x, p) = 0)
<1> DEFINE bit == BitOf(x, p) = 0
           y == WordWithBit(x, p, bit)
           z == x ^^ Pow2[p]
<1>1. x \in Int /\ Pow2[p] \in Int /\ bit \in BOOLEAN
  BY PowerBits, WordIs
<1>2. z \in Word /\ \A k \in Nat : k < WordBits =>
        /\ BitOf(x, k) \in {0, 1}
        /\ BitOf(z, k) = IF BitOf(x, k) = BitOf(Pow2[p], k) THEN 0 ELSE 1
  BY <1>1, WordsBitwise
<1>3. y \in Word /\ \A k \in Nat : k < WordBits => BitOf(y, k) = IF k = p THEN Bit(bit) ELSE BitOf(x, k)
  <2> HIDE DEF bit
  <2> QED  BY <1>1, WordWithBitIs
<1> HIDE DEF y, z
<1>4. ASSUME NEW k \in Nat, k < WordBits
      PROVE  BitOf(z, k) = BitOf(y, k)
  <2>1. /\ BitOf(x, k) \in {0, 1}
        /\ BitOf(z, k) = IF BitOf(x, k) = BitOf(Pow2[p], k) THEN 0 ELSE 1
        /\ BitOf(y, k) = IF k = p THEN Bit(bit) ELSE BitOf(x, k)
    BY <1>2, <1>3, <1>4
  <2>2. BitOf(Pow2[p], k) = IF k = p THEN 1 ELSE 0
    BY <1>4, PowerBits
  <2>3. CASE k = p
    BY <2>1, <2>2, <2>3 DEF bit, Bit
  <2>4. CASE k # p
    BY <2>1, <2>2, <2>4
  <2> QED  BY <2>3, <2>4
<1>5. z = y
  BY <1>2, <1>3, <1>4, SameWord
<1> QED  BY <1>5 DEF y, z

LEMMA PatchedOne ==
  ASSUME NEW n \in Int, NEW p \in Nat, NEW bit \in {0, 1}
  PROVE  Patched(n, p, 1, bit) = n + (bit - BitOf(n, p)) * Pow2[p]
BY LowBit DEF Patched

\* The arrays that signed() subtracts from each other
LEMMA TopWordFlipped ==
  ASSUME NEW v, NEW size, NEW n, IsVector(v, size, n), v.kind = "generic"
  PROVE  LET top == Len(v.data)
             highest == Pow2[BitIndex(size - 1)]
             a == [v.data EXCEPT ![top] = @ ^^ highest]
             b == [k \in 1 .. top |-> IF k = top THEN highest ELSE 0]
         IN  /\ a \in Arrays /\ b \in Arrays /\ Len(a) = Len(b)
             /\ ValueOf(a) - ValueOf(b) = SignedNumber(size, n)
<1> DEFINE top == Len(v.data)
           p == size - 1
           q == BitIndex(size - 1)
           highest == Pow2[q]
           a == [v.data EXCEPT ![top] = @ ^^ highest]
           b == [k \in 1 .. top |-> IF k = top THEN highest ELSE 0]
           bit == BitOf(n, p) = 0
           u == UpdateBit(v, p, bit)
           zero == Generic(size, WordsOf(0, DataSize(size)))
           w == UpdateBit(zero, p, TRUE)
<1>1. /\ size \in Nat \ {0} /\ size > WordBits /\ v.size = size /\ n \in Nat /\ n < Pow2[size]
      /\ v.data = WordsOf(n, top) /\ top = DataSize(size) /\ top \in Nat /\ top >= 2
  BY GenericIs, VectorIs
<1>2. /\ p \in 0 .. size - 1 /\ p \in Nat /\ WordIndex(p) + 1 = top /\ q \in Nat /\ q < WordBits
      /\ top \in 1 .. top /\ First(top) \in Nat /\ p = First(top) + q
  <2>1. p \in 0 .. size - 1 /\ p \in Nat /\ n \in Int
    BY <1>1
  <2>2. WordIndex(p) + 1 = DataSize(size)
    BY <1>1, DataSizeIs
  <2> HIDE DEF p, top
  <2>3. /\ BitIndex(p) \in Nat /\ BitIndex(p) < WordBits
        /\ First(WordIndex(p) + 1) \in Nat /\ p = First(WordIndex(p) + 1) + BitIndex(p)
    BY <1>1, <2>1, BitInWords
  <2> QED  BY <1>1, <2>1, <2>2, <2>3 DEF p
<1> HIDE DEF top, p, q
<1>3. /\ Pow2[p] \in Nat /\ Pow2[size] = 2 * Pow2[p] /\ Pow2[size] \in Nat
      /\ BitOf(n, p) \in {0, 1} /\ (n >= Pow2[p] <=> BitOf(n, p) = 1)
  BY <1>1, TopBit DEF p
<1>4. /\ v.data \in [1 .. top -> Word] /\ DOMAIN v.data = 1 .. top
      /\ v.data[top] = WordAt(n, First(top)) /\ v.data[top] \in Word /\ n \in Int
  <2>1. n \in Int /\ top \in Nat
    BY <1>1
  <2>2. /\ WordsOf(n, top) \in [1 .. top -> Word] /\ DOMAIN WordsOf(n, top) = 1 .. top
        /\ \A k \in 1 .. top : WordsOf(n, top)[k] = WordAt(n, First(k)) /\ WordsOf(n, top)[k] \in Word
    BY <2>1, WordsOfIs
  <2> QED  BY <1>1, <1>2, <2>1, <2>2
<1>5. u.data = a
  <2>1. BitOf(v.data[top], q) = BitOf(n, p)
    BY <1>1, <1>2, <1>4, WordAtIs
  <2>2. (v.data[top] ^^ Pow2[q]) = WordWithBit(v.data[top], q, bit)
    BY <1>2, <1>4, <2>1, FlippedBit
  <2>3. v.kind = "generic"
    OBVIOUS
  <2>4. u = [v EXCEPT !.data[top] = WordWithBit(@, q, bit)]
    <3>1. u = [v EXCEPT !.data[WordIndex(p) + 1] = WordWithBit(@, BitIndex(p), bit)]
      BY <2>3 DEF UpdateBit
    <3> QED  BY <1>2, <3>1 DEF q, p
  <2>5. v = Generic(size, v.data)
    BY <1>1, GenericIs
  <2> HIDE DEF bit
  <2>6. u.data = [v.data EXCEPT ![top] = WordWithBit(@, q, bit)]
    BY <2>4, <2>5 DEF Generic
  <2> QED  BY <2>2, <2>6
<1>6. w.data = b
  <2>1. /\ WordsOf(0, top) \in [1 .. top -> Word] /\ DOMAIN WordsOf(0, top) = 1 .. top
        /\ \A k \in 1 .. top : WordsOf(0, top)[k] = WordAt(0, First(k)) /\ First(k) \in Nat
    <3> DEFINE z == 0
    <3>1. z \in Int
      OBVIOUS
    <3> HIDE DEF z
    <3>2. /\ WordsOf(z, top) \in [1 .. top -> Word] /\ DOMAIN WordsOf(z, top) = 1 .. top
          /\ \A k \in 1 .. top : WordsOf(z, top)[k] = WordAt(z, First(k)) /\ First(k) \in Nat
      BY <1>1, <3>1, WordsOfIs
    <3> QED  BY <3>2 DEF z
  <2>2. ASSUME NEW k \in 1 .. top PROVE WordsOf(0, top)[k] = 0
    <3>1. First(k) \in Nat /\ WordsOf(0, top)[k] = WordAt(0, First(k))
      BY <2>1
    <3>2. 0 \in Word /\ \A j \in Nat : BitOf(0, j) = 0
      BY WordIs, BitsOfZero
    <3> DEFINE f == First(k)
               z == 0
    <3>3. f \in Nat /\ z \in Word /\ z \in Int /\ \A j \in Nat : BitOf(z, j) = 0
      BY <3>1, <3>2
    <3> HIDE DEF f, z
    <3>4. \A j \in Nat : j < WordBits => BitOf(z, j) = BitOf(z, f + j)
      BY <3>3
    <3>5. z = WordAt(z, f)
      BY <3>3, <3>4, IsWordAt
    <3> QED  BY <3>1, <3>5 DEF f, z
  <2>3. WordWithBit(0, q, TRUE) = Pow2[q]
    <3>1. 0 \in Word /\ BitOf(0, q) = 0
      BY <1>2, WordIs, BitsOfZero
    <3>3. (0 ^^ Pow2[q]) = 0 + Pow2[q]
      BY <1>2, <3>1, XorPower
    <3>4. Pow2[q] \in Nat
      BY <1>2, Pow2Unfold
    <3>5. 0 + Pow2[q] = Pow2[q]
      BY <3>4
    <3>6. BitOf(0, q) = 0 => (BitOf(0, q) = 0) = TRUE
      OBVIOUS
    <3>7. (0 ^^ Pow2[q]) = WordWithBit(0, q, BitOf(0, q) = 0)
      BY <1>2, <3>1, FlippedBit
    <3> QED  BY <3>1, <3>3, <3>5, <3>6, <3>7
  <2>4. zero.kind = "generic" /\ zero.data = WordsOf(0, top) /\ zero = Generic(size, zero.data)
    BY <1>1 DEF Generic
  <2> HIDE DEF zero
  <2>5. w = [zero EXCEPT !.data[top] = WordWithBit(@, q, TRUE)]
    <3>1. w = [zero EXCEPT !.data[WordIndex(p) + 1] = WordWithBit(@, BitIndex(p), TRUE)]
      BY <2>4 DEF UpdateBit
    <3> QED  BY <1>2, <3>1 DEF q, p
  <2>6. w.data = [zero.data EXCEPT ![top] = WordWithBit(@, q, TRUE)]
    BY <2>4, <2>5 DEF Generic
  <2>7. w.data = [k \in 1 .. top |-> IF k = top THEN Pow2[q] ELSE 0]
    <3> DEFINE c == WordsOf(0, top)
               y == Pow2[q]
    <3>1. DOMAIN c = 1 .. top /\ c[top] = 0 /\ c \in [1 .. top -> Word]
      BY <1>2, <2>1, <2>2
    <3>2. w.data = [c EXCEPT ![top] = y]
      BY <2>3, <2>4, <2>6, <3>1
    <3>3. \A k \in 1 .. top : c[k] = 0
      BY <2>2
    <3> HIDE DEF c, y, w
    <3>4. [c EXCEPT ![top] = y] = [k \in 1 .. top |-> IF k = top THEN y ELSE 0]
      BY <1>2, <3>1, <3>3
    <3> QED  BY <3>2, <3>4 DEF y
  <2> QED  BY <2>7
<1>7. IsVector(u, size, Patched(n, p, 1, Bit(bit))) /\ Bit(bit) = 1 - BitOf(n, p)
  <2>1. bit \in BOOLEAN /\ Bit(bit) = 1 - BitOf(n, p)
    BY <1>3 DEF Bit
  <2> HIDE DEF bit
  <2> QED  BY <1>2, <2>1, UpdateBitIs
<1>8. IsVector(w, size, Patched(0, p, 1, 1))
  <2>1. 0 \in Nat /\ 0 < Pow2[size]
    BY <1>1, Pow2Unfold
  <2>2. IsVector(zero, size, 0)
    BY <1>1, <2>1, IsGeneric
  <2>3. TRUE \in BOOLEAN /\ Bit(TRUE) = 1
    BY DEF Bit
  <2> HIDE DEF zero
  <2>4. IsVector(w, size, Patched(0, p, 1, Bit(TRUE)))
    BY <1>2, <2>2, <2>3, UpdateBitIs
  <2> QED  BY <2>3, <2>4
<1>9. ValueOf(a) = n + (1 - BitOf(n, p) - BitOf(n, p)) * Pow2[p] /\ a \in Arrays
  <2>1. u.data \in Arrays /\ ValueOf(u.data) = Patched(n, p, 1, Bit(bit))
    BY <1>7, VectorIs
  <2>2. 1 - BitOf(n, p) \in {0, 1} /\ n \in Int
    BY <1>3, <1>4
  <2>3. Patched(n, p, 1, 1 - BitOf(n, p)) = n + (1 - BitOf(n, p) - BitOf(n, p)) * Pow2[p]
    BY <1>2, <2>2, PatchedOne
  <2> QED  BY <1>5, <1>7, <2>1, <2>3
<1>10. ValueOf(b) = Pow2[p] /\ b \in Arrays
  <2>1. w.data \in Arrays /\ ValueOf(w.data) = Patched(0, p, 1, 1)
    BY <1>8, VectorIs
  <2>2. Patched(0, p, 1, 1) = 0 + (1 - BitOf(0, p)) * Pow2[p]
    BY <1>2, PatchedOne
  <2>3. BitOf(0, p) = 0
    BY <1>2, BitsOfZero
  <2>4. 0 + (1 - 0) * Pow2[p] = Pow2[p]
    BY <1>3
  <2> QED  BY <1>6, <2>1, <2>2, <2>3, <2>4
<1>11. Len(a) = Len(b)
  <2>1. DOMAIN a = 1 .. top /\ DOMAIN b = 1 .. top
    BY <1>4
  <2>2. Len(a) \in Nat /\ Len(b) \in Nat /\ DOMAIN a = 1 .. Len(a) /\ DOMAIN b = 1 .. Len(b)
    BY <1>9, <1>10 DEF Arrays
  <2> HIDE DEF a, b
  <2> QED  BY <1>1, <2>1, <2>2
<1> HIDE DEF a, b
<1>12. ValueOf(a) - ValueOf(b) = SignedNumber(size, n)
  <2>1. SignedNumber(size, n) = IF n >= Pow2[p] THEN n - Pow2[size] ELSE n
    BY DEF SignedNumber, p
  <2>2. CASE BitOf(n, p) = 1
    <3>1. (1 - BitOf(n, p) - BitOf(n, p)) * Pow2[p] = -Pow2[p]
      BY <1>3, <2>2
    <3> QED  BY <1>3, <1>4, <1>9, <1>10, <2>1, <2>2, <3>1
  <2>3. CASE BitOf(n, p) = 0
    <3>1. (1 - BitOf(n, p) - BitOf(n, p)) * Pow2[p] = Pow2[p]
      BY <1>3, <2>3
    <3> QED  BY <1>3, <1>4, <1>9, <1>10, <2>1, <2>3, <3>1
  <2> QED  BY <1>3, <2>2, <2>3
<1> QED  BY <1>9, <1>10, <1>11, <1>12 DEF a, b, top, p, q

\* signed.
LEMMA SignedVectorIs ==
  ASSUME NEW v, NEW size, NEW n, IsVector(v, size, n)
  PROVE  IsExact(Signed(v), SignedNumber(size, n))
<1>1. v.kind \in {"small", "sparse", "generic"} /\ n \in Nat /\ n < Pow2[size] /\ size \in Nat \ {0} /\ v.size = size
  BY VectorIs
<1>2. CASE v.kind = "sparse"
  <2>1. n \in Word /\ Val(v) = n /\ size > WordBits
    <3>1. v.kind = "small" <=> size <= WordBits
      BY VectorIs
    <3>2. WordBits \in Nat
      BY WordIs
    <3>3. Val(v) = n /\ n \in Word
      BY <1>2, VectorIs
    <3> QED  BY <1>1, <1>2, <3>1, <3>2, <3>3
  <2>2. n < Pow2[size - 1]
    <3>1. size - 1 \in Nat /\ WordBits \in Nat /\ WordBits <= size - 1
      BY <1>1, <2>1, WordIs
    <3>2. Pow2[WordBits] <= Pow2[size - 1] /\ Pow2[WordBits] \in Nat /\ Pow2[size - 1] \in Nat
      BY <3>1, Pow2Monotone
    <3> QED  BY <2>1, <3>2, WordIs
  <2>3. SignedNumber(size, n) = n
    <3>1. Pow2[size - 1] \in Nat
      BY <1>1, TopBit
    <3> QED  BY <1>1, <2>2, <3>1 DEF SignedNumber
  <2> QED  BY <1>2, <2>1, <2>3, WordToInteger DEF Signed
<1>3. CASE v.kind = "generic"
  <2> DEFINE top == Len(v.data)
             highest == Pow2[BitIndex(size - 1)]
             a == [v.data EXCEPT ![top] = @ ^^ highest]
             b == [k \in 1 .. top |-> IF k = top THEN highest ELSE 0]
             d == DataSub(a, b)
             s == SignedNumber(size, n)
  <2>1. /\ a \in Arrays /\ b \in Arrays /\ Len(a) = Len(b)
        /\ ValueOf(a) - ValueOf(b) = s
    BY <1>3, TopWordFlipped
  <2>2. s \in Int
    BY <1>1, TopBit
  <2>3. Signed(v) = FromDataAndSign(d.digits, d.sign)
    BY <1>1, <1>3 DEF Signed
  <2> HIDE DEF a, b, d, s
  <2>4. IsDifference(d, s)
    BY <2>1, SameLengthDifference DEF d
  <2>5. IsExact(FromDataAndSign(d.digits, d.sign * 1), s * 1)
    BY <2>2, <2>4, DifferenceIs
  <2>6. d.sign * 1 = d.sign /\ s * 1 = s
    BY <2>2, <2>4 DEF IsDifference
  <2> QED  BY <2>3, <2>5, <2>6 DEF s
<1>4. CASE v.kind = "small"
  BY <1>4, SmallSignedIs
<1> QED  BY <1>1, <1>2, <1>3, <1>4

-----------------------------------------------------------------------------
(***************************************************************************)
(* Integers from and to rbigints, and shifted to the right.                *)
(***************************************************************************)

LEMMA LowOfTerm ==
  ASSUME NEW n \in Int, NEW m \in Int, NEW i \in Nat, NEW j \in Nat, i <= j
  PROVE  /\ Low(m, j) \in Int
         /\ Low(n + Low(m, j), i) = Low(n + m, i)
         /\ Low(n - Low(m, j), i) = Low(n - m, i)
<1> DEFINE rest == j - i
           q == Up(m, j)
           r == Low(m, j)
           e == Pow2[rest] * q
<1>1. rest \in Nat /\ j = i + rest
  OBVIOUS
<1>2. q \in Int /\ r \in Int /\ m = Pow2[j] * q + r /\ Pow2[j] \in Nat
  <2>1. /\ Pow2[j] \in Nat /\ Up(m, j) \in Int /\ Low(m, j) \in Nat
        /\ m = Pow2[j] * Up(m, j) + Low(m, j)
    BY Halves
  <2> QED  BY <2>1
<1> HIDE DEF rest, q, r
<1>3. Pow2[i] \in Nat /\ Pow2[rest] \in Nat
  BY <1>1, Pow2Unfold
<1>4. Pow2[i + rest] = Pow2[i] * Pow2[rest]
  BY <1>1, Pow2Sum
<1>5. Pow2[j] * q = Pow2[i] * e /\ e \in Int
  <2>1. Pow2[i] * (Pow2[rest] * q) = (Pow2[i] * Pow2[rest]) * q /\ Pow2[rest] * q \in Int
    BY <1>2, <1>3, Products
  <2> QED  BY <1>1, <1>4, <2>1
<1> HIDE DEF e
<1>6. n + r \in Int /\ n - r \in Int /\ -e \in Int
  BY <1>2, <1>5
<1>7. Low((n + r) + Pow2[i] * e, i) = Low(n + r, i)
  BY <1>5, <1>6, HalvesOfSum
<1>8. Low((n - r) + Pow2[i] * (-e), i) = Low(n - r, i)
  BY <1>5, <1>6, HalvesOfSum
<1>9. Pow2[i] * e \in Int /\ Pow2[i] * (-e) = -(Pow2[i] * e)
  BY <1>3, <1>5
<1>10. (n + r) + Pow2[i] * e = n + m
  BY <1>2, <1>5, <1>9
<1>11. (n - r) + Pow2[i] * (-e) = n - m
  BY <1>2, <1>5, <1>9
<1> QED  BY <1>2, <1>7, <1>8, <1>10, <1>11 DEF r

\* how many words a number needs
IsLength(n, k) ==
  k \in 0 .. n /\ n < Pow2[WordBits * k] /\ (k = 0 \/ n >= Pow2[WordBits * (k - 1)])

\* Every number has a length in words.
LEMMA LengthExists ==
  ASSUME NEW n \in Nat
  PROVE  \E k \in 0 .. n : IsLength(n, k)
<1> DEFINE S == {k \in Nat : n < Pow2[WordBits * k]}
<1>1. WordBits \in Nat /\ WordBits >= 1
  BY WordIs
<1>2. ASSUME NEW k \in Nat PROVE WordBits * k \in Nat
  BY <1>1, <1>2
<1>3. n \in S
  <2> DEFINE w == WordBits * n
  <2>1. w \in Nat /\ n <= w
    <3>1. 1 * n <= WordBits * n
      BY <1>1, ProductMonotone
    <3> QED  BY <1>2, <3>1
  <2> HIDE DEF w
  <2>2. n < Pow2[n]
    BY Pow2Exceeds
  <2>3. Pow2[n] <= Pow2[w] /\ Pow2[n] \in Nat /\ Pow2[w] \in Nat
    BY <2>1, Pow2Monotone, Pow2Unfold
  <2>4. n < Pow2[w]
    BY <2>2, <2>3
  <2> QED  BY <2>4 DEF w
<1>4. PICK k \in S : \A j \in S : k <= j
  <2>1. S \subseteq Nat /\ S # {}
    BY <1>3
  <2> HIDE DEF S
  <2> QED  BY <2>1, LeastNatural
<1>5. k \in Nat /\ n < Pow2[WordBits * k] /\ k <= n
  BY <1>3, <1>4
<1>6. k = 0 \/ n >= Pow2[WordBits * (k - 1)]
  <2> SUFFICES ASSUME k # 0 PROVE n >= Pow2[WordBits * (k - 1)]
    OBVIOUS
  <2> DEFINE j == k - 1
  <2>1. j \in Nat /\ ~ k <= j
    BY <1>5
  <2>2. j \notin S
    BY <1>4, <2>1
  <2> HIDE DEF j
  <2>3. ~ n < Pow2[WordBits * j]
    BY <2>1, <2>2
  <2> DEFINE w == WordBits * j
  <2>4. w \in Nat
    BY <1>2, <2>1
  <2> HIDE DEF w
  <2>5. Pow2[w] \in Nat
    BY <2>4, Pow2Unfold
  <2>6. n >= Pow2[w]
    BY <2>3, <2>5 DEF w
  <2> QED  BY <2>6 DEF w, j
<1>7. k \in 0 .. n
  BY <1>5
<1> QED  BY <1>5, <1>6, <1>7 DEF IsLength

\* from_bigint of an integer: the words up to the highest that is not zero.
LEMMA BigintIs ==
  ASSUME NEW n \in Int
  PROVE  IsExact(IntegerFromBigint(n), n)
<1> DEFINE m == Magnitude(n)
           size == CHOOSE k \in 0 .. m :
                     m < Pow2[WordBits * k] /\ (k = 0 \/ m >= Pow2[WordBits * (k - 1)])
           data == [k \in 1 .. size |-> Wrap(m \div Pow2[WordBits * (k - 1)])]
<1>1. m \in Nat /\ n = Sign(n) * m /\ Sign(n) \in {-1, 0, 1} /\ (Sign(n) = 0 => m = 0)
  BY DEF Magnitude, Sign
<1>2. IntegerFromBigint(n) = FromDataAndSign(data, Sign(n))
  BY DEF IntegerFromBigint
<1> HIDE DEF m
<1>3. IsLength(m, size)
  <2>1. \E k \in 0 .. m : m < Pow2[WordBits * k] /\ (k = 0 \/ m >= Pow2[WordBits * (k - 1)])
    BY <1>1, LengthExists DEF IsLength
  <2> QED  BY <2>1 DEF IsLength
<1> HIDE DEF size
<1>4. size \in Nat /\ size <= m /\ m < Pow2[WordBits * size]
  BY <1>1, <1>3 DEF IsLength
<1>5. data = WordsOf(m, size)
  <2>1. ASSUME NEW k \in 1 .. size
        PROVE  Wrap(m \div Pow2[WordBits * (k - 1)]) = WordAt(m, First(k))
    <3>1. First(k) \in Nat /\ m \in Int
      BY <1>1, <1>4, WordsOfIs
    <3>2. Up(m, First(k)) \in Int
      BY <3>1, Halves
    <3>3. Wrap(Up(m, First(k))) = Low(Up(m, First(k)), WordBits)
      BY <3>2, WrapIsLow
    <3> QED  BY <3>3 DEF WordAt, Up, First
  <2> QED  BY <2>1 DEF WordsOf
<1> HIDE DEF data
<1>6. data \in Arrays /\ ValueOf(data) = m
  <2>1. m \in Int
    BY <1>1
  <2>2. WordsOf(m, size) \in Arrays
    BY <1>4, <2>1, WordsOfIs
  <2>3. WordBits * size \in Nat /\ ValueOf(WordsOf(m, size)) = Low(m, WordBits * size)
    BY <1>4, <2>1, ValueOfWords
  <2> DEFINE w == WordBits * size
  <2>4. w \in Nat /\ m < Pow2[w] /\ ValueOf(WordsOf(m, size)) = Low(m, w)
    BY <1>4, <2>3
  <2> HIDE DEF w
  <2>5. Low(m, w) = m
    BY <1>1, <2>4, FewBits
  <2> QED  BY <1>5, <2>2, <2>4, <2>5
<1>7. Sign(n) = 0 => data = <<>>
  <2> SUFFICES ASSUME Sign(n) = 0 PROVE data = <<>>
    OBVIOUS
  <2>1. size = 0
    BY <1>1, <1>4
  <2> QED  BY <2>1 DEF data
<1>8. IsExact(FromDataAndSign(data, Sign(n)), Sign(n) * ValueOf(data))
  BY <1>1, <1>6, <1>7, FromDataAndSignIs
<1> QED  BY <1>1, <1>2, <1>6, <1>8

\* Machine integers divided by powers of two are machine integers.
LEMMA QuotientOfMachine ==
  ASSUME NEW n \in MinInt .. MaxInt, NEW i \in Nat
  PROVE  n \div Pow2[i] \in MinInt .. MaxInt /\ n \div Pow2[i] \in Int
<1>1. n \in Int /\ MinInt \in Int /\ MaxInt \in Int /\ MinInt <= n /\ n <= MaxInt /\ MinInt <= 0 /\ MaxInt >= 0
  BY HalfIs
<1> DEFINE d == Pow2[i]
           q == n \div d
<1>2. d \in Nat /\ 1 <= d /\ d \in Int
  BY Pow2Unfold
<1> HIDE DEF d
<1>3. q \in Int
  BY <1>1, <1>2, QuotientAndRemainder
<1>4. n \div 1 = n
  BY <1>1, NoBits, Pow2Unfold DEF Up
<1>5. 1 \in Int /\ 1 <= 1
  OBVIOUS
<1>6. (n >= 0 => q <= n \div 1) /\ (n < 0 => n \div 1 <= q)
  BY <1>1, <1>2, <1>5, QuotientOneWay
<1>7. 0 \div d = 0
  <2>1. 0 \in 0 .. d - 1
    BY <1>2
  <2> QED  BY <1>2, <2>1, SmallQuotient
<1>8. 0 \in Int
  OBVIOUS
<1>9. n >= 0 => 0 \div d <= q
  BY <1>1, <1>2, <1>8, QuotientMonotone
<1>10. n < 0 => q <= 0 \div d
  BY <1>1, <1>2, <1>8, QuotientMonotone
<1> HIDE DEF q
<1>11. q \in MinInt .. MaxInt
  BY <1>1, <1>3, <1>4, <1>6, <1>7, <1>9, <1>10
<1> QED  BY <1>3, <1>11 DEF q, d

\* rshift of an integer: rounds down, also below zero.
LEMMA RshiftIntegerIs ==
  ASSUME NEW i \in SailInteger, NEW n \in Nat
  PROVE  IsExact(RshiftInteger(i, n), Up(ToBigint(i), n))
<1> DEFINE N == ToBigint(i)
<1>1. N \in Int /\ i.kind \in {"int", "big"}
  BY IntegerIs
<1>2. CASE i.kind = "int"
  <2>1. i.val \in MinInt .. MaxInt /\ N = i.val
    BY <1>2, IntegerIs
  <2>2. i.val \div Pow2[n] \in MinInt .. MaxInt
    BY <2>1, QuotientOfMachine
  <2>3. RshiftInteger(i, n) = SmallInt(i.val \div Pow2[n])
    BY <1>2 DEF RshiftInteger
  <2> HIDE DEF N
  <2> QED  BY <2>1, <2>2, <2>3, SmallIsExact DEF Up, N
<1>3. CASE i.kind = "big" /\ n = 0
  <2>1. RshiftInteger(i, n) = i
    BY <1>3 DEF RshiftInteger
  <2>2. Up(N, 0) = N
    BY <1>1, NoBits
  <2> QED  BY <1>3, <2>1, <2>2 DEF IsExact
<1>4. CASE i.kind = "big" /\ n # 0 /\ i.sign < 0
  <2>1. RshiftInteger(i, n) = IntegerFromBigint(Up(N, n))
    <3>1. i.sign \in {-1, 1}
      BY <1>4, IntegerIs
    <3>2. ~ i.sign > 0
      BY <1>4, <3>1
    <3> QED  BY <1>4, <3>2 DEF RshiftInteger, Up
  <2>2. Up(N, n) \in Int
    BY <1>1, Halves
  <2> QED  BY <2>1, <2>2, BigintIs
<1>5. CASE i.kind = "big" /\ n # 0 /\ ~ i.sign < 0
  <2> DEFINE d == i.data
             len == Len(d)
             size == len - WordIndex(n)
             words == WordIndex(n)
             bits == BitIndex(n)
  <2>1. d \in Data /\ i.sign = 1 /\ N = ValueOf(d) /\ N \in Nat
    <3>1. d \in Data /\ i.sign \in {-1, 1} /\ N = i.sign * ValueOf(d) /\ ValueOf(d) \in Nat
      BY <1>5, IntegerIs
    <3> HIDE DEF d, N
    <3> QED  BY <1>5, <3>1
  <2>2. /\ d \in Arrays /\ len \in Nat /\ len >= 1
        /\ d = WordsOf(N, len) /\ N < Pow2[WordBits * len]
    BY <2>1, DataIs, ArraysAreWords
  <2>3. /\ words \in Nat /\ bits \in Nat /\ n = WordBits * words + bits /\ WordBits * words \in Nat
        /\ WordBits \in Nat /\ WordBits * len \in Nat
    <3>1. WordBits \in Nat
      BY WordIs
    <3> HIDE DEF len
    <3>2. WordBits * len \in Nat
      BY <2>2, <3>1
    <3> QED  BY <3>1, <3>2, IndexIs
  <2>4. RshiftInteger(i, n) =
          IF size <= 0 THEN IntZero ELSE FromDataAndSign(WordsFrom(d, n, size), 1)
    <3>1. i.sign > 0
      BY <2>1
    <3> QED  BY <1>5, <3>1 DEF RshiftInteger
  <2> HIDE DEF d, len, words, bits, N
  <2>5. size \in Int /\ size = len - words
    BY <2>2, <2>3 DEF words
  <2> HIDE DEF size
  <2>6. CASE size <= 0
    <3>1. WordBits * len <= n
      <4>1. len \in Int /\ words \in Int /\ WordBits \in Int /\ WordBits >= 0 /\ len <= words
        BY <2>2, <2>3, <2>5, <2>6
      <4>2. WordBits * len <= WordBits * words
        BY <4>1, ProductMonotone
      <4> QED  BY <2>3, <4>2
    <3> DEFINE w == WordBits * len
    <3>2. w \in Nat /\ N < Pow2[w] /\ n >= w
      BY <2>2, <2>3, <3>1
    <3> HIDE DEF w
    <3>3. Up(N, n) = 0
      BY <2>1, <3>2, UpIs
    <3>4. 0 \in MinInt .. MaxInt
      BY HalfIs
    <3>5. RshiftInteger(i, n) = SmallInt(0)
      BY <2>4, <2>6 DEF IntZero
    <3> QED  BY <3>3, <3>4, <3>5, SmallIsExact DEF N
  <2>7. CASE ~ size <= 0
    <3>1. size \in Nat /\ len = words + size
      BY <2>2, <2>3, <2>5, <2>7
    <3> DEFINE x == Up(N, n)
               w == WordBits * size
               lower == WordBits * words
    <3>2. WordsFrom(WordsOf(N, len), n, size) = WordsOf(x, size) /\ x \in Nat
      BY <2>1, <2>2, <3>1, WordsFromIs
    <3>3. w \in Nat /\ lower \in Nat /\ WordBits * len = lower + w
      <4>1. w \in Nat
        BY <2>3, <3>1
      <4>2. WordBits * (words + size) = WordBits * words + WordBits * size
        BY <2>3, <3>1, Products
      <4> QED  BY <2>3, <3>1, <4>1, <4>2
    <3>4. n = lower + bits
      BY <2>3
    <3> HIDE DEF w, lower, x
    <3>5. N < Pow2[lower + w]
      BY <2>2, <3>3
    <3>6. Up(N, lower) \in Nat /\ Up(N, lower) < Pow2[w]
      BY <2>1, <3>3, <3>5, FewerBits
    <3>7. x = Up(Up(N, lower), bits)
      <4>1. N \in Int
        BY <2>1
      <4>2. Up(Up(N, lower), bits) = Up(N, lower + bits)
        BY <2>3, <3>3, <4>1, HalvesOfHalves
      <4> QED  BY <3>4, <4>2 DEF x
    <3>8. x < Pow2[w]
      <4>1. Up(Up(N, lower), bits) <= Up(N, lower)
        BY <2>3, <3>3, <3>6, UpIs
      <4>2. Pow2[w] \in Nat
        BY <3>3, Pow2Unfold
      <4> QED  BY <3>2, <3>6, <3>7, <4>1, <4>2
    <3>9. Low(x, w) = x
      BY <3>2, <3>3, <3>8, FewBits
    <3>10. WordsOf(x, size) \in Arrays /\ ValueOf(WordsOf(x, size)) = x
      <4>1. x \in Int
        BY <3>2
      <4>2. WordsOf(x, size) \in Arrays
        BY <3>1, <4>1, WordsOfIs
      <4>3. ValueOf(WordsOf(x, size)) = Low(x, WordBits * size)
        BY <3>1, <4>1, ValueOfWords
      <4> QED  BY <3>9, <4>2, <4>3 DEF w
    <3>11. IsExact(FromDataAndSign(WordsOf(x, size), 1), 1 * ValueOf(WordsOf(x, size)))
      BY <3>10, FromDataAndSignIs
    <3>12. RshiftInteger(i, n) = FromDataAndSign(WordsOf(x, size), 1)
      BY <2>2, <2>4, <2>7, <3>2
    <3>13. 1 * x = x
      BY <3>2
    <3> QED  BY <3>10, <3>11, <3>12, <3>13 DEF x, N
  <2> QED  BY <2>6, <2>7
<1> QED  BY <1>1, <1>2, <1>3, <1>4, <1>5

-----------------------------------------------------------------------------
(***************************************************************************)
(* Bits of integers.                                                       *)
(***************************************************************************)

\* The least bits of a wrapped number are its own.
LEMMA LowOfWrap ==
  ASSUME NEW n \in Int, NEW i \in Nat, i <= WordBits
  PROVE  /\ RuintMask(i, Wrap(n)) = Low(n, i) /\ RuintMask(i, n) = Low(n, i)
         /\ Wrap(n) \in Int
<1>1. Wrap(n) = Low(n, WordBits) /\ Wrap(n) \in Int /\ WordBits \in Nat
  BY WrapIsLow, WordIs
<1>2. Low(Low(n, WordBits), i) = Low(n, i)
  BY <1>1, LowOfLow
<1> QED  BY <1>1, <1>2 DEF RuintMask, Low

\* A word of the digits of a positive integer.
LEMMA SliceUp ==
  ASSUME NEW j \in SailInteger, ToBigint(j) >= 0 \/ j.kind = "int",
         NEW length \in Nat, length <= WordBits, NEW start \in Nat
  PROVE  (IF j.kind = "int" THEN RuintMask(length, Wrap(j.val \div Pow2[start]))
                            ELSE SliceWordUp(j.data, length, start))
           = Low(Up(ToBigint(j), start), length)
<1> DEFINE N == ToBigint(j)
<1>1. CASE j.kind = "int"
  <2>1. N = j.val /\ N \in Int
    BY <1>1, IntegerIs
  <2> HIDE DEF N
  <2>2. Up(N, start) \in Int
    BY <2>1, Halves
  <2>3. RuintMask(length, Wrap(Up(N, start))) = Low(Up(N, start), length)
    BY <2>2, LowOfWrap
  <2> QED  BY <1>1, <2>1, <2>3 DEF Up, N
<1>2. CASE j.kind # "int"
  <2> DEFINE d == j.data
             len == Len(d)
             words == WordIndex(start)
  <2>1. d \in Data /\ N = ValueOf(d) /\ N \in Nat /\ N \in Int
    <3>1. /\ j.kind = "big" /\ d \in Data /\ j.sign \in {-1, 1} /\ N = j.sign * ValueOf(d)
          /\ ValueOf(d) \in Nat /\ ValueOf(d) >= 1 /\ N >= 0
      BY <1>2, IntegerIs
    <3> HIDE DEF d, N
    <3> QED  BY <3>1
  <2>2. d \in Arrays /\ len \in Nat /\ d = WordsOf(N, len) /\ N < Pow2[WordBits * len]
    BY <2>1, DataIs, ArraysAreWords
  <2>3. /\ words \in Nat /\ start = WordBits * words + BitIndex(start) /\ WordBits * words \in Nat
        /\ BitIndex(start) \in Nat
    BY IndexIs
  <2>4. WordBits \in Nat /\ WordBits * len \in Nat
    <3>1. WordBits \in Nat
      BY WordIs
    <3> HIDE DEF len
    <3> QED  BY <2>2, <3>1
  <2>5. SliceWordUp(d, length, start) =
          IF words >= len THEN 0 ELSE RuintMask(length, WordsFrom(d, start, 1)[1])
    BY DEF SliceWordUp
  <2> HIDE DEF d, len, words, N
  <2>6. CASE words >= len
    <3>1. WordBits * len <= WordBits * words
      <4>1. len \in Int /\ words \in Int /\ WordBits \in Int /\ WordBits >= 0 /\ len <= words
        BY <2>2, <2>3, <2>4, <2>6
      <4> QED  BY <4>1, ProductMonotone
    <3> DEFINE w == WordBits * len
    <3>2. w \in Nat /\ N < Pow2[w] /\ start >= w
      BY <2>2, <2>3, <2>4, <3>1
    <3> HIDE DEF w
    <3>3. Up(N, start) = 0
      BY <2>1, <3>2, UpIs
    <3>4. Low(0, length) = 0
      <4>1. 0 \in Nat /\ 0 < Pow2[length]
        BY Pow2Unfold
      <4> QED  BY <4>1, FewBits
    <3> QED  BY <1>2, <2>5, <2>6, <3>3, <3>4 DEF d, N
  <2>7. CASE ~ words >= len
    <3> DEFINE x == Up(N, start)
               c == 1
    <3>1. c \in Nat /\ 1 \in 1 .. c
      OBVIOUS
    <3> HIDE DEF c
    <3>2. WordsFrom(WordsOf(N, len), start, c) = WordsOf(x, c) /\ x \in Nat
      BY <2>1, <2>2, <3>1, WordsFromIs
    <3> HIDE DEF x
    <3>3. x \in Int
      BY <3>2
    <3>4. WordsOf(x, c)[1] = WordAt(x, First(1)) /\ First(1) = 0
      BY <3>1, <3>3, WordsOfIs, FirstIs
    <3>5. WordAt(x, 0) = Wrap(x)
      BY <3>3, WrapIsLow
    <3>6. RuintMask(length, Wrap(x)) = Low(x, length)
      BY <3>3, LowOfWrap
    <3>7. SliceWordUp(d, length, start) = RuintMask(length, WordsFrom(WordsOf(N, len), start, c)[1])
      BY <2>2, <2>5, <2>7 DEF c
    <3> QED  BY <1>2, <3>2, <3>4, <3>5, <3>6, <3>7 DEF x, N, d
  <2> QED  BY <2>6, <2>7
<1> QED  BY <1>1, <1>2

\* A machine integer has nothing but its sign above the width of a word.
LEMMA FarUp ==
  ASSUME NEW n \in MinInt .. MaxInt, NEW start \in Nat, start >= WordBits
  PROVE  Up(n, start) = IF n >= 0 THEN 0 ELSE -1
<1>1. n \in Int /\ WordBits \in Nat /\ -1 - n \in Int
  BY HalfIs, WordIs
<1>2. /\ Base = Pow2[WordBits] /\ Base \in Nat
      /\ MaxInt \in Int /\ MinInt \in Int /\ Base = 2 * (MaxInt + 1) /\ MinInt = -(MaxInt + 1) /\ MaxInt >= 0
  BY WordIs, HalfIs
<1>3. n >= 0 => Up(n, start) = 0
  <2> SUFFICES ASSUME n >= 0 PROVE Up(n, start) = 0
    OBVIOUS
  <2>1. n \in Nat /\ n < Pow2[WordBits]
    BY <1>1, <1>2
  <2> QED  BY <1>1, <2>1, UpIs
<1>4. n < 0 => Up(n, start) = -1
  <2> SUFFICES ASSUME n < 0 PROVE Up(n, start) = -1
    OBVIOUS
  <2> DEFINE m == -1 - n
  <2>1. m \in Nat /\ m < Pow2[WordBits] /\ -1 - m = n /\ m \in Int
    BY <1>1, <1>2
  <2> HIDE DEF m
  <2>2. Up(m, start) = 0
    BY <1>1, <2>1, UpIs
  <2>3. Up(-1 - m, start) = -1 - Up(m, start)
    BY <2>1, HalvesOfComplement
  <2> QED  BY <2>1, <2>2, <2>3
<1> QED  BY <1>1, <1>3, <1>4

\* The bits of -1 - n are those of n, inverted.
LEMMA LowOfComplement ==
  ASSUME NEW n \in Int, NEW i \in Nat, i <= WordBits
  PROVE  /\ Complement(Low(n, i)) \in Int
         /\ RuintMask(i, Complement(Low(n, i))) = Low(-1 - n, i)
<1> DEFINE r == Low(n, i)
           b == -1 - r
           rest == WordBits - i
<1>1. r \in Nat /\ -1 - n \in Int
  <2>1. Low(n, i) \in Nat
    BY Halves
  <2> QED  BY <2>1
<1>2. rest \in Nat /\ WordBits = i + rest /\ WordBits \in Nat
  BY WordIs
<1>3. Base = Pow2[WordBits] /\ Base \in Nat
  BY WordIs
<1> HIDE DEF rest
<1>4. Base = Pow2[i] * Pow2[rest] /\ Pow2[rest] \in Int
  <2>1. Pow2[i + rest] = Pow2[i] * Pow2[rest]
    BY <1>2, Pow2Sum
  <2>2. Pow2[rest] \in Nat
    BY <1>2, Pow2Unfold
  <2> QED  BY <1>2, <1>3, <2>1, <2>2
<1>5. b \in Int /\ Complement(r) = b + Base /\ Complement(r) \in Int
  BY <1>1, <1>3 DEF Complement
<1>6. Low(b + Pow2[i] * Pow2[rest], i) = Low(b, i)
  <2> HIDE DEF b
  <2> QED  BY <1>4, <1>5, HalvesOfSum
<1>7. Low(b, i) = Low(-1 - n, i)
  <2>1. i <= i /\ -1 \in Int
    OBVIOUS
  <2>2. Low(-1 - Low(n, i), i) = Low(-1 - n, i)
    BY <2>1, LowOfTerm
  <2> QED  BY <2>2
<1>8. RuintMask(i, Complement(r)) = Low(Complement(r), i)
  BY DEF RuintMask, Low
<1> HIDE DEF b, r
<1>9. Low(Complement(r), i) = Low(-1 - n, i)
  BY <1>4, <1>5, <1>6, <1>7
<1> QED  BY <1>5, <1>8, <1>9 DEF r

\* slice of at most a word, below zero by inverting twice.
LEMMA SliceWordIs ==
  ASSUME NEW i \in SailInteger, NEW length \in Nat, length <= WordBits, NEW start \in Nat
  PROVE  SliceWord(i, length, start) = Low(Up(ToBigint(i), start), length)
<1> DEFINE N == ToBigint(i)
           upward(j) == IF j.kind = "int" THEN RuintMask(length, Wrap(j.val \div Pow2[start]))
                                          ELSE SliceWordUp(j.data, length, start)
<1>1. N \in Int /\ i.kind \in {"int", "big"} /\ WordBits \in Nat
  BY IntegerIs, WordIs
<1>2. CASE i.kind = "int" /\ start >= WordBits
  <2>1. N = i.val /\ i.val \in MinInt .. MaxInt
    BY <1>2, IntegerIs
  <2>2. SliceWord(i, length, start) = IF i.val >= 0 THEN 0 ELSE RuintMask(length, Base - 1)
    <3>1. ~ start < WordBits
      BY <1>1, <1>2
    <3> QED  BY <1>2, <3>1 DEF SliceWord
  <2>3. Up(i.val, start) = IF i.val >= 0 THEN 0 ELSE -1
    BY <1>2, <2>1, FarUp
  <2>4. Low(0, length) = 0
    <3>1. 0 \in Nat /\ 0 < Pow2[length]
      BY Pow2Unfold
    <3> QED  BY <3>1, FewBits
  <2>5. RuintMask(length, Base - 1) = Low(-1, length)
    <3> DEFINE z == 0
    <3>1. z \in Int
      OBVIOUS
    <3> HIDE DEF z
    <3>2. RuintMask(length, Complement(Low(z, length))) = Low(-1 - z, length)
      BY <3>1, LowOfComplement
    <3>3. Complement(0) = Base - 1
      BY WordIs DEF Complement
    <3>4. -1 - z = -1
      BY DEF z
    <3> QED  BY <2>4, <3>2, <3>3, <3>4 DEF z
  <2> QED  BY <2>1, <2>2, <2>3, <2>4, <2>5
<1>3. CASE i.kind = "int" /\ ~ start >= WordBits
  <2>1. start < WordBits
    BY <1>1, <1>3
  <2>2. SliceWord(i, length, start) = RuintMask(length, Wrap(i.val \div Pow2[start]))
    BY <1>3, <2>1 DEF SliceWord
  <2> QED  BY <1>3, <2>2, SliceUp
<1>4. CASE i.kind = "big" /\ i.sign > 0
  <2>1. ~ i.sign < 0 /\ N >= 0
    <3>1. i.sign \in {-1, 1} /\ N = i.sign * ValueOf(i.data) /\ ValueOf(i.data) \in Nat
      BY <1>4, IntegerIs
    <3> HIDE DEF N
    <3> QED  BY <1>4, <3>1
  <2>2. SliceWord(i, length, start) = SliceWordUp(i.data, length, start)
    BY <1>4, <2>1 DEF SliceWord
  <2> QED  BY <1>4, <2>1, <2>2, SliceUp
<1>5. CASE i.kind = "big" /\ i.sign < 0
  <2> DEFINE M == -1 - N
             inverted == Neg(AddInteger(i, SmallInt(1)))
  <2>1. ~ i.sign > 0 /\ N <= -1
    <3>1. i.sign \in {-1, 1} /\ N = i.sign * ValueOf(i.data) /\ ValueOf(i.data) \in Nat /\ ValueOf(i.data) >= 1
      BY <1>5, IntegerIs
    <3> HIDE DEF N
    <3> QED  BY <1>5, <3>1
  <2>2. SliceWord(i, length, start) = RuintMask(length, Complement(
               IF inverted.kind = "int" /\ start >= WordBits THEN 0 ELSE upward(inverted)))
    BY <1>5, <2>1 DEF SliceWord
  <2>3. inverted \in SailInteger /\ ToBigint(inverted) = M /\ M \in Nat /\ M >= 0 /\ N = -1 - M /\ M \in Int
    <3>1. 1 \in MinInt .. MaxInt
      <4>1. MaxInt >= 1
        <5>1. Pow2[1] <= Pow2[WordBits - 1] /\ Pow2[1] = 2
          <6>1. 1 \in Nat /\ WordBits - 1 \in Nat /\ 1 <= WordBits - 1
            BY WordIs
          <6> QED  BY <6>1, Pow2Monotone, PowerOfOne
        <5>2. Pow2[(WordBits - 1) + 1] = 2 * Pow2[WordBits - 1] /\ Pow2[WordBits - 1] \in Nat
          <6>1. WordBits - 1 \in Nat
            BY WordIs
          <6> QED  BY <6>1, Pow2Unfold
        <5>3. (WordBits - 1) + 1 = WordBits
          BY <1>1
        <5>4. Base = Pow2[WordBits] /\ MaxInt \in Int /\ Base = 2 * (MaxInt + 1)
          BY WordIs, HalfIs
        <5> DEFINE h == Pow2[WordBits - 1]
        <5>5. h \in Nat /\ h >= 2 /\ Base = 2 * h
          BY <5>1, <5>2, <5>3, <5>4
        <5> HIDE DEF h
        <5> QED  BY <5>4, <5>5
      <4> QED  BY <4>1, HalfIs
    <3>2. IsExact(SmallInt(1), 1)
      BY <3>1, SmallIsExact
    <3>3. SmallInt(1) \in SailInteger /\ ToBigint(SmallInt(1)) = 1
      BY <3>2 DEF IsExact
    <3>4. IsExact(AddInteger(i, SmallInt(1)), N + 1)
      BY <3>3, AdditionExact
    <3>5. AddInteger(i, SmallInt(1)) \in SailInteger /\ ToBigint(AddInteger(i, SmallInt(1))) = N + 1
      BY <3>4 DEF IsExact
    <3>6. IsExact(inverted, -(N + 1))
      <4>1. IsExact(Neg(AddInteger(i, SmallInt(1))), -ToBigint(AddInteger(i, SmallInt(1))))
        BY <3>5, NegationExact
      <4> QED  BY <3>5, <4>1
    <3> HIDE DEF inverted, N
    <3>7. -(N + 1) = M
      BY <1>1
    <3> QED  BY <1>1, <2>1, <3>6, <3>7 DEF IsExact
  <2>4. upward(inverted) = Low(Up(M, start), length)
    <3> HIDE DEF inverted, M
    <3> QED  BY <2>3, SliceUp
  <2> HIDE DEF M, N
  <2>5. (IF inverted.kind = "int" /\ start >= WordBits THEN 0 ELSE upward(inverted))
          = Low(Up(M, start), length)
    <3>1. CASE inverted.kind = "int" /\ start >= WordBits
      <4> HIDE DEF inverted
      <4>1. M \in MinInt .. MaxInt
        BY <2>3, <3>1, IntegerIs
      <4>2. Up(M, start) = 0
        BY <2>3, <3>1, <4>1, FarUp
      <4>3. Low(0, length) = 0
        <5>1. 0 \in Nat /\ 0 < Pow2[length]
          BY Pow2Unfold
        <5> QED  BY <5>1, FewBits
      <4> QED  BY <3>1, <4>2, <4>3
    <3>2. CASE ~ (inverted.kind = "int" /\ start >= WordBits)
      BY <2>4, <3>2
    <3> QED  BY <3>1, <3>2
  <2>6. Up(M, start) \in Int
    BY <2>3, Halves
  <2>7. RuintMask(length, Complement(Low(Up(M, start), length))) = Low(-1 - Up(M, start), length)
    BY <2>6, LowOfComplement
  <2>8. Up(-1 - M, start) = -1 - Up(M, start)
    BY <2>3, HalvesOfComplement
  <2> QED  BY <2>2, <2>3, <2>5, <2>7, <2>8 DEF N
<1>6. i.kind = "big" => i.sign > 0 \/ i.sign < 0
  <2> SUFFICES ASSUME i.kind = "big" PROVE i.sign > 0 \/ i.sign < 0
    OBVIOUS
  <2>1. i.sign \in {-1, 1}
    BY IntegerIs
  <2> QED  BY <2>1
<1> QED  BY <1>1, <1>2, <1>3, <1>4, <1>5, <1>6

-----------------------------------------------------------------------------
(***************************************************************************)
(* Slices, and integers added to vectors.                                  *)
(***************************************************************************)

\* slice.
LEMMA SliceIs ==
  ASSUME NEW i \in SailInteger, NEW length \in Nat \ {0}, NEW start \in Nat
  PROVE  IsVector(Slice(i, length, start), length, Low(Up(ToBigint(i), start), length))
<1> DEFINE N == ToBigint(i)
           x == Up(N, start)
<1>1. N \in Int /\ i.kind \in {"int", "big"} /\ WordBits \in Nat /\ x \in Int /\ length \in Nat
  <2>1. N \in Int /\ i.kind \in {"int", "big"}
    BY IntegerIs
  <2>2. Up(N, start) \in Int
    BY <2>1, Halves
  <2> QED  BY <2>1, <2>2, WordIs
<1>2. CASE length <= WordBits
  <2>1. Slice(i, length, start) = Small(length, SliceWord(i, length, start))
    BY <1>1, <1>2 DEF Slice
  <2>2. SliceWord(i, length, start) = Low(x, length)
    BY <1>1, <1>2, SliceWordIs
  <2>3. RuintMask(length, x) = Low(x, length)
    BY DEF RuintMask, Low
  <2> HIDE DEF x
  <2>4. IsVector(Small(length, RuintMask(length, x)), length, Low(x, length))
    BY <1>1, <1>2, IsSmall
  <2> QED  BY <2>1, <2>2, <2>3, <2>4 DEF x
<1>3. CASE ~ length <= WordBits /\ i.kind = "int"
  <2> DEFINE n == IF start >= WordBits THEN -1 ELSE i.val \div Pow2[start]
  <2>1. N = i.val /\ i.val \in MinInt .. MaxInt /\ i.val \in Int
    BY <1>3, IntegerIs
  <2>2. length > WordBits
    BY <1>1, <1>3
  <2>3. Slice(i, length, start) =
          IF start >= WordBits /\ i.val >= 0 THEN Sparse(length, 0)
          ELSE IF n > 0 THEN Sparse(length, n)
          ELSE FromBigint(length, n)
    BY <1>1, <1>3, <2>2 DEF Slice
  <2> HIDE DEF N
  <2>4. start >= WordBits => x = IF i.val >= 0 THEN 0 ELSE -1
    BY <2>1, FarUp
  <2>5. ~ start >= WordBits => n = x
    BY <2>1 DEF Up
  <2>6. CASE start >= WordBits /\ i.val >= 0
    <3>1. IsVector(Sparse(length, 0), length, 0) /\ Low(0, length) = 0
      <4>1. 0 \in Word
        BY WordIs
      <4> QED  BY <2>2, <4>1, IsSparse
    <3> QED  BY <2>3, <2>4, <2>6, <3>1 DEF N
  <2>7. CASE ~ (start >= WordBits /\ i.val >= 0)
    <3>1. n = x
      BY <2>1, <2>4, <2>5, <2>7
    <3> HIDE DEF n, x
    <3>2. CASE n > 0
      <4>1. n \in MinInt .. MaxInt
        <5>1. ~ start >= WordBits
          BY <3>2 DEF n
        <5> QED  BY <2>1, <5>1, QuotientOfMachine DEF n
      <4>2. n \in Word
        <5>1. MaxInt \in Int /\ Base = 2 * (MaxInt + 1) /\ MinInt \in Int
          BY HalfIs
        <5> QED  BY <3>2, <4>1, <5>1 DEF Word
      <4>3. IsVector(Sparse(length, n), length, n) /\ Low(n, length) = n
        BY <2>2, <4>2, IsSparse
      <4> QED  BY <2>3, <2>7, <3>1, <3>2, <4>3 DEF x, N
    <3>3. CASE ~ n > 0
      <4>1. IsVector(FromBigint(length, x), length, Low(x, length))
        BY <1>1, FromBigintIs
      <4> QED  BY <2>3, <2>7, <3>1, <3>3, <4>1 DEF x, N
    <3> QED  BY <3>2, <3>3
  <2> QED  BY <2>6, <2>7
<1>4. CASE ~ length <= WordBits /\ i.kind = "big"
  <2>1. length > WordBits
    BY <1>1, <1>4
  <2>2. Slice(i, length, start) = FromBigint(length, ToBigint(RshiftInteger(i, start)))
    BY <1>1, <1>4, <2>1 DEF Slice
  <2>3. ToBigint(RshiftInteger(i, start)) = x
    BY RshiftIntegerIs DEF IsExact
  <2> HIDE DEF x
  <2>4. IsVector(FromBigint(length, x), length, Low(x, length))
    BY <1>1, FromBigintIs
  <2> QED  BY <2>2, <2>3, <2>4 DEF x
<1> QED  BY <1>1, <1>2, <1>3, <1>4

\* The least word of an integer.
LEMMA WordOfIntegerIs ==
  ASSUME NEW i \in SailInteger
  PROVE  WordOfInteger(i) = Wrap(ToBigint(i)) /\ ToBigint(i) \in Int
<1> DEFINE N == ToBigint(i)
<1>1. N \in Int /\ i.kind \in {"int", "big"} /\ WordBits \in Nat /\ WordBits <= WordBits
  BY IntegerIs, WordIs
<1>2. CASE i.kind = "int"
  <2>1. N = i.val
    BY <1>2, IntegerIs
  <2> QED  BY <1>1, <1>2, <2>1 DEF WordOfInteger
<1>3. CASE i.kind = "big"
  <2> DEFINE z == 0
  <2>1. z \in Nat
    OBVIOUS
  <2> HIDE DEF z
  <2>2. SliceWord(i, WordBits, z) = Low(Up(N, z), WordBits)
    BY <1>1, <2>1, SliceWordIs
  <2> HIDE DEF N
  <2>3. Up(N, 0) = N
    BY <1>1, NoBits
  <2>4. Wrap(N) = Low(N, WordBits)
    BY <1>1, WrapIsLow
  <2>5. WordOfInteger(i) = SliceWord(i, WordBits, z)
    BY <1>3 DEF WordOfInteger, z
  <2> QED  BY <1>1, <2>2, <2>3, <2>4, <2>5 DEF N, z
<1> QED  BY <1>1, <1>2, <1>3

\* The magnitude of an integer as a generic vector.
LEMMA MagnitudeVector ==
  ASSUME NEW v, NEW size, v.size = size, size \in Nat \ {0}, size > WordBits,
         NEW i \in SailInteger
  PROVE  LET m == Magnitude(ToBigint(i))
         IN  /\ m \in Int
             /\ IsVector(GenericOfMagnitude(v, i), size, Low(m, size))
<1> DEFINE m == Magnitude(ToBigint(i))
<1>1. m \in Int
  <2>1. ToBigint(i) \in Int
    BY IntegerIs
  <2> QED  BY <2>1 DEF Magnitude
<1>2. GenericOfMagnitude(v, i) = Generic(size, ArrayFromBigint(size, m))
  BY DEF GenericOfMagnitude
<1> HIDE DEF m
<1>3. IsVector(Generic(size, ArrayFromBigint(size, m)), size, Low(m, size))
  BY <1>1, FromBigintIs
<1> QED  BY <1>1, <1>2, <1>3 DEF m

LEMMA SmallWords ==
  ASSUME NEW n \in MinInt .. MaxInt
  PROVE  /\ n \in Int
         /\ n >= 0 => n \in Word /\ Wrap(n) = n
         /\ n < 0 => -n \in Word /\ Wrap(-n) = -n
<1>1. MaxInt \in Int /\ MinInt \in Int /\ Base = 2 * (MaxInt + 1) /\ MinInt = -(MaxInt + 1) /\ MaxInt >= 0
  BY HalfIs
<1>2. n \in Int /\ MinInt <= n /\ n <= MaxInt /\ -n \in Int
  BY <1>1
<1>3. n >= 0 => n \in Word
  BY <1>1, <1>2 DEF Word
<1>4. n < 0 => -n \in Word
  BY <1>1, <1>2 DEF Word
<1> QED  BY <1>2, <1>3, <1>4, WrapNear

\* a positive number in digits, added to an array and cut to its length
LEMMA DigitsAdded ==
  ASSUME NEW v, NEW size, NEW n, IsVector(v, size, n), v.kind = "generic",
         NEW d \in Data
  PROVE  IsVector(MakeGeneric(v, SubSeq(DataAdd(v.data, d), 1, Len(v.data))), size,
                  Low(n + ValueOf(d), size))
<1> DEFINE a == v.data
           sum == DataAdd(a, d)
           len == DataSize(size)
           x == n + ValueOf(d)
<1>1. /\ size \in Nat \ {0} /\ size > WordBits /\ v.size = size /\ n \in Nat
      /\ a \in Arrays /\ Len(a) = len /\ ValueOf(a) = n /\ len \in Nat
  BY GenericIs
<1>2. d \in Arrays /\ ValueOf(d) \in Nat /\ Len(d) \in Nat
  BY DataIs
<1>3. sum \in Arrays /\ ValueOf(sum) = x
  BY <1>1, <1>2, DataAddIs
<1>4. len <= Len(sum)
  <2> HIDE DEF a, len
  <2>1. CASE Len(a) < Len(d)
    <3>1. sum = Append(AddLoop(d, a).digits, AddLoop(d, a).carry)
      BY <2>1 DEF DataAdd
    <3>2. Len(a) <= Len(d)
      BY <1>1, <1>2, <2>1
    <3>3. /\ AddLoop(d, a).digits \in Arrays /\ Len(AddLoop(d, a).digits) = Len(d)
          /\ AddLoop(d, a).carry \in {0, 1}
      BY <1>1, <1>2, <3>2, AddLoopSum
    <3>4. Len(sum) = Len(d) + 1
      <4>1. AddLoop(d, a).carry \in Word
        BY <3>3, WordIs, BaseAssumption DEF Word
      <4> QED  BY <3>1, <3>3, <4>1, AppendIs
    <3> QED  BY <1>1, <1>2, <2>1, <3>4
  <2>2. CASE ~ Len(a) < Len(d)
    <3>1. sum = Append(AddLoop(a, d).digits, AddLoop(a, d).carry)
      BY <2>2 DEF DataAdd
    <3>2. Len(d) <= Len(a)
      BY <1>1, <1>2, <2>2
    <3>3. /\ AddLoop(a, d).digits \in Arrays /\ Len(AddLoop(a, d).digits) = Len(a)
          /\ AddLoop(a, d).carry \in {0, 1}
      BY <1>1, <1>2, <3>2, AddLoopSum
    <3>4. Len(sum) = Len(a) + 1
      <4>1. AddLoop(a, d).carry \in Word
        BY <3>3, WordIs, BaseAssumption DEF Word
      <4> QED  BY <3>1, <3>3, <4>1, AppendIs
    <3> QED  BY <1>1, <1>2, <3>4
  <2> QED  BY <2>1, <2>2
<1> HIDE DEF sum
<1>5. sum = WordsOf(x, Len(sum)) /\ x \in Int /\ Len(sum) \in Nat
  BY <1>1, <1>2, <1>3, ArraysAreWords
<1> HIDE DEF x, len
<1>6. SubSeq(sum, 1, len) = WordsOf(x, len)
  <2>1. SubSeq(WordsOf(x, Len(sum)), 1, len) = WordsOf(x, len)
    BY <1>1, <1>4, <1>5, FirstWords
  <2> QED  BY <1>5, <2>1
<1>7. IsVector(MakeGeneric(v, WordsOf(x, len)), size, Low(x, size))
  BY <1>1, <1>5, IsGeneric DEF len
<1> QED  BY <1>1, <1>6, <1>7 DEF x, sum, a

\* An integer added to and subtracted from a generic vector.
LEMMA AddIntGenericIs ==
  ASSUME NEW v, NEW size, NEW n, IsVector(v, size, n), v.kind = "generic",
         NEW i \in SailInteger
  PROVE  /\ IsVector(AddIntGeneric(v, i), size, Low(n + ToBigint(i), size))
         /\ IsVector(SubIntGeneric(v, i), size, Low(n - ToBigint(i), size))
<1> DEFINE N == ToBigint(i)
           m == Magnitude(N)
           w == GenericOfMagnitude(v, i)
<1>1. N \in Int /\ i.kind \in {"int", "big"} /\ m \in Int
  <2>1. N \in Int /\ i.kind \in {"int", "big"}
    BY IntegerIs
  <2> QED  BY <2>1 DEF Magnitude
<1>2. n \in Nat /\ n \in Int /\ size \in Nat \ {0} /\ size \in Nat /\ size > WordBits /\ v.size = size
  BY GenericIs
<1>3. CASE i.kind = "int"
  <2>1. N = i.val /\ i.val \in MinInt .. MaxInt /\ i.val \in Int
    BY <1>3, IntegerIs
  <2>2. CASE i.val >= 0
    <3>1. i.val \in Word /\ Wrap(i.val) = i.val
      BY <2>1, <2>2, SmallWords
    <3>2. AddIntGeneric(v, i) = AddRuint(v, i.val) /\ SubIntGeneric(v, i) = SubRuint(v, i.val)
      BY <1>3, <2>1, <2>2, <3>1 DEF AddIntGeneric, SubIntGeneric
    <3> QED  BY <2>1, <3>1, <3>2, WordSums
  <2>3. CASE i.val < 0
    <3> DEFINE k == -i.val
    <3>1. k \in Word /\ Wrap(k) = k /\ k \in Int
      BY <2>1, <2>3, SmallWords
    <3>2. AddIntGeneric(v, i) = SubRuint(v, k) /\ SubIntGeneric(v, i) = AddRuint(v, k)
      BY <1>3, <2>1, <2>3, <3>1 DEF AddIntGeneric, SubIntGeneric
    <3>3. n - k = n + i.val /\ n + k = n - i.val
      BY <1>2, <2>1
    <3> HIDE DEF k
    <3>4. /\ IsVector(AddRuint(v, k), size, Low(n + k, size))
          /\ IsVector(SubRuint(v, k), size, Low(n - k, size))
      BY <3>1, WordSums
    <3> QED  BY <2>1, <3>2, <3>3, <3>4
  <2> QED  BY <2>1, <2>2, <2>3
<1>4. CASE i.kind = "big"
  <2>1. i.data \in Data /\ i.sign \in {-1, 1} /\ N = i.sign * ValueOf(i.data) /\ ValueOf(i.data) \in Nat
    BY <1>4, IntegerIs
  <2>2. IsVector(w, size, Low(m, size))
    BY <1>2, MagnitudeVector
  <2>3. size <= size
    BY <1>2
  <2> HIDE DEF N, m, w
  <2>4. Low(n + Low(m, size), size) = Low(n + m, size) /\ Low(n - Low(m, size), size) = Low(n - m, size)
    <3>1. m \in Int /\ n \in Int /\ size \in Nat
      BY <1>1, <1>2
    <3> QED  BY ONLY <2>3, <3>1, LowOfTerm
  <2>5. IsVector(SubFromGeneric(v, w), size, Low(n - m, size))
    BY <2>2, <2>4, SubFromGenericIs
  <2>6. IsVector(AddBits(v, w), size, Low(n + m, size))
    BY <2>2, <2>4, AddBitsIs
  <2>7. CASE i.sign = 1
    <3>1. N = ValueOf(i.data) /\ m = N
      BY <2>1, <2>7 DEF m, Magnitude
    <3>2. i.sign > 0 /\ ~ i.sign < 0
      BY <2>7
    <3>3. AddIntGeneric(v, i) = MakeGeneric(v, SubSeq(DataAdd(v.data, i.data), 1, Len(v.data)))
      BY <1>4, <3>2 DEF AddIntGeneric
    <3>4. SubIntGeneric(v, i) = SubFromGeneric(v, w)
      BY <1>4, <3>2 DEF SubIntGeneric, w
    <3>5. IsVector(AddIntGeneric(v, i), size, Low(n + ValueOf(i.data), size))
      BY <2>1, <3>3, DigitsAdded
    <3> QED  BY <2>5, <3>1, <3>4, <3>5 DEF N
  <2>8. CASE i.sign = -1
    <3>1. m = -N
      BY <1>1, <2>1, <2>8 DEF m, Magnitude
    <3>2. ~ i.sign > 0 /\ i.sign < 0
      BY <2>8
    <3>3. AddIntGeneric(v, i) = SubFromGeneric(v, w)
      BY <1>4, <3>2 DEF AddIntGeneric, w
    <3>4. SubIntGeneric(v, i) = AddBits(v, w)
      BY <1>4, <3>2 DEF SubIntGeneric, w
    <3>5. n - m = n + N /\ n + m = n - N
      BY <1>1, <1>2, <3>1
    <3> QED  BY <2>5, <2>6, <3>3, <3>4, <3>5 DEF N
  <2> QED  BY <2>1, <2>7, <2>8
<1> QED  BY <1>1, <1>3, <1>4

\* add_int.
LEMMA AddIntIs ==
  ASSUME NEW v, NEW size, NEW n, IsVector(v, size, n), NEW i \in SailInteger
  PROVE  IsVector(AddInt(v, i), size, Low(n + ToBigint(i), size))
<1> DEFINE N == ToBigint(i)
<1>1. N \in Int /\ i.kind \in {"int", "big"} /\ WordOfInteger(i) = Wrap(N)
  BY IntegerIs, WordOfIntegerIs
<1>2. /\ v.kind \in {"small", "sparse", "generic"} /\ size \in Nat \ {0} /\ size \in Nat
      /\ v.size = size /\ n \in Nat /\ n \in Int /\ WordBits \in Nat
      /\ (v.kind = "small" <=> size <= WordBits)
  BY VectorIs, WordIs
<1> HIDE DEF N
<1>3. CASE v.kind = "small"
  <2> DEFINE x == n + Wrap(N)
  <2>1. Val(v) = n /\ size <= WordBits
    BY <1>2, <1>3, VectorIs
  <2>2. Wrap(N) = Low(N, WordBits)
    BY <1>1, WrapIsLow
  <2>3. Low(N, WordBits) \in Int /\ Low(n + Low(N, WordBits), size) = Low(n + N, size)
    <3>1. Low(N, WordBits) \in Nat
      BY <1>1, <1>2, Halves
    <3> QED  BY ONLY <1>1, <1>2, <2>1, <3>1, LowOfTerm
  <2>4. x \in Int /\ Low(x, size) = Low(n + N, size)
    BY <1>2, <2>2, <2>3
  <2>5. AddInt(v, i) = MakeSmall(v, Wrap(x))
    BY <1>1, <1>3, <2>1 DEF AddInt
  <2> HIDE DEF x
  <2>6. IsVector(MakeSmall(v, Wrap(x)), size, Low(x, size))
    BY <1>2, <2>1, <2>4, IsSmall
  <2> QED  BY <2>4, <2>5, <2>6 DEF N
<1>4. CASE v.kind = "sparse"
  <2> DEFINE sum == Wrap(n + i.val)
             stays == i.kind = "int" /\ i.val > 0 /\ sum >= n
  <2>1. Val(v) = n /\ n \in Word /\ size > WordBits
    <3>1. Val(v) = n /\ n \in Word
      BY <1>4, VectorIs
    <3> QED  BY <1>2, <1>4, <3>1
  <2>2. AddInt(v, i) = IF stays THEN Sparse(size, sum) ELSE AddIntGeneric(ToGeneric(v), i)
    BY <1>2, <1>4, <2>1 DEF AddInt
  <2>3. CASE stays
    <3>1. N = i.val /\ i.val \in MinInt .. MaxInt
      BY <2>3, IntegerIs DEF N
    <3>2. i.val \in Word
      BY <2>3, <3>1, SmallWords
    <3>3. sum \in Word /\ sum = n + i.val
      BY <2>1, <2>3, <3>2, WrappedSum
    <3> HIDE DEF sum
    <3>4. IsVector(Sparse(size, sum), size, sum) /\ Low(sum, size) = sum
      BY <1>2, <2>1, <3>3, IsSparse
    <3> QED  BY <2>2, <2>3, <3>1, <3>3, <3>4 DEF N
  <2>4. CASE ~ stays
    <3>1. IsVector(ToGeneric(v), size, n) /\ ToGeneric(v).kind = "generic"
      BY <1>4, ToGenericIs
    <3> QED  BY <2>2, <2>4, <3>1, AddIntGenericIs
  <2> QED  BY <2>3, <2>4
<1>5. CASE v.kind = "generic"
  <2>1. AddInt(v, i) = AddIntGeneric(v, i)
    BY <1>5 DEF AddInt
  <2> QED  BY <1>5, <2>1, AddIntGenericIs
<1> QED  BY <1>2, <1>3, <1>4, <1>5

\* sub_int.
LEMMA SubIntIs ==
  ASSUME NEW v, NEW size, NEW n, IsVector(v, size, n), NEW i \in SailInteger
  PROVE  IsVector(SubInt(v, i), size, Low(n - ToBigint(i), size))
<1> DEFINE N == ToBigint(i)
<1>1. N \in Int /\ i.kind \in {"int", "big"} /\ WordOfInteger(i) = Wrap(N)
  BY IntegerIs, WordOfIntegerIs
<1>2. /\ v.kind \in {"small", "sparse", "generic"} /\ size \in Nat \ {0} /\ size \in Nat
      /\ v.size = size /\ n \in Nat /\ n \in Int /\ WordBits \in Nat
      /\ (v.kind = "small" <=> size <= WordBits)
  BY VectorIs, WordIs
<1> HIDE DEF N
<1>3. CASE v.kind = "small"
  <2> DEFINE x == n - Wrap(N)
  <2>1. Val(v) = n /\ size <= WordBits
    BY <1>2, <1>3, VectorIs
  <2>2. Wrap(N) = Low(N, WordBits)
    BY <1>1, WrapIsLow
  <2>3. Low(N, WordBits) \in Int /\ Low(n - Low(N, WordBits), size) = Low(n - N, size)
    <3>1. Low(N, WordBits) \in Nat
      BY <1>1, <1>2, Halves
    <3> QED  BY ONLY <1>1, <1>2, <2>1, <3>1, LowOfTerm
  <2>4. x \in Int /\ Low(x, size) = Low(n - N, size)
    BY <1>2, <2>2, <2>3
  <2>5. SubInt(v, i) = MakeSmall(v, Wrap(x))
    BY <1>1, <1>3, <2>1 DEF SubInt
  <2> HIDE DEF x
  <2>6. IsVector(MakeSmall(v, Wrap(x)), size, Low(x, size))
    BY <1>2, <2>1, <2>4, IsSmall
  <2> QED  BY <2>4, <2>5, <2>6 DEF N
<1>4. CASE v.kind = "sparse"
  <2> DEFINE stays == i.kind = "int" /\ 0 <= i.val /\ i.val <= n
             r == n - i.val
  <2>1. Val(v) = n /\ n \in Word /\ size > WordBits
    <3>1. Val(v) = n /\ n \in Word
      BY <1>4, VectorIs
    <3> QED  BY <1>2, <1>4, <3>1
  <2>2. SubInt(v, i) = IF stays THEN Sparse(size, r) ELSE SubIntGeneric(ToGeneric(v), i)
    BY <1>2, <1>4, <2>1 DEF SubInt
  <2>3. CASE stays
    <3>1. N = i.val /\ i.val \in MinInt .. MaxInt
      BY <2>3, IntegerIs DEF N
    <3>2. i.val \in Int
      BY <3>1, SmallWords
    <3>3. r \in Word
      <4>1. 0 <= i.val /\ i.val <= n /\ n \in Nat
        BY <1>2, <2>3
      <4>2. r \in Nat /\ r <= n
        BY <3>2, <4>1
      <4> HIDE DEF r
      <4>3. n < Pow2[WordBits] /\ Pow2[WordBits] \in Nat
        BY <2>1, WordIs
      <4> QED  BY <4>1, <4>2, <4>3, WordIs
    <3> HIDE DEF r
    <3>4. IsVector(Sparse(size, r), size, r) /\ Low(r, size) = r
      BY <1>2, <2>1, <3>3, IsSparse
    <3> QED  BY <2>2, <2>3, <3>1, <3>4 DEF N, r
  <2>4. CASE ~ stays
    <3>1. IsVector(ToGeneric(v), size, n) /\ ToGeneric(v).kind = "generic"
      BY <1>4, ToGenericIs
    <3> QED  BY <2>2, <2>4, <3>1, AddIntGenericIs
  <2> QED  BY <2>3, <2>4
<1>5. CASE v.kind = "generic"
  <2>1. SubInt(v, i) = SubIntGeneric(v, i)
    BY <1>5 DEF SubInt
  <2> QED  BY <1>5, <2>1, AddIntGenericIs
<1> QED  BY <1>2, <1>3, <1>4, <1>5

\* arith_rshift of a small vector.
LEMMA SmallShiftedArithmetically ==
  ASSUME NEW size \in Nat \ {0}, size <= WordBits, NEW n \in Nat, n < Pow2[size],
         BitOf(n, size - 1) = 1, NEW c \in Nat, c <= size
  PROVE  LET x == Shr(n, c) | Shl(Ones(c), size - c)
         IN  x = Low(Up(SignedNumber(size, n), c), size) /\ x \in Nat /\ x < Pow2[size]
<1> DEFINE a == Shr(n, c)
           b == Shl(Ones(c), size - c)
           x == a | b
           s == SignedNumber(size, n)
           r == Low(Up(s, c), size)
           rest == size - c
<1>1. /\ size \in Nat /\ WordBits \in Nat /\ n \in Word /\ rest \in Nat /\ c <= WordBits
      /\ size = c + rest /\ n \in Int
  <2>1. WordBits \in Nat
    BY WordIs
  <2>2. Pow2[size] <= Pow2[WordBits] /\ Pow2[size] \in Nat /\ Pow2[WordBits] \in Nat
    BY <2>1, Pow2Monotone, Pow2Unfold
  <2>3. n \in Word
    BY <2>2, WordIs
  <2> QED  BY <2>1, <2>3
<1>2. s \in Int
  BY TopBit
<1> HIDE DEF rest, s
<1>3. /\ r \in Nat /\ r < Pow2[size] /\ Up(s, c) \in Int
  <2>1. Up(s, c) \in Int
    BY <1>2, Halves
  <2> QED  BY <1>1, <2>1, LowIs
<1>4. a \in Word /\ \A k \in Nat : BitOf(a, k) = BitOf(n, k + c)
  BY <1>1, ShrBits
<1>5. Ones(c) \in Int /\ \A k \in Nat : BitOf(Ones(c), k) = IF k < c THEN 1 ELSE 0
  <2>1. Ones(c) \in Word /\ \A k \in Nat : BitOf(Ones(c), k) = IF k < c THEN 1 ELSE 0
    BY <1>1, OnesBits
  <2> QED  BY <2>1, WordIs
<1>6. b \in Word /\ \A k \in Nat : k < WordBits =>
        BitOf(b, k) = IF k < rest THEN 0 ELSE BitOf(Ones(c), k - rest)
  <2>1. b = Shl(Ones(c), rest)
    BY DEF rest
  <2> HIDE DEF b
  <2> QED  BY <1>1, <1>5, <2>1, ShlBits
<1> HIDE DEF a, b
<1>7. x \in Word /\ \A k \in Nat : k < WordBits =>
        /\ BitOf(a, k) \in {0, 1} /\ BitOf(b, k) \in {0, 1}
        /\ BitOf(x, k) = IF BitOf(a, k) = 0 THEN BitOf(b, k) ELSE 1
  BY <1>4, <1>6, OrWords
<1> HIDE DEF x, r
<1>8. r \in Word
  <2>1. Pow2[size] <= Pow2[WordBits] /\ Pow2[size] \in Nat /\ Pow2[WordBits] \in Nat
    BY <1>1, Pow2Monotone, Pow2Unfold
  <2>2. r < Pow2[WordBits]
    BY <1>3, <2>1
  <2> QED  BY <1>3, <2>2, WordIs
<1>9. ASSUME NEW k \in Nat, k < WordBits
      PROVE  BitOf(x, k) = BitOf(r, k)
  <2>1. BitOf(r, k) = IF k < size THEN BitOf(s, c + k) ELSE 0
    <3>1. BitOf(Low(Up(s, c), size), k) = IF k < size THEN BitOf(Up(s, c), k) ELSE 0
      BY <1>1, <1>3, BitOfLow
    <3>2. BitOf(Up(s, c), k) = BitOf(s, c + k)
      BY <1>2, BitOfUp
    <3> QED  BY <3>1, <3>2 DEF r
  <2>2. BitOf(s, c + k) = IF c + k < size THEN BitOf(n, c + k) ELSE 1
    <3> DEFINE p == c + k
    <3>1. p \in Nat
      OBVIOUS
    <3> HIDE DEF p
    <3>2. BitOf(s, p) = IF p < size THEN BitOf(n, p) ELSE BitOf(n, size - 1)
      BY <3>1, SignedBits DEF s
    <3> QED  BY <3>2 DEF p
  <2>3. BitOf(a, k) = BitOf(n, c + k) /\ BitOf(a, k) \in {0, 1}
    <3>1. k + c = c + k
      OBVIOUS
    <3> QED  BY <1>4, <1>7, <1>9, <3>1
  <2>4. BitOf(b, k) = IF k < rest THEN 0 ELSE IF k < size THEN 1 ELSE 0
    <3>1. BitOf(b, k) = IF k < rest THEN 0 ELSE BitOf(Ones(c), k - rest)
      BY <1>6, <1>9
    <3>2. CASE k < rest
      BY <3>1, <3>2
    <3>3. CASE ~ k < rest
      <4> DEFINE q == k - rest
      <4>1. q \in Nat /\ (q < c <=> k < size)
        BY <1>1, <3>3
      <4> HIDE DEF q
      <4>2. BitOf(Ones(c), q) = IF q < c THEN 1 ELSE 0
        BY <1>5, <4>1
      <4> QED  BY <3>1, <3>3, <4>1, <4>2 DEF q
    <3> QED  BY <3>2, <3>3
  <2>5. BitOf(x, k) = IF BitOf(a, k) = 0 THEN BitOf(b, k) ELSE 1
    BY <1>7, <1>9
  <2>6. CASE k < rest
    <3>1. c + k < size /\ k < size
      BY <1>1, <2>6
    <3> QED  BY <2>1, <2>2, <2>3, <2>4, <2>5, <2>6, <3>1
  <2>7. CASE ~ k < rest /\ k < size
    <3>1. ~ c + k < size
      BY <1>1, <2>7
    <3> QED  BY <2>1, <2>2, <2>3, <2>4, <2>5, <2>7, <3>1
  <2>8. CASE ~ k < size
    <3>1. c + k >= size /\ ~ k < rest
      BY <1>1, <2>8
    <3> DEFINE p == c + k
    <3>2. p \in Nat /\ p >= size
      BY <3>1
    <3> HIDE DEF p
    <3>3. BitOf(n, p) = 0
      BY <1>1, <3>2, BitsAbove
    <3> QED  BY <2>1, <2>3, <2>4, <2>5, <2>8, <3>1, <3>3 DEF p
  <2> QED  BY <2>6, <2>7, <2>8
<1>10. x = r
  BY <1>7, <1>8, <1>9, SameWord
<1> QED  BY <1>3, <1>10 DEF x, a, b, r, s

\* arith_rshift.
LEMMA ArithRshiftIs ==
  ASSUME NEW v, NEW size, NEW n, IsVector(v, size, n), NEW i \in Nat
  PROVE  IsVector(ArithRshift(v, i), size, Low(Up(SignedNumber(size, n), i), size))
<1> DEFINE s == SignedNumber(size, n)
           p == size - 1
           c == IF i >= size THEN size ELSE i
           negative == ReadBit(v, p)
<1>1. /\ v.kind \in {"small", "sparse", "generic"} /\ size \in Nat \ {0} /\ size \in Nat
      /\ v.size = size /\ n \in Nat /\ n \in Int /\ n < Pow2[size] /\ WordBits \in Nat
      /\ (v.kind = "small" <=> size <= WordBits)
  BY VectorIs, WordIs
<1>2. /\ p \in Nat /\ p \in 0 .. size - 1 /\ Pow2[p] \in Nat /\ Pow2[size] = 2 * Pow2[p]
      /\ BitOf(n, p) \in {0, 1} /\ (n >= Pow2[p] <=> BitOf(n, p) = 1) /\ s \in Int
      /\ Pow2[size] \in Nat
  <2>1. p \in Nat /\ p \in 0 .. size - 1
    BY <1>1
  <2> QED  BY <1>1, <2>1, TopBit
<1>3. negative = (BitOf(n, p) = 1)
  BY <1>2, ReadBitIs
<1>4. s = IF BitOf(n, p) = 1 THEN n - Pow2[size] ELSE n
  BY <1>2 DEF SignedNumber
<1>5. i >= size => Up(s, i) = IF BitOf(n, p) = 1 THEN -1 ELSE 0
  <2> SUFFICES ASSUME i >= size PROVE Up(s, i) = IF BitOf(n, p) = 1 THEN -1 ELSE 0
    OBVIOUS
  <2>1. CASE BitOf(n, p) = 1
    <3> DEFINE m == -1 - s
    <3>1. m \in Nat /\ m < Pow2[size] /\ -1 - m = s /\ m \in Int
      BY <1>1, <1>2, <1>4, <2>1
    <3> HIDE DEF m, s
    <3>2. Up(m, i) = 0
      BY <1>1, <3>1, UpIs
    <3>3. Up(-1 - m, i) = -1 - Up(m, i)
      BY <3>1, HalvesOfComplement
    <3> QED  BY <2>1, <3>1, <3>2, <3>3
  <2>2. CASE BitOf(n, p) # 1
    <3>1. s = n
      BY <1>4, <2>2
    <3>2. Up(n, i) = 0
      BY <1>1, UpIs
    <3> QED  BY <2>2, <3>1, <3>2
  <2> QED  BY <2>1, <2>2
<1>6. BitOf(n, p) # 1 => s = n
  BY <1>4
<1>7. Low(0, size) = 0
  <2>1. 0 \in Nat /\ 0 < Pow2[size]
    BY <1>2, Pow2Unfold
  <2> QED  BY <1>1, <2>1, FewBits
<1> HIDE DEF s, p
<1>8. CASE v.kind = "small"
  <2>1. Val(v) = n /\ size <= WordBits
    BY <1>1, <1>8, VectorIs
  <2>2. c \in Nat /\ c <= size /\ (~ i >= size => c = i) /\ (i >= size => c = size)
    BY <1>1
  <2> DEFINE x == IF negative THEN Shr(n, c) | Shl(Ones(c), size - c) ELSE Shr(n, c)
  <2>3. ArithRshift(v, i) = Small(size, x)
    BY <1>1, <1>8, <2>1 DEF ArithRshift, p
  <2> HIDE DEF c, negative
  <2>4. Low(Up(s, c), size) = Low(Up(s, i), size)
    <3>1. CASE ~ i >= size
      BY <2>2, <3>1
    <3>2. CASE i >= size
      <4>1. Up(s, size) = Up(s, i)
        <5>1. size >= size => Up(s, size) = IF BitOf(n, p) = 1 THEN -1 ELSE 0
          <6>1. CASE BitOf(n, p) = 1
            <7> DEFINE m == -1 - s
            <7>1. m \in Nat /\ m < Pow2[size] /\ -1 - m = s /\ m \in Int
              BY <1>1, <1>2, <1>4, <6>1
            <7> HIDE DEF m
            <7>2. Up(m, size) = 0
              BY <1>1, <7>1, FewBits
            <7>3. Up(-1 - m, size) = -1 - Up(m, size)
              BY <1>1, <7>1, HalvesOfComplement
            <7> QED  BY <6>1, <7>1, <7>2, <7>3
          <6>2. CASE BitOf(n, p) # 1
            <7>1. Up(n, size) = 0
              BY <1>1, FewBits
            <7> QED  BY <1>6, <6>2, <7>1
          <6> QED  BY <6>1, <6>2
        <5>2. size >= size
          BY <1>1
        <5> QED  BY <1>5, <3>2, <5>1, <5>2
      <4> QED  BY <2>2, <3>2, <4>1
    <3> QED  BY <3>1, <3>2
  <2>5. x = Low(Up(s, c), size) /\ x \in Nat /\ x < Pow2[size]
    <3>1. CASE negative
      <4>1. BitOf(n, size - 1) = 1
        BY <1>3, <3>1 DEF p
      <4> QED  BY <1>1, <2>1, <2>2, <3>1, <4>1, SmallShiftedArithmetically DEF s
    <3>2. CASE ~ negative
      <4>1. s = n
        BY <1>3, <1>6, <3>2
      <4>2. /\ Up(n, c) \in Nat /\ Up(n, c) < Pow2[size] /\ Low(Up(n, c), size) = Up(n, c)
            /\ Shr(n, c) = Up(n, c)
        BY <1>1, <2>2, UpIs
      <4> QED  BY <3>2, <4>1, <4>2
    <3> QED  BY <3>1, <3>2
  <2> HIDE DEF x
  <2>6. IsVector(Small(size, x), size, x)
    <3>1. Low(x, size) = x
      BY <1>1, <2>5, FewBits
    <3>2. IsVector(Small(size, RuintMask(size, x)), size, Low(x, size))
      BY <1>1, <2>1, <2>5, IsSmall
    <3>3. RuintMask(size, x) = Low(x, size)
      BY DEF RuintMask, Low
    <3> QED  BY <3>1, <3>2, <3>3
  <2> QED  BY <2>3, <2>4, <2>5, <2>6 DEF s
<1>9. CASE v.kind = "sparse"
  <2>1. ArithRshift(v, i) = Rshift(v, i)
    BY <1>9 DEF ArithRshift
  <2>2. s = n
    <3>1. n \in Word /\ size > WordBits
      <4>1. n \in Word
        BY <1>9, VectorIs
      <4> QED  BY <1>1, <1>9, <4>1
    <3>2. WordBits <= p
      BY <1>1, <3>1 DEF p
    <3>3. BitOf(n, p) = 0
      BY <1>2, <3>1, <3>2, WordIsWordAt
    <3> QED  BY <1>6, <3>3
  <2> QED  BY <2>1, <2>2, RshiftIs DEF s
<1>10. CASE v.kind = "generic"
  <2> DEFINE j == RshiftInteger(Signed(v), i)
             ones == [k \in DOMAIN v.data |-> Base - 1]
  <2>1. ArithRshift(v, i) = IF i < size THEN Slice(j, size, 0)
                            ELSE IF negative THEN MakeGeneric(v, ones) ELSE Sparse(size, 0)
    BY <1>1, <1>10 DEF ArithRshift, p
  <2>2. CASE i < size
    <3> DEFINE z == 0
    <3>1. Signed(v) \in SailInteger /\ ToBigint(Signed(v)) = s
      BY SignedVectorIs DEF IsExact, s
    <3>2. j \in SailInteger /\ ToBigint(j) = Up(s, i)
      BY <3>1, RshiftIntegerIs DEF IsExact
    <3>3. Up(s, i) \in Int
      BY <1>2, Halves
    <3>4. z \in Nat
      OBVIOUS
    <3> HIDE DEF j, z
    <3>5. IsVector(Slice(j, size, z), size, Low(Up(ToBigint(j), z), size))
      BY <1>1, <3>2, <3>4, SliceIs
    <3>6. Up(Up(s, i), 0) = Up(s, i)
      BY <3>3, NoBits
    <3> QED  BY <2>1, <2>2, <3>2, <3>5, <3>6 DEF z, s
  <2>3. CASE ~ i < size /\ negative
    <3>1. Up(s, i) = -1
      <4>1. i >= size
        BY <1>1, <2>3
      <4>2. BitOf(n, p) = 1
        BY <1>3, <2>3
      <4> QED  BY <1>5, <4>1, <4>2
    <3>2. size > WordBits /\ v.data = WordsOf(n, DataSize(size)) /\ DataSize(size) \in Nat
      BY <1>10, GenericIs
    <3>3. DOMAIN v.data = 1 .. DataSize(size)
      BY <1>1, <3>2, WordsOfIs
    <3> DEFINE y == -1
    <3>4. y \in Int
      OBVIOUS
    <3> HIDE DEF y
    <3>5. ones = WordsOf(y, DataSize(size))
      <4>1. ASSUME NEW k \in 1 .. DataSize(size)
            PROVE  Base - 1 = WordAt(y, First(k))
        <5> DEFINE f == First(k)
        <5>1. f \in Nat
          BY <3>2, <3>4, WordsOfIs
        <5> HIDE DEF f
        <5>2. Base - 1 = Ones(WordBits) /\ WordBits <= WordBits
          BY <1>1, WordIs DEF Ones
        <5>3. Ones(WordBits) \in Word /\ \A q \in Nat : BitOf(Ones(WordBits), q) = IF q < WordBits THEN 1 ELSE 0
          BY <1>1, <5>2, OnesBits
        <5>4. \A q \in Nat : BitOf(y, q) = 1
          <6>1. ASSUME NEW q \in Nat PROVE BitOf(y, q) = 1
            <7> DEFINE z == 0
            <7>1. z \in Int
              OBVIOUS
            <7>2. BitOf(z, q) = 0
              BY BitsOfZero
            <7> HIDE DEF z
            <7>3. BitOf(-1 - z, q) = 1 - BitOf(z, q)
              BY <7>1, BitsOfComplement
            <7>4. -1 - z = y
              BY DEF y, z
            <7> QED  BY <7>2, <7>3, <7>4
          <6> QED  BY <6>1
        <5> DEFINE o == Ones(WordBits)
        <5>5. o \in Word /\ \A q \in Nat : q < WordBits => BitOf(o, q) = BitOf(y, f + q)
          BY <5>1, <5>3, <5>4
        <5> HIDE DEF o
        <5>6. o = WordAt(y, f)
          BY <3>4, <5>1, <5>5, IsWordAt
        <5> QED  BY <5>2, <5>6 DEF o, f
      <4> QED  BY <3>3, <4>1 DEF WordsOf
    <3> HIDE DEF ones
    <3>6. IsVector(MakeGeneric(v, WordsOf(y, DataSize(size))), size, Low(y, size))
      BY <1>1, <3>2, <3>4, IsGeneric
    <3> QED  BY <2>1, <2>3, <3>1, <3>5, <3>6 DEF y, s
  <2>4. CASE ~ i < size /\ ~ negative
    <3>1. Up(s, i) = 0
      <4>1. i >= size
        BY <1>1, <2>4
      <4>2. BitOf(n, p) # 1
        BY <1>3, <2>4
      <4> QED  BY <1>5, <4>1, <4>2
    <3>2. 0 \in Word /\ size > WordBits
      BY <1>1, <1>10, WordIs
    <3>3. IsVector(Sparse(size, 0), size, 0)
      BY <1>1, <3>2, IsSparse
    <3> QED  BY <1>7, <2>1, <2>4, <3>1, <3>3 DEF s
  <2> QED  BY <2>2, <2>3, <2>4
<1> QED  BY <1>1, <1>8, <1>9, <1>10

-----------------------------------------------------------------------------
(***************************************************************************)
(* Vectors joined.                                                         *)
(***************************************************************************)

\* Two numbers that fit one word together.
LEMMA JoinedWord ==
  ASSUME NEW a \in Nat, NEW s \in Nat, a + s <= WordBits,
         NEW x \in Nat, x < Pow2[a], NEW n \in Nat, n < Pow2[s]
  PROVE  /\ (Shl(x, s) | n) = Pow2[s] * x + n
         /\ Pow2[s] * x + n \in Nat /\ Pow2[s] * x + n < Pow2[a + s]
<1> DEFINE r == Pow2[s] * x + n
           b == Shl(x, s)
           y == b | n
<1>1. r \in Nat /\ r < Pow2[s + a] /\ s + a = a + s
  BY MoreBits
<1>2. a + s \in Nat /\ WordBits \in Nat /\ s <= WordBits /\ x \in Int
  BY WordIs
<1>3. r \in Word /\ n \in Word
  <2>1. /\ Pow2[a + s] <= Pow2[WordBits] /\ Pow2[s] <= Pow2[WordBits]
        /\ Pow2[a + s] \in Nat /\ Pow2[s] \in Nat /\ Pow2[WordBits] \in Nat
    BY <1>2, Pow2Monotone, Pow2Unfold
  <2> HIDE DEF r
  <2>2. r < Pow2[WordBits] /\ n < Pow2[WordBits]
    BY <1>1, <2>1
  <2> QED  BY <1>1, <2>2, WordIs
<1>4. b \in Word /\ \A k \in Nat : k < WordBits => BitOf(b, k) = IF k < s THEN 0 ELSE BitOf(x, k - s)
  BY <1>2, ShlBits
<1> HIDE DEF b
<1>5. y \in Word /\ \A k \in Nat : k < WordBits =>
        /\ BitOf(b, k) \in {0, 1} /\ BitOf(n, k) \in {0, 1}
        /\ BitOf(y, k) = IF BitOf(b, k) = 0 THEN BitOf(n, k) ELSE 1
  BY <1>3, <1>4, OrWords
<1> HIDE DEF y
<1>6. ASSUME NEW k \in Nat, k < WordBits
      PROVE  BitOf(y, k) = BitOf(r, k)
  <2>1. BitOf(r, k) = IF k < s THEN BitOf(n, k) ELSE BitOf(x, k - s)
    BY <1>2, BitsOfSum
  <2>2. /\ BitOf(b, k) = IF k < s THEN 0 ELSE BitOf(x, k - s)
        /\ BitOf(b, k) \in {0, 1}
        /\ BitOf(y, k) = IF BitOf(b, k) = 0 THEN BitOf(n, k) ELSE 1
    BY <1>4, <1>5, <1>6
  <2> HIDE DEF r
  <2>3. CASE k < s
    BY <2>1, <2>2, <2>3
  <2>4. CASE ~ k < s
    <3>1. BitOf(n, k) = 0
      <4>1. k >= s
        BY <2>4
      <4> QED  BY <4>1, BitsAbove
    <3> QED  BY <2>1, <2>2, <2>4, <3>1
  <2> QED  BY <2>3, <2>4
<1> HIDE DEF r
<1>7. y = r
  BY <1>3, <1>5, <1>6, SameWord
<1> QED  BY <1>1, <1>7 DEF y, b, r

\* A vector with another word.
LEMMA DataSizeOfMore ==
  ASSUME NEW size \in Nat
  PROVE  DataSize(size + WordBits) = DataSize(size) + 1
<1>1. WordBits \in Nat \ {0} /\ size \in Int /\ 1 \in Int
  BY WordIs
<1>2. /\ (size + WordBits * 1) \div WordBits = (size \div WordBits) + 1
      /\ (size + WordBits * 1) % WordBits = size % WordBits
  BY <1>1, QuotientOfSum
<1>3. WordBits * 1 = WordBits /\ size + WordBits \in Nat
  BY <1>1
<1>4. WordIndex(size) \in Nat /\ BitIndex(size) \in Nat
  BY IndexIs
<1>5. WordIndex(size + WordBits) = WordIndex(size) + 1 /\ BitIndex(size + WordBits) = BitIndex(size)
  BY <1>2, <1>3 DEF WordIndex, BitIndex
<1>6. Bit(BitIndex(size) # 0) \in Nat
  BY DEF Bit
<1> DEFINE b == Bit(BitIndex(size) # 0)
<1>7. DataSize(size) = WordIndex(size) + b /\ DataSize(size + WordBits) = (WordIndex(size) + 1) + b
  BY <1>5 DEF DataSize
<1> HIDE DEF b
<1> QED  BY <1>4, <1>6, <1>7 DEF b

\* a word below the words of a number
LEMMA WordBelow ==
  ASSUME NEW n \in Nat, NEW m \in Word, NEW len \in Nat
  PROVE  /\ Pow2[WordBits] * n + m \in Nat
         /\ \A k \in 1 .. len + 1 :
              WordAt(Pow2[WordBits] * n + m, First(k)) =
                IF k = 1 THEN m ELSE WordsOf(n, len)[k - 1]
<1> DEFINE r == Pow2[WordBits] * n + m
<1>1. n \in Int /\ m \in Nat /\ m < Pow2[WordBits] /\ WordBits \in Nat /\ Pow2[WordBits] \in Nat
  BY WordIs, WordIsWordAt
<1>2. r \in Nat /\ r \in Int
  BY <1>1
<1>3. ASSUME NEW k \in 1 .. len + 1
      PROVE  WordAt(r, First(k)) = IF k = 1 THEN m ELSE WordsOf(n, len)[k - 1]
  <2> DEFINE f == First(k)
             p == First(k - 1)
  <2>0. k \in Nat \ {0}
    OBVIOUS
  <2>1. f \in Nat
    BY <2>0, FirstIs
  <2>2. CASE k = 1
    <3>1. f = 0
      BY <2>2, FirstIs
    <3>2. ASSUME NEW j \in Nat, j < WordBits
          PROVE  BitOf(m, j) = BitOf(r, j)
      BY <1>1, <3>2, BitsOfSum
    <3> DEFINE z == 0
    <3>3. z \in Nat /\ \A j \in Nat : j < WordBits => BitOf(m, j) = BitOf(r, z + j)
      BY <3>2
    <3> HIDE DEF z, r
    <3>4. m = WordAt(r, z)
      BY <1>2, <3>3, IsWordAt
    <3> QED  BY <2>2, <3>1, <3>4 DEF z
  <2>3. CASE k # 1
    <3>1. k - 1 \in 1 .. len /\ k - 1 \in Nat \ {0} /\ (k - 1) + 1 = k
      BY <2>3
    <3>2. p \in Nat /\ f = p + WordBits
      <4> DEFINE q == k - 1
      <4>1. q \in Nat \ {0} /\ q + 1 = k
        BY <3>1
      <4> HIDE DEF q
      <4>2. First(q) \in Nat /\ First(q + 1) = First(q) + WordBits
        BY <4>1, FirstIs
      <4> QED  BY <4>1, <4>2 DEF q
    <3>3. WordsOf(n, len)[k - 1] = WordAt(n, p)
      <4> DEFINE q == k - 1
      <4>1. q \in 1 .. len
        BY <3>1
      <4> HIDE DEF q
      <4>2. WordsOf(n, len)[q] = WordAt(n, First(q))
        BY <1>1, <4>1, WordsOfIs
      <4> QED  BY <4>2 DEF q
    <3> HIDE DEF f, p
    <3>4. WordAt(n, p) \in Word /\ \A j \in Nat : j < WordBits => BitOf(WordAt(n, p), j) = BitOf(n, p + j)
      BY <1>1, <3>2, WordAtIs
    <3>5. ASSUME NEW j \in Nat, j < WordBits
          PROVE  BitOf(WordAt(n, p), j) = BitOf(r, f + j)
      <4> DEFINE x == f + j
                 y == x - WordBits
      <4>1. x \in Nat /\ ~ x < WordBits /\ y = p + j
        BY <1>1, <3>2
      <4> HIDE DEF x
      <4>2. BitOf(r, x) = IF x < WordBits THEN BitOf(m, x) ELSE BitOf(n, x - WordBits)
        BY <1>1, <4>1, BitsOfSum
      <4>3. BitOf(WordAt(n, p), j) = BitOf(n, p + j)
        BY <3>4, <3>5
      <4> QED  BY <4>1, <4>2, <4>3 DEF x
    <3>6. WordAt(n, p) = WordAt(r, f)
      <4> DEFINE y == WordAt(n, p)
      <4> HIDE DEF y, r
      <4>1. y \in Word /\ \A j \in Nat : j < WordBits => BitOf(y, j) = BitOf(r, f + j)
        BY <3>4, <3>5 DEF y
      <4>2. y = WordAt(r, f)
        BY <1>2, <2>1, <4>1, IsWordAt DEF f
      <4> QED  BY <4>2 DEF y
    <3> QED  BY <2>3, <3>3, <3>6 DEF f
  <2> QED  BY <2>2, <2>3
<1> QED  BY <1>2, <1>3

\* append_64.
LEMMA AppendWordIs ==
  ASSUME NEW v, NEW size, NEW n, IsVector(v, size, n), NEW m \in Word
  PROVE  IsVector(AppendWord(v, m), size + WordBits, Pow2[WordBits] * n + m)
<1> DEFINE r == Pow2[WordBits] * n + m
           full == size + WordBits
           len == DataSize(size)
<1>1. /\ v.kind \in {"small", "sparse", "generic"} /\ size \in Nat \ {0} /\ size \in Nat
      /\ v.size = size /\ n \in Nat /\ n < Pow2[size] /\ WordBits \in Nat /\ n \in Int
      /\ m \in Nat /\ m < Pow2[WordBits]
  BY VectorIs, WordIs
<1>2. r \in Nat /\ r < Pow2[full]
  <2>1. Pow2[WordBits] * n + m \in Nat /\ Pow2[WordBits] * n + m < Pow2[WordBits + size]
    BY <1>1, MoreBits
  <2>2. WordBits + size = full
    BY <1>1
  <2> QED  BY <2>1, <2>2
<1>3. full \in Nat \ {0} /\ full > WordBits /\ ~ full <= WordBits
  BY <1>1
<1>4. len \in Nat /\ DataSize(full) = len + 1 /\ len >= 1
  <2>1. DataSize(size) \in Nat \ {0}
    BY <1>1, DataSizeIs
  <2> QED  BY <1>1, <2>1, DataSizeOfMore
<1>5. \A k \in 1 .. len + 1 : WordAt(r, First(k)) = IF k = 1 THEN m ELSE WordsOf(n, len)[k - 1]
  BY <1>1, <1>4, WordBelow
<1>6. /\ WordsOf(n, len) \in Arrays /\ Len(WordsOf(n, len)) = len
      /\ \A k \in 1 .. len : WordsOf(n, len)[k] = WordAt(n, First(k))
  BY <1>1, <1>4, WordsOfIs
<1>7. IsVector(Generic(full, WordsOf(r, DataSize(full))), full, r)
  <2> HIDE DEF r, full
  <2> QED  BY <1>2, <1>3, IsGeneric
<1>8. WordsOf(r, DataSize(full)) = [k \in 1 .. len + 1 |-> IF k = 1 THEN m ELSE WordsOf(n, len)[k - 1]]
  <2> HIDE DEF r, full, len
  <2> QED  BY <1>4, <1>5 DEF WordsOf
<1> HIDE DEF r
<1>9. CASE v.kind # "generic" /\ n = 0
  <2>1. AppendWord(v, m) = Sparse(full, m)
    <3>1. Val(v) = n
      BY <1>1, <1>9, VectorIs
    <3> QED  BY <1>1, <1>3, <1>9, <3>1 DEF AppendWord, FromRuint
  <2>2. r = m
    <3>1. Pow2[WordBits] \in Nat
      BY <1>1, Pow2Unfold
    <3> QED  BY <1>1, <1>9, <3>1 DEF r
  <2> HIDE DEF full
  <2>3. IsVector(Sparse(full, m), full, m)
    BY <1>3, IsSparse
  <2> QED  BY <2>1, <2>2, <2>3 DEF r, full
<1>10. CASE v.kind # "generic" /\ n # 0
  <2>1. Val(v) = n /\ n \in Word
    BY <1>1, <1>10, VectorIs
  <2>2. AppendWord(v, m) = Generic(full, [k \in 1 .. DataSize(full) |->
                              IF k = 1 THEN m ELSE IF k = 2 THEN n ELSE 0])
    BY <1>1, <1>10, <2>1 DEF AppendWord
  <2> HIDE DEF full, len
  <2>3. ASSUME NEW k \in 1 .. len + 1, k # 1
        PROVE  WordsOf(n, len)[k - 1] = IF k = 2 THEN n ELSE 0
    <3> DEFINE q == k - 1
    <3>1. q \in 1 .. len /\ q \in Nat \ {0} /\ (k = 2 <=> q = 1)
      BY <1>4, <2>3
    <3> HIDE DEF q
    <3>2. WordsOf(n, len)[q] = WordAt(n, First(q))
      BY <1>6, <3>1
    <3>3. CASE q = 1
      <4>1. First(1) = 0 /\ n = WordAt(n, 0)
        BY <2>1, FirstIs, WordIsWordAt
      <4> QED  BY <3>1, <3>2, <3>3, <4>1 DEF q
    <3>4. CASE q # 1
      <4> DEFINE f == First(q)
      <4>1. f \in Nat /\ f >= WordBits
        <5>1. 1 \in Nat \ {0} /\ 1 < q
          BY <3>1, <3>4
        <5>2. First(1) + WordBits <= First(q) /\ First(1) = 0 /\ First(q) \in Nat
          BY <3>1, <5>1, FirstIs
        <5> QED  BY <1>1, <5>2
      <4> HIDE DEF f
      <4>2. n < Pow2[WordBits]
        BY <2>1, WordIs
      <4>3. Up(n, f) = 0
        BY <1>1, <4>1, <4>2, UpIs
      <4>4. Low(0, WordBits) = 0
        <5>1. 0 \in Nat /\ 0 < Pow2[WordBits]
          BY <1>1, Pow2Unfold
        <5> QED  BY <1>1, <5>1, FewBits
      <4> QED  BY <3>1, <3>2, <3>4, <4>3, <4>4 DEF WordAt, f, q
    <3> QED  BY <3>3, <3>4
  <2>4. WordsOf(r, DataSize(full)) = [k \in 1 .. DataSize(full) |->
                              IF k = 1 THEN m ELSE IF k = 2 THEN n ELSE 0]
    BY <1>4, <1>8, <2>3
  <2> QED  BY <1>7, <2>2, <2>4 DEF r, full
<1>11. CASE v.kind = "generic"
  <2>1. AppendWord(v, m) = Generic(full, <<m>> \o v.data)
    BY <1>1, <1>11 DEF AppendWord
  <2>2. v.data = WordsOf(n, len)
    BY <1>11, GenericIs
  <2> DEFINE d == WordsOf(n, len)
  <2> HIDE DEF full, len, d
  <2>3. <<m>> \o d = [k \in 1 .. len + 1 |-> IF k = 1 THEN m ELSE d[k - 1]]
    <3>1. d \in Seq(Word) /\ Len(d) = len
      BY <1>6 DEF Arrays, d
    <3> QED  BY <1>4, <3>1
  <2>4. <<m>> \o d = WordsOf(r, DataSize(full))
    BY <1>8, <2>3 DEF d
  <2> QED  BY <1>7, <2>1, <2>2, <2>4 DEF r, full, d
<1> QED  BY <1>1, <1>9, <1>10, <1>11

\* The words of a vector, with zeros above those it keeps.
LEMMA WordsOfVector ==
  ASSUME NEW v, NEW size, NEW n, IsVector(v, size, n), NEW k \in Nat \ {0}
  PROVE  /\ First(k) \in Nat
         /\ WordAt(n, First(k)) = IF k \in DOMAIN v.data THEN v.data[k] ELSE 0
<1> DEFINE d == v.data
           len == Len(d)
           f == First(k)
<1>1. d \in Arrays /\ ValueOf(d) = n /\ n \in Nat /\ n \in Int
  BY VectorIs
<1>2. len \in Nat /\ n < Pow2[WordBits * len] /\ d = WordsOf(n, len) /\ WordBits \in Nat
  BY <1>1, ArraysAreWords, WordIs
<1>3. f \in Nat
  BY FirstIs
<1>4. DOMAIN d = 1 .. len /\ \A j \in 1 .. len : d[j] = WordAt(n, First(j))
  <2> HIDE DEF d, len
  <2>1. DOMAIN WordsOf(n, len) = 1 .. len /\ \A j \in 1 .. len : WordsOf(n, len)[j] = WordAt(n, First(j))
    BY <1>1, <1>2, WordsOfIs
  <2> QED  BY <1>2, <2>1
<1> HIDE DEF d, len
<1>5. CASE k \in 1 .. len
  BY <1>3, <1>4, <1>5 DEF d
<1>6. CASE k \notin 1 .. len
  <2> DEFINE w == WordBits * len
  <2>1. w \in Nat
    BY <1>2
  <2>2. w <= f
    <3>1. len \in Int /\ k - 1 \in Int /\ WordBits \in Int /\ WordBits >= 0 /\ len <= k - 1
      BY <1>2, <1>6
    <3> DEFINE q == k - 1
    <3> HIDE DEF q
    <3>2. WordBits * len <= WordBits * q
      BY <3>1, ProductMonotone DEF q
    <3> QED  BY <3>2 DEF q, First
  <2>3. n < Pow2[w]
    BY <1>2
  <2> HIDE DEF w, f
  <2>4. Up(n, f) = 0
    BY <1>1, <1>3, <2>1, <2>2, <2>3, UpIs
  <2>5. Low(0, WordBits) = 0
    <3>1. 0 \in Nat /\ 0 < Pow2[WordBits]
      BY <1>2, Pow2Unfold
    <3> QED  BY <1>2, <3>1, FewBits
  <2> QED  BY <1>3, <1>4, <1>6, <2>4, <2>5 DEF WordAt, f, d
<1> QED  BY <1>5, <1>6

\* Numbers joined: the bits of the upper one, shifted, or the lower one's.
LEMMA JoinedBits ==
  ASSUME NEW n \in Nat, NEW s \in Nat, NEW m \in Nat, m < Pow2[s], NEW k \in Nat
  PROVE  /\ BitOf(Pow2[s] * n, k) \in {0, 1} /\ BitOf(m, k) \in {0, 1}
         /\ BitOf(Pow2[s] * n + m, k) =
              IF BitOf(Pow2[s] * n, k) = 0 THEN BitOf(m, k) ELSE 1
<1> DEFINE y == Pow2[s] * n
           r == y + m
<1>1. Pow2[s] \in Nat /\ n \in Int /\ m \in Int
  BY Pow2Unfold
<1>2. y \in Nat /\ r \in Nat /\ y \in Int /\ r \in Int
  BY <1>1
<1>3. BitOf(y, k) = IF k < s THEN 0 ELSE BitOf(n, k - s)
  BY <1>1, BitsOfProduct
<1>4. BitOf(r, k) = IF k < s THEN BitOf(m, k) ELSE BitOf(n, k - s)
  BY <1>1, BitsOfSum
<1> HIDE DEF y, r
<1>5. BitOf(y, k) \in {0, 1} /\ BitOf(m, k) \in {0, 1}
  BY <1>1, <1>2, BitIs
<1>6. CASE k < s
  BY <1>3, <1>4, <1>5, <1>6 DEF y, r
<1>7. CASE ~ k < s
  <2>1. k >= s
    BY <1>7
  <2>2. BitOf(m, k) = 0
    BY <2>1, BitsAbove
  <2> QED  BY <1>3, <1>4, <1>5, <1>7, <2>2 DEF y, r
<1> QED  BY <1>6, <1>7

\* every bit of r is set in y or in m
IsJoined(r, y, m) ==
  \A k \in Nat : /\ BitOf(y, k) \in {0, 1}
                 /\ BitOf(r, k) = IF BitOf(y, k) = 0 THEN BitOf(m, k) ELSE 1

\* Numbers whose bits are joined have words that are.
LEMMA JoinedWords ==
  ASSUME NEW y \in Nat, NEW m \in Nat, NEW r \in Nat,
         IsJoined(r, y, m),
         NEW p \in Nat
  PROVE  (WordAt(y, p) | WordAt(m, p)) = WordAt(r, p)
<1> DEFINE a == WordAt(y, p)
           b == WordAt(m, p)
           c == a | b
<1>2. y \in Int /\ r \in Int /\ m \in Int
  OBVIOUS
<1>4. a \in Word /\ \A j \in Nat : j < WordBits => BitOf(a, j) = BitOf(y, p + j)
  BY <1>2, WordAtIs
<1>5. b \in Word /\ \A j \in Nat : j < WordBits => BitOf(b, j) = BitOf(m, p + j)
  BY <1>2, WordAtIs
<1> HIDE DEF a, b
<1>6. c \in Word /\ \A j \in Nat : j < WordBits =>
        BitOf(c, j) = IF BitOf(a, j) = 0 THEN BitOf(b, j) ELSE 1
  BY <1>4, <1>5, OrWords
<1> HIDE DEF c
<1>7. ASSUME NEW j \in Nat, j < WordBits PROVE BitOf(c, j) = BitOf(r, p + j)
  <2> DEFINE q == p + j
  <2>1. q \in Nat
    OBVIOUS
  <2> HIDE DEF q
  <2>2. BitOf(r, q) = IF BitOf(y, q) = 0 THEN BitOf(m, q) ELSE 1
    BY <2>1 DEF IsJoined
  <2>3. /\ BitOf(c, j) = IF BitOf(a, j) = 0 THEN BitOf(b, j) ELSE 1
        /\ BitOf(a, j) = BitOf(y, q) /\ BitOf(b, j) = BitOf(m, q)
    BY <1>4, <1>5, <1>6, <1>7 DEF q
  <2> QED  BY <2>2, <2>3 DEF q
<1>8. c = WordAt(r, p)
  BY <1>2, <1>6, <1>7, IsWordAt
<1> QED  BY <1>8 DEF a, b, c

\* Where the lower number has no bits left, the words are the upper one's.
LEMMA JoinedWithZero ==
  ASSUME NEW y \in Nat, NEW m \in Nat, NEW r \in Nat,
         IsJoined(r, y, m),
         NEW p \in Nat, WordAt(m, p) = 0
  PROVE  WordAt(y, p) = WordAt(r, p)
<1> DEFINE a == WordAt(y, p)
           b == WordAt(m, p)
<1>2. y \in Int /\ r \in Int /\ m \in Int
  OBVIOUS
<1>4. a \in Word /\ \A j \in Nat : j < WordBits => BitOf(a, j) = BitOf(y, p + j)
  BY <1>2, WordAtIs
<1>5. b = 0 /\ \A j \in Nat : j < WordBits => BitOf(b, j) = BitOf(m, p + j)
  BY <1>2, WordAtIs
<1> HIDE DEF a, b
<1>6. ASSUME NEW j \in Nat, j < WordBits PROVE BitOf(a, j) = BitOf(r, p + j)
  <2> DEFINE q == p + j
  <2>1. q \in Nat
    OBVIOUS
  <2>2. BitOf(b, j) = 0
    BY <1>5, BitsOfZero
  <2> HIDE DEF q
  <2>3. /\ BitOf(r, q) = IF BitOf(y, q) = 0 THEN BitOf(m, q) ELSE 1
        /\ BitOf(y, q) \in {0, 1}
    BY <2>1 DEF IsJoined
  <2>4. BitOf(a, j) = BitOf(y, q) /\ BitOf(b, j) = BitOf(m, q)
    BY <1>4, <1>5, <1>6 DEF q
  <2> QED  BY <2>2, <2>3, <2>4 DEF q
<1>7. a = WordAt(r, p)
  BY <1>2, <1>4, <1>6, IsWordAt
<1> QED  BY <1>7 DEF a

\* The representations that the shift in append can give.
LEMMA ShiftedKind ==
  ASSUME NEW u, NEW size, NEW n, IsVector(u, size, n), size > WordBits,
         NEW i \in Nat \ {0}, i < size, Lshift(u, i).kind = "sparse"
  PROVE  i < WordBits
<1>1. /\ u.kind \in {"small", "sparse", "generic"} /\ size \in Nat \ {0} /\ u.size = size /\ WordBits \in Nat
      /\ u.kind = "small" <=> size <= WordBits
  BY VectorIs, WordIs
<1>2. ASSUME NEW v, v.size = size
      PROVE  LshiftGeneric(v, i).kind = "generic"
  <2>1. i # 0 /\ ~ i >= size
    BY <1>1
  <2> QED  BY <1>2, <2>1 DEF LshiftGeneric, MakeGeneric, Generic
<1>3. u.kind = "generic" => Lshift(u, i).kind = "generic"
  <2> SUFFICES ASSUME u.kind = "generic" PROVE Lshift(u, i).kind = "generic"
    OBVIOUS
  <2>1. Lshift(u, i) = LshiftGeneric(u, i)
    BY DEF Lshift
  <2> QED  BY <1>1, <1>2, <2>1
<1>4. u.kind = "sparse" /\ ~ i < WordBits => Lshift(u, i).kind = "generic"
  <2> SUFFICES ASSUME u.kind = "sparse", ~ i < WordBits PROVE Lshift(u, i).kind = "generic"
    OBVIOUS
  <2>1. Lshift(u, i) = LshiftGeneric(ToGeneric(u), i)
    BY DEF Lshift
  <2>2. ToGeneric(u).size = size
    BY <1>1 DEF ToGeneric, Generic
  <2> QED  BY <1>2, <2>1, <2>2
<1>5. u.kind # "small"
  BY <1>1
<1> QED  BY <1>1, <1>3, <1>4, <1>5

\* append.
LEMMA AppendBitsIs ==
  ASSUME NEW v, NEW size, NEW n, IsVector(v, size, n),
         NEW w, NEW width, NEW m, IsVector(w, width, m)
  PROVE  /\ IsVector(AppendBits(v, w), size + width, Pow2[width] * n + m)
         /\ Pow2[width] * n + m \in Nat /\ Pow2[width] * n + m < Pow2[size + width]
<1> DEFINE full == size + width
           y == Pow2[width] * n
           r == y + m
           u == ZeroExtend(v, full)
           shifted == Lshift(u, width)
<1>1. /\ size \in Nat \ {0} /\ size \in Nat /\ v.size = size /\ n \in Nat /\ n < Pow2[size]
      /\ width \in Nat \ {0} /\ width \in Nat /\ w.size = width /\ m \in Nat /\ m < Pow2[width]
      /\ WordBits \in Nat /\ n \in Int /\ m \in Int
  BY VectorIs, WordIs
<1>2. full \in Nat \ {0} /\ full \in Nat /\ width < full /\ full >= size /\ width + size = full
  BY <1>1
<1>3. r \in Nat /\ r < Pow2[full]
  <2>1. Pow2[width] * n + m \in Nat /\ Pow2[width] * n + m < Pow2[width + size]
    BY <1>1, MoreBits
  <2> QED  BY <1>2, <2>1
<1>4. CASE full <= WordBits
  <2>1. AppendBits(v, w) = FromRuint(full, Shl(Val(v), width) | Val(w))
    BY <1>1, <1>4 DEF AppendBits
  <2>2. Val(v) = n /\ Val(w) = m
    <3>1. v.kind = "small" <=> size <= WordBits
      BY VectorIs
    <3>2. w.kind = "small" <=> width <= WordBits
      BY VectorIs
    <3>3. v.kind = "small" /\ w.kind = "small"
      BY <1>1, <1>4, <3>1, <3>2
    <3> QED  BY <3>3, VectorIs
  <2>3. (Shl(n, width) | m) = r
    BY <1>1, <1>4, JoinedWord
  <2>4. FromRuint(full, r) = Small(full, RuintMask(full, r))
    BY <1>4 DEF FromRuint
  <2> HIDE DEF r, full
  <2>5. IsVector(Small(full, RuintMask(full, r)), full, Low(r, full))
    BY <1>2, <1>3, <1>4, IsSmall
  <2>6. Low(r, full) = r
    BY <1>2, <1>3, FewBits
  <2> QED  BY <1>3, <2>1, <2>2, <2>3, <2>4, <2>5, <2>6 DEF r, full
<1>5. CASE full > WordBits /\ w.kind = "small" /\ width = WordBits
  <2>1. AppendBits(v, w) = AppendWord(v, Val(w))
    BY <1>1, <1>5 DEF AppendBits
  <2>2. Val(w) = m /\ m \in Word
    BY <1>5, VectorIs
  <2>3. IsVector(AppendWord(v, m), size + WordBits, Pow2[WordBits] * n + m)
    BY <2>2, AppendWordIs
  <2> QED  BY <1>3, <1>5, <2>1, <2>2, <2>3
<1>6. CASE full > WordBits /\ ~ (w.kind = "small" /\ width = WordBits)
  <2> DEFINE joined == [k \in DOMAIN shifted.data |->
                          IF k \in DOMAIN w.data THEN shifted.data[k] | w.data[k]
                                                 ELSE shifted.data[k]]
             len == DataSize(full)
  <2>1. AppendBits(v, w) = [shifted EXCEPT !.data = joined]
    BY <1>1, <1>6 DEF AppendBits
  <2>2. IsVector(u, full, n)
    BY <1>2, ZeroExtendIs
  <2>3. IsVector(shifted, full, y) /\ y \in Nat
    <3> HIDE DEF u, full
    <3>1. IsVector(shifted, full, Low(n * Pow2[width], full))
      BY <1>1, <2>2, LshiftIs
    <3>2. Pow2[width] \in Nat
      BY <1>1, Pow2Unfold
    <3>3. n * Pow2[width] = y /\ y \in Nat /\ y <= r
      BY <1>1, <3>2
    <3>4. Pow2[full] \in Nat
      BY <1>2, Pow2Unfold
    <3> HIDE DEF y, r
    <3>5. y < Pow2[full]
      BY <1>3, <3>3, <3>4
    <3>6. Low(y, full) = y
      BY <1>2, <3>3, <3>5, FewBits
    <3> QED  BY <3>1, <3>3, <3>6
  <2>4. \A k \in Nat : /\ BitOf(y, k) \in {0, 1} /\ BitOf(m, k) \in {0, 1}
                       /\ BitOf(r, k) = IF BitOf(y, k) = 0 THEN BitOf(m, k) ELSE 1
    <3> SUFFICES ASSUME NEW k \in Nat
                 PROVE  /\ BitOf(y, k) \in {0, 1} /\ BitOf(m, k) \in {0, 1}
                        /\ BitOf(r, k) = IF BitOf(y, k) = 0 THEN BitOf(m, k) ELSE 1
      OBVIOUS
    <3> QED  BY <1>1, JoinedBits
  <2>5. ASSUME NEW p \in Nat
        PROVE  /\ (WordAt(y, p) | WordAt(m, p)) = WordAt(r, p)
               /\ WordAt(m, p) = 0 => WordAt(y, p) = WordAt(r, p)
    <3> HIDE DEF y, r, u, shifted, full
    <3>0. IsJoined(r, y, m)
      BY <2>4 DEF IsJoined
    <3>1. (WordAt(y, p) | WordAt(m, p)) = WordAt(r, p)
      BY <1>1, <1>3, <2>3, <3>0, JoinedWords
    <3>2. ASSUME WordAt(m, p) = 0 PROVE WordAt(y, p) = WordAt(r, p)
      BY <1>1, <1>3, <2>3, <3>0, <3>2, JoinedWithZero
    <3> QED  BY <3>1, <3>2
  <2>6. /\ shifted.kind \in {"small", "sparse", "generic"}
        /\ shifted.kind = "small" <=> full <= WordBits
    <3> HIDE DEF shifted, full, y
    <3> QED  BY <2>3, VectorIs
  <2>7. CASE shifted.kind = "sparse"
    <3> HIDE DEF y, r
    <3>1. width < WordBits
      <4> HIDE DEF u, full
      <4> QED  BY <1>1, <1>2, <1>6, <2>2, <2>7, ShiftedKind
    <3>2. w.data = <<m>> /\ m \in Word
      <4>1. w.kind = "small" <=> width <= WordBits
        BY VectorIs
      <4>2. w.kind = "small"
        BY <1>1, <3>1, <4>1
      <4> QED  BY <4>2, VectorIs
    <3>3. y \in Word /\ shifted = Sparse(full, y)
      <4> HIDE DEF shifted, full
      <4> QED  BY <2>3, <2>7, VectorIs
    <3> DEFINE c == y | m
    <3>4. c \in Word /\ \A k \in Nat : k < WordBits => BitOf(c, k) = IF BitOf(y, k) = 0 THEN BitOf(m, k) ELSE 1
      BY <3>2, <3>3, OrWords
    <3>5. AppendBits(v, w) = Sparse(full, c)
      <4>1. shifted.data = <<y>> /\ DOMAIN <<y>> = {1} /\ DOMAIN <<m>> = {1} /\ <<y>>[1] = y /\ <<m>>[1] = m
        BY <3>3 DEF Sparse
      <4> HIDE DEF shifted
      <4>2. joined = [k \in {1} |-> c]
        BY <3>2, <4>1
      <4>3. [k \in {1} |-> c] = <<c>>
        <5> HIDE DEF c
        <5> QED  OBVIOUS
      <4> HIDE DEF joined, c
      <4> QED  BY <2>1, <3>3, <4>2, <4>3 DEF Sparse
    <3> HIDE DEF c, full
    <3>6. c = r
      <4>1. c \in Nat /\ c < Pow2[full]
        <5>1. Pow2[WordBits] <= Pow2[full] /\ Pow2[WordBits] \in Nat /\ Pow2[full] \in Nat
          <6>1. WordBits <= full
            BY <1>1, <1>2, <1>6 DEF full
          <6>2. Pow2[WordBits] <= Pow2[full]
            BY <1>1, <1>2, <6>1, Pow2Monotone
          <6>3. Pow2[WordBits] \in Nat /\ Pow2[full] \in Nat
            BY <1>1, <1>2, Pow2Unfold
          <6> QED  BY <6>2, <6>3
        <5>2. c \in Nat /\ c < Pow2[WordBits]
          BY <3>4, WordIs
        <5> QED  BY <5>1, <5>2
      <4>2. ASSUME NEW k \in Nat, k < full
            PROVE  BitOf(c, k) = BitOf(r, k)
        <5>1. CASE k < WordBits
          BY <2>4, <3>4, <5>1
        <5>2. CASE ~ k < WordBits
          <6>1. k >= WordBits
            BY <1>1, <5>2
          <6>2. BitOf(c, k) = 0 /\ BitOf(y, k) = 0 /\ BitOf(m, k) = 0
            BY <3>2, <3>3, <3>4, <6>1, WordIsWordAt
          <6> QED  BY <2>4, <6>2
        <5> QED  BY <5>1, <5>2
      <4> QED  BY <1>2, <1>3, <4>1, <4>2, SameNumber
    <3>7. IsVector(Sparse(full, c), full, c)
      BY <1>2, <1>6, <3>4, IsSparse
    <3> QED  BY <1>3, <3>5, <3>6, <3>7 DEF r, y, full
  <2>8. CASE shifted.kind = "generic"
    <3> HIDE DEF y, r
    <3>1. shifted = Generic(full, WordsOf(y, len)) /\ shifted.data = WordsOf(y, len) /\ len \in Nat /\ y \in Int
      <4> HIDE DEF shifted, full
      <4>1. shifted = Generic(full, WordsOf(y, len)) /\ shifted.data = WordsOf(y, len) /\ len \in Nat
        BY <2>3, <2>8, GenericIs
      <4> QED  BY <2>3, <4>1
    <3> HIDE DEF shifted, full, len
    <3>2. DOMAIN WordsOf(y, len) = 1 .. len /\ \A k \in 1 .. len : WordsOf(y, len)[k] = WordAt(y, First(k))
      BY <3>1, WordsOfIs
    <3>3. ASSUME NEW k \in 1 .. len
          PROVE  (IF k \in DOMAIN w.data THEN WordsOf(y, len)[k] | w.data[k] ELSE WordsOf(y, len)[k])
                   = WordAt(r, First(k))
      <4> DEFINE p == First(k)
                 a == WordAt(y, p)
      <4>0. k \in Nat \ {0}
        BY <3>1
      <4>1. p \in Nat /\ WordAt(m, p) = IF k \in DOMAIN w.data THEN w.data[k] ELSE 0
        BY <4>0, WordsOfVector
      <4>2. WordsOf(y, len)[k] = a
        BY <3>2
      <4> HIDE DEF p
      <4>3. (a | WordAt(m, p)) = WordAt(r, p) /\ (WordAt(m, p) = 0 => a = WordAt(r, p))
        BY <2>5, <4>1
      <4> HIDE DEF a
      <4>4. CASE k \in DOMAIN w.data
        BY <4>1, <4>2, <4>3, <4>4 DEF p
      <4>5. CASE k \notin DOMAIN w.data
        BY <4>1, <4>2, <4>3, <4>5 DEF p
      <4> QED  BY <4>4, <4>5
    <3>4. joined = WordsOf(r, len)
      BY <3>1, <3>2, <3>3 DEF WordsOf
    <3>5. AppendBits(v, w) = Generic(full, WordsOf(r, len))
      <4> HIDE DEF joined
      <4> QED  BY <2>1, <3>1, <3>4 DEF Generic
    <3>6. IsVector(Generic(full, WordsOf(r, len)), full, r)
      BY <1>2, <1>3, <1>6, IsGeneric DEF len
    <3> QED  BY <1>3, <3>5, <3>6 DEF r, y, full
  <2>9. shifted.kind # "small"
    <3> HIDE DEF shifted, full
    <3> QED  BY <1>1, <1>2, <1>6, <2>6
  <2> QED  BY <2>6, <2>7, <2>8, <2>9
<1> QED  BY <1>1, <1>2, <1>4, <1>5, <1>6

-----------------------------------------------------------------------------
(***************************************************************************)
(* Vectors repeated.                                                       *)
(***************************************************************************)

\* the number in which a vector of s bits with the number 1 is repeated k times
Repeated(s, k) == (Pow2[s * k] - 1) \div Ones(s)

\* A repetition is one more of the vector below a shorter one.
LEMMA RepeatedIs ==
  ASSUME NEW s \in Nat \ {0}
  PROVE  /\ Repeated(s, 1) = 1
         /\ \A k \in Nat : /\ Repeated(s, k) \in Nat
                           /\ Repeated(s, k + 1) = Pow2[s] * Repeated(s, k) + 1
                           /\ Ones(s) * Repeated(s, k) = Pow2[s * k] - 1
<1> DEFINE o == Ones(s)
           b == Pow2[s]
<1>1. b \in Nat /\ b >= 2 /\ o \in Nat /\ o >= 1 /\ b = o + 1 /\ s \in Nat
  <2>1. s > 0 /\ s \in Nat /\ 1 <= s
    OBVIOUS
  <2>2. Pow2[1] = 2
    BY PowerOfOne
  <2>3. Pow2[1] <= Pow2[s] /\ Pow2[1] \in Nat
    BY <2>1, Pow2Monotone
  <2>4. Pow2[s] \in Nat
    BY <2>1, Pow2Unfold
  <2> QED  BY <2>1, <2>2, <2>3, <2>4 DEF Ones
<1> DEFINE Is(k, q) == q \in Nat /\ o * q = Pow2[s * k] - 1
<1>2. ASSUME NEW k \in Nat, NEW q, Is(k, q)
      PROVE  Repeated(s, k) = q /\ q \in Nat
  <2>1. Pow2[s * k] \in Nat
    <3>1. s * k \in Nat
      BY <1>1
    <3> QED  BY <3>1, Pow2Unfold
  <2> DEFINE n == Pow2[s * k] - 1
             z == 0
  <2>2. n \in Int /\ n = o * q + z /\ z \in 0 .. o - 1 /\ q \in Int /\ o \in Nat
    BY <1>1, <1>2, <2>1
  <2> HIDE DEF n, z, o
  <2>3. n \div o = q
    BY <2>2, QuotientIs
  <2> QED  BY <1>2, <2>3 DEF n, o, Repeated
<1>3. ASSUME NEW k \in Nat, NEW q, Is(k, q)
      PROVE  Is(k + 1, b * q + 1)
  <2> DEFINE p == Pow2[s * k]
             r == b * q
             t == o * r
  <2>1. s * k \in Nat /\ s * (k + 1) = s * k + s
    BY <1>1
  <2>2. Pow2[s * k + s] = p * b /\ p \in Nat
    BY <1>1, <2>1, Pow2Sum, Pow2Unfold
  <2>3. q \in Nat /\ r \in Nat
    BY <1>1, <1>3
  <2>4. o * r = b * (o * q)
    BY <1>1, <2>3
  <2>5. o * q = p - 1
    BY <1>3
  <2> HIDE DEF o, b, p, r, t
  <2>6. b * (p - 1) = p * b - b
    BY <1>1, <2>2
  <2>7. o * (r + 1) = o * r + o
    BY <1>1, <2>3
  <2>8. o * (r + 1) = p * b - 1
    <3> DEFINE x == p * b
    <3>1. x \in Int
      BY <1>1, <2>2
    <3>2. o * r = x - b
      BY <2>4, <2>5, <2>6
    <3> HIDE DEF x
    <3> QED  BY <1>1, <2>7, <3>1, <3>2 DEF x
  <2> QED  BY <2>1, <2>2, <2>3, <2>8 DEF r
<1>4. Is(1, 1)
  <2>1. s * 1 = s
    BY <1>1
  <2> QED  BY <1>1, <2>1
<1>5. Is(0, 0)
  <2>1. s * 0 = 0 /\ o * 0 = 0
    BY <1>1
  <2> QED  BY <2>1, Pow2Unfold
<1> HIDE DEF Is
<1>6. ASSUME NEW k \in Nat PROVE \E q : Is(k, q)
  <2> DEFINE S == {j \in Nat : \E q : Is(j, q)}
  <2>1. 0 \in S
    BY <1>5
  <2>2. ASSUME NEW j \in Nat, j \in S PROVE j + 1 \in S
    BY <1>3, <2>2
  <2> HIDE DEF S
  <2>3. Nat \subseteq S
    BY <2>1, <2>2, Induction
  <2> QED  BY <2>3 DEF S
<1>7. ASSUME NEW k \in Nat
      PROVE  /\ Repeated(s, k) \in Nat
             /\ Repeated(s, k + 1) = b * Repeated(s, k) + 1
             /\ Ones(s) * Repeated(s, k) = Pow2[s * k] - 1
  <2>1. PICK q : Is(k, q)
    BY <1>6
  <2>2. Is(k + 1, b * q + 1) /\ k + 1 \in Nat
    BY <1>3, <2>1
  <2>3. Repeated(s, k) = q /\ q \in Nat
    BY <1>2, <2>1
  <2> HIDE DEF b
  <2>4. Repeated(s, k + 1) = b * q + 1
    BY <1>2, <2>2
  <2> QED  BY <2>1, <2>3, <2>4 DEF Is
<1>8. Repeated(s, 1) = 1
  BY <1>2, <1>4
<1> QED  BY <1>7, <1>8

\* A repeated number fits.
LEMMA RepetitionFits ==
  ASSUME NEW s \in Nat \ {0}, NEW n \in Nat, n < Pow2[s], NEW k \in Nat
  PROVE  /\ s * k \in Nat /\ s * (k + 1) = s * k + s
         /\ n * Repeated(s, k) \in Nat /\ n * Repeated(s, k) < Pow2[s * k]
<1> DEFINE q == Repeated(s, k)
           b == Pow2[s]
           o == Ones(s)
<1>1. q \in Nat /\ Repeated(s, k + 1) = b * q + 1 /\ o * q = Pow2[s * k] - 1
  BY RepeatedIs
<1>2. s \in Nat /\ b \in Nat /\ o = b - 1 /\ o \in Int /\ n <= o /\ n \in Int
  BY Pow2Unfold DEF Ones
<1>3. s * k \in Nat /\ s * (k + 1) = s * k + s
  BY <1>2
<1>4. Pow2[s * k] \in Nat
  BY <1>3, Pow2Unfold
<1>5. n * q <= o * q /\ q \in Int
  BY <1>1, <1>2, ProductMonotone
<1> HIDE DEF q, b, o
<1>6. n * q \in Nat
  BY <1>1

<1>8. n * q < Pow2[s * k]
  <2> DEFINE x == n * q
             y == o * q
  <2>1. x <= y /\ y = Pow2[s * k] - 1 /\ x \in Nat
    BY <1>1, <1>5, <1>6
  <2> HIDE DEF x, y
  <2>2. x < Pow2[s * k]
    BY <1>4, <2>1
  <2> QED  BY <2>2 DEF x
<1> QED  BY <1>1, <1>3, <1>6, <1>8 DEF q

\* A repeated number is one more of it below a shorter one.
LEMMA RepetitionGrows ==
  ASSUME NEW s \in Nat \ {0}, NEW n \in Nat, NEW k \in Nat
  PROVE  /\ n * Repeated(s, k + 1) = Pow2[s] * (n * Repeated(s, k)) + n
         /\ n * Repeated(s, k + 1) = (n * Repeated(s, k)) * Pow2[s] + n
<1> DEFINE q == Repeated(s, k)
           b == Pow2[s]
<1>1. q \in Nat /\ Repeated(s, k + 1) = b * q + 1
  BY RepeatedIs
<1>2. b \in Nat
  BY Pow2Unfold
<1> HIDE DEF q, b
<1>3. n * (b * q + 1) = b * (n * q) + n /\ b * (n * q) = (n * q) * b
  BY <1>1, <1>2
<1> QED  BY <1>1, <1>3 DEF q, b

\* A function that is defined by its predecessor's value is the one that
\* satisfies the equation.
LEMMA RepeatedWords ==
  ASSUME NEW s \in Nat \ {0}, NEW n \in Nat, n < Pow2[s], NEW times \in Nat \ {0},
         s * times <= WordBits
  PROVE  LET words == CHOOSE f : f = [k \in 1 .. times |->
                         IF k = 1 THEN n ELSE Shl(f[k - 1], s) | n]
         IN  words[times] = n * Repeated(s, times)
<1> DEFINE Solves(f) == f = [k \in 1 .. times |-> IF k = 1 THEN n ELSE Shl(f[k - 1], s) | n]
           r(k) == n * Repeated(s, k)
           g == [k \in 1 .. times |-> r(k)]
<1>1. n * 1 = n /\ r(1) = n
  BY RepeatedIs
<1>2. ASSUME NEW k \in Nat, k >= 1, k + 1 <= times
      PROVE  (Shl(r(k), s) | n) = r(k + 1)
  <2> DEFINE a == s * k
             x == r(k)
  <2>0. a \in Nat /\ s * (k + 1) = a + s
    BY RepetitionFits
  <2>1. x \in Nat /\ x < Pow2[a]
    BY RepetitionFits
  <2>3. r(k + 1) = Pow2[s] * x + n
    BY RepetitionGrows
  <2>2. a + s <= WordBits
    <3> DEFINE q == k + 1
    <3>1. s * q <= s * times /\ s * q \in Int /\ s * times \in Int
      <4>1. q \in Int /\ times \in Int /\ s \in Int /\ q <= times /\ s >= 0
        BY <1>2
      <4> HIDE DEF q
      <4> QED  BY <4>1, ProductMonotone
    <3> HIDE DEF a
    <3>2. s * q = a + s
      BY <2>0
    <3> QED  BY <2>0, <3>1, <3>2, WordIs
  <2> HIDE DEF a, x, r
  <2>4. (Shl(x, s) | n) = Pow2[s] * x + n
    BY <2>0, <2>1, <2>2, JoinedWord
  <2> QED  BY <2>3, <2>4 DEF x
<1> HIDE DEF r
<1>3. Solves(g)
  <2>1. ASSUME NEW k \in 1 .. times
        PROVE  g[k] = IF k = 1 THEN n ELSE Shl(g[k - 1], s) | n
    <3>1. CASE k = 1
      BY <1>1, <3>1
    <3>2. CASE k # 1
      <4> DEFINE j == k - 1
      <4>1. j \in Nat /\ j >= 1 /\ j + 1 <= times /\ j + 1 = k /\ j \in 1 .. times
        BY <3>2
      <4>2. (Shl(r(j), s) | n) = r(j + 1)
        BY <1>2, <4>1
      <4> QED  BY <3>2, <4>1, <4>2
    <3> QED  BY <3>1, <3>2
  <2> QED  BY <2>1
<1>4. ASSUME NEW f, Solves(f) PROVE f[times] = r(times)
  <2> DEFINE S == {k \in Nat : k + 1 <= times => f[k + 1] = r(k + 1)}
  <2>0. \A k \in 1 .. times : f[k] = IF k = 1 THEN n ELSE Shl(f[k - 1], s) | n
    BY <1>4
  <2>1. 0 \in S
    <3>1. 1 \in 1 .. times
      OBVIOUS
    <3> QED  BY <1>1, <2>0, <3>1
  <2>2. ASSUME NEW k \in Nat, k \in S PROVE k + 1 \in S
    <3> SUFFICES ASSUME (k + 1) + 1 <= times PROVE f[(k + 1) + 1] = r((k + 1) + 1)
      OBVIOUS
    <3> DEFINE j == k + 1
    <3>1. j \in Nat /\ j >= 1 /\ j + 1 <= times /\ (j + 1) - 1 = j /\ j + 1 # 1 /\ j + 1 \in 1 .. times
      OBVIOUS
    <3>2. f[j] = r(j)
      BY <2>2
    <3> HIDE DEF j
    <3>3. f[j + 1] = (Shl(f[j], s) | n)
      BY <2>0, <3>1
    <3>4. (Shl(r(j), s) | n) = r(j + 1)
      BY <1>2, <3>1
    <3> QED  BY <3>2, <3>3, <3>4 DEF j
  <2> HIDE DEF S
  <2>3. Nat \subseteq S
    BY <2>1, <2>2, Induction
  <2>4. times - 1 \in Nat /\ (times - 1) + 1 = times
    OBVIOUS
  <2>5. times - 1 \in S
    BY <2>3, <2>4
  <2> QED  BY <2>4, <2>5 DEF S
<1>5. Solves(CHOOSE f : Solves(f))
  <2> HIDE DEF Solves
  <2> QED  BY <1>3
<1>6. (CHOOSE f : Solves(f))[times] = r(times)
  BY <1>4, <1>5
<1> QED  BY <1>6 DEF r

\* the loop of GenericBitVector.replicate
Repetitions(s, n, times) ==
  CHOOSE f : f = [k \in 1 .. times |-> IF k = 1 THEN n ELSE f[k - 1] * Pow2[s] + n]

\* The numbers that replicate computes.
LEMMA RepeatedNumbers ==
  ASSUME NEW s \in Nat \ {0}, NEW n \in Nat, n < Pow2[s], NEW times \in Nat \ {0}
  PROVE  Repetitions(s, n, times)[times] = n * Repeated(s, times)
<1> DEFINE Solves(f) == f = [k \in 1 .. times |-> IF k = 1 THEN n ELSE f[k - 1] * Pow2[s] + n]
           r(k) == n * Repeated(s, k)
           g == [k \in 1 .. times |-> r(k)]
<1>1. n * 1 = n /\ r(1) = n
  BY RepeatedIs
<1>2. ASSUME NEW k \in Nat
      PROVE  r(k) * Pow2[s] + n = r(k + 1)
  BY RepetitionGrows
<1> HIDE DEF r
<1>3. Solves(g)
  <2>1. ASSUME NEW k \in 1 .. times
        PROVE  g[k] = IF k = 1 THEN n ELSE g[k - 1] * Pow2[s] + n
    <3>1. CASE k = 1
      BY <1>1, <3>1
    <3>2. CASE k # 1
      <4> DEFINE j == k - 1
      <4>1. j \in Nat /\ j + 1 = k /\ j \in 1 .. times
        BY <3>2
      <4>2. r(j) * Pow2[s] + n = r(j + 1)
        BY <1>2, <4>1
      <4> QED  BY <3>2, <4>1, <4>2
    <3> QED  BY <3>1, <3>2
  <2> QED  BY <2>1
<1>4. ASSUME NEW f, Solves(f) PROVE f[times] = r(times)
  <2> DEFINE S == {k \in Nat : k + 1 <= times => f[k + 1] = r(k + 1)}
  <2>0. \A k \in 1 .. times : f[k] = IF k = 1 THEN n ELSE f[k - 1] * Pow2[s] + n
    BY <1>4
  <2>1. 0 \in S
    <3>1. 1 \in 1 .. times
      OBVIOUS
    <3> QED  BY <1>1, <2>0, <3>1
  <2>2. ASSUME NEW k \in Nat, k \in S PROVE k + 1 \in S
    <3> SUFFICES ASSUME (k + 1) + 1 <= times PROVE f[(k + 1) + 1] = r((k + 1) + 1)
      OBVIOUS
    <3> DEFINE j == k + 1
    <3>1. j \in Nat /\ j + 1 <= times /\ (j + 1) - 1 = j /\ j + 1 # 1 /\ j + 1 \in 1 .. times
      OBVIOUS
    <3>2. f[j] = r(j)
      BY <2>2
    <3> HIDE DEF j
    <3>3. f[j + 1] = f[j] * Pow2[s] + n
      BY <2>0, <3>1
    <3>4. r(j) * Pow2[s] + n = r(j + 1)
      BY <1>2, <3>1
    <3> QED  BY <3>2, <3>3, <3>4 DEF j
  <2> HIDE DEF S
  <2>3. Nat \subseteq S
    BY <2>1, <2>2, Induction
  <2>4. times - 1 \in Nat /\ (times - 1) + 1 = times
    OBVIOUS
  <2>5. times - 1 \in S
    BY <2>3, <2>4
  <2> QED  BY <2>4, <2>5 DEF S
<1>5. Solves(CHOOSE f : Solves(f))
  <2> HIDE DEF Solves
  <2> QED  BY <1>3
<1>6. (CHOOSE f : Solves(f))[times] = r(times)
  BY <1>4, <1>5
<1> QED  BY <1>6 DEF r, Repetitions

\* replicate.
LEMMA ReplicateIs ==
  ASSUME NEW v, NEW size, NEW n, IsVector(v, size, n), NEW times \in Nat \ {0}
  PROVE  /\ IsVector(Replicate(v, times), size * times, n * Repeated(size, times))
         /\ size * times \in Nat \ {0}
         /\ n * Repeated(size, times) \in Nat /\ n * Repeated(size, times) < Pow2[size * times]
<1> DEFINE full == size * times
           r == n * Repeated(size, times)
           words == CHOOSE f : f = [k \in 1 .. times |->
                      IF k = 1 THEN Val(v) ELSE Shl(f[k - 1], v.size) | Val(v)]
           numbers == CHOOSE f : f = [k \in 1 .. times |->
                        IF k = 1 THEN ValueOf(v.data) ELSE f[k - 1] * Pow2[v.size] + ValueOf(v.data)]
<1>1. /\ size \in Nat \ {0} /\ n \in Nat /\ n < Pow2[size] /\ v.size = size
      /\ v.kind = "small" => Val(v) = n
      /\ v.kind = "small" <=> size <= WordBits
      /\ ValueOf(v.data) = n /\ WordBits \in Nat
  BY VectorIs, WordIs
<1>2. r \in Nat /\ r < Pow2[full] /\ r \in Int
  BY <1>1, RepetitionFits
<1>3. full \in Nat \ {0} /\ size <= full
  <2>1. size * 1 <= size * times
    <3>1. 1 \in Int /\ times \in Int /\ size \in Int /\ 1 <= times /\ size >= 0
      BY <1>1
    <3> DEFINE one == 1
    <3>2. one \in Int /\ one <= times
      BY <3>1
    <3> HIDE DEF one
    <3>3. size * one <= size * times
      BY <3>1, <3>2, ProductMonotone
    <3> QED  BY <3>3 DEF one
  <2>2. size * 1 = size
    BY <1>1
  <2> QED  BY <1>1, <2>1, <2>2
<1>4. Replicate(v, times) = IF v.kind = "small" /\ full <= WordBits THEN Small(full, words[times])
                            ELSE Generic(full, ArrayFromBigint(full, numbers[times]))
  BY <1>1 DEF Replicate
<1>5. CASE full <= WordBits
  <2>1. v.kind = "small" /\ Val(v) = n
    BY <1>1, <1>3, <1>5
  <2>2. words[times] = r
    BY <1>1, <1>5, <2>1, RepeatedWords
  <2> HIDE DEF words, numbers, r, full
  <2>3. IsVector(Small(full, RuintMask(full, r)), full, Low(r, full))
    BY <1>2, <1>3, <1>5, IsSmall
  <2>4. Low(r, full) = r
    BY <1>2, <1>3, FewBits
  <2>5. RuintMask(full, r) = r
    BY <2>4 DEF RuintMask, Low
  <2> QED  BY <1>2, <1>3, <1>4, <1>5, <2>1, <2>2, <2>3, <2>4, <2>5 DEF r, full
<1>6. CASE ~ full <= WordBits
  <2>0. numbers = Repetitions(size, n, times)
    BY <1>1 DEF Repetitions
  <2> HIDE DEF numbers
  <2>1. numbers[times] = r
    BY <1>1, <2>0, RepeatedNumbers
  <2> HIDE DEF words, numbers, r, full
  <2>2. full > WordBits
    BY <1>1, <1>3, <1>6
  <2>3. IsVector(Generic(full, ArrayFromBigint(full, r)), full, Low(r, full))
    BY <1>2, <1>3, <2>2, FromBigintIs
  <2>4. Low(r, full) = r
    BY <1>2, <1>3, FewBits
  <2> QED  BY <1>2, <1>3, <1>4, <1>6, <2>1, <2>3, <2>4 DEF r, full
<1> QED  BY <1>5, <1>6

-----------------------------------------------------------------------------
(***************************************************************************)
(* Integers shifted to the left.                                           *)
(***************************************************************************)

\* The word that a shift carries out of the highest digit.
LEMMA CarriedOut ==
  ASSUME NEW n \in Nat, NEW len \in Nat \ {0}, n < Pow2[WordBits * len],
         NEW bits \in Nat, bits < WordBits
  PROVE  Append(WordsOf(Pow2[bits] * n, len), Shr(WordsOf(n, len)[len], WordBits - bits))
           = WordsOf(Pow2[bits] * n, len + 1)
<1> DEFINE y == Pow2[bits] * n
           c == Shr(WordsOf(n, len)[len], WordBits - bits)
           p == WordBits * len
<1>1. n \in Int /\ len \in Nat /\ len \in 1 .. len /\ WordBits \in Nat
  BY WordIs
<1>2. p \in Nat /\ p >= WordBits /\ First(len + 1) = p
  <2>1. First(len + 1) = WordBits * len
    BY FirstIs
  <2>2. p \in Int /\ WordBits * 1 <= WordBits * len /\ WordBits * 1 = WordBits
    <3> DEFINE one == 1
    <3>1. one \in Int /\ len \in Int /\ WordBits \in Int /\ WordBits >= 0 /\ one <= len
      BY <1>1
    <3> HIDE DEF one
    <3>2. WordBits * one <= WordBits * len
      BY <3>1, ProductMonotone
    <3> QED  BY <1>1, <3>2 DEF one
  <2> QED  BY <1>1, <2>1, <2>2
<1>3. y \in Int
  BY <1>1, BitsOfProduct
<1>4. c \in Word /\ \A j \in Nat : j < WordBits =>
        BitOf(c, j) = IF j < bits THEN BitOf(n, WordBits * len + j - bits) ELSE 0
  BY <1>1, CarriedBits
<1>5. ASSUME NEW j \in Nat, j < WordBits PROVE BitOf(c, j) = BitOf(y, p + j)
  <2> DEFINE k == p + j
  <2>1. k \in Nat /\ ~ k < bits /\ k - bits = p + j - bits /\ k - bits \in Nat
    BY <1>1, <1>2
  <2>2. BitOf(y, k) = IF k < bits THEN 0 ELSE BitOf(n, k - bits)
    <3> HIDE DEF k
    <3> QED  BY <1>1, <2>1, BitsOfProduct
  <2>3. BitOf(c, j) = IF j < bits THEN BitOf(n, p + j - bits) ELSE 0
    BY <1>4, <1>5
  <2>4. CASE j < bits
    BY <2>1, <2>2, <2>3, <2>4
  <2>5. CASE ~ j < bits
    <3> DEFINE x == k - bits
    <3>1. x >= p /\ x \in Nat
      BY <1>2, <2>1, <2>5
    <3> HIDE DEF x, k
    <3>2. BitOf(n, x) = 0
      BY <1>2, <3>1, BitsAbove
    <3> QED  BY <2>1, <2>2, <2>3, <2>5, <3>2 DEF x, k
  <2> QED  BY <2>4, <2>5
<1>6. c = WordAt(y, p)
  <2> HIDE DEF c, y, p
  <2> QED  BY <1>2, <1>3, <1>4, <1>5, IsWordAt
<1> DEFINE d == WordsOf(y, len)
           e == WordsOf(y, len + 1)
<1>7. /\ d \in Arrays /\ Len(d) = len /\ \A k \in 1 .. len : d[k] = WordAt(y, First(k))
  <2> HIDE DEF y
  <2> QED  BY <1>1, <1>3, WordsOfIs
<1>8. /\ e \in Arrays /\ Len(e) = len + 1 /\ \A k \in 1 .. len + 1 : e[k] = WordAt(y, First(k))
  <2> HIDE DEF y
  <2>1. len + 1 \in Nat
    OBVIOUS
  <2> QED  BY <1>3, <2>1, WordsOfIs
<1> HIDE DEF d, e, y, c, p
<1>9. Append(d, c) = e
  <2>1. Append(d, c) \in Arrays /\ Len(Append(d, c)) = len + 1
    BY <1>4, <1>7, AppendIs
  <2>2. ASSUME NEW k \in 1 .. len + 1 PROVE Append(d, c)[k] = e[k]
    <3>1. CASE k \in 1 .. len
      BY <1>7, <1>8, <3>1 DEF Arrays
    <3>2. CASE k = len + 1
      <4>1. e[len + 1] = c
        <5> DEFINE m == len + 1
        <5>1. m \in 1 .. len + 1 /\ First(m) = p
          BY <1>2
        <5> HIDE DEF m
        <5>2. e[m] = WordAt(y, First(m))
          BY <1>8, <5>1
        <5> QED  BY <1>6, <5>1, <5>2 DEF m
      <4>2. Append(d, c)[len + 1] = c
        BY <1>7 DEF Arrays
      <4> QED  BY <3>2, <4>1, <4>2
    <3>3. k \in 1 .. len \/ k = len + 1
      BY <1>1
    <3> QED  BY <3>1, <3>2, <3>3
  <2> QED  BY <1>8, <2>1, <2>2 DEF Arrays
<1> QED  BY <1>9 DEF d, e, y, c

\* Words that hold a shifted number.
LEMMA ShiftedFits ==
  ASSUME NEW n \in Nat, NEW w \in Nat, n < Pow2[w], NEW i \in Nat, NEW len \in Nat,
         i + w <= WordBits * len
  PROVE  /\ Pow2[i] * n \in Nat
         /\ WordsOf(Pow2[i] * n, len) \in Arrays
         /\ ValueOf(WordsOf(Pow2[i] * n, len)) = Pow2[i] * n
<1> DEFINE y == Pow2[i] * n
           z == 0
           p == WordBits * len
           s == i + w
<1>1. z \in Nat /\ z < Pow2[i] /\ s \in Nat /\ p \in Nat /\ s <= p
  BY Pow2Unfold, WordIs
<1>2. y \in Nat /\ y + z < Pow2[s]
  <2> HIDE DEF z
  <2> QED  BY <1>1, MoreBits
<1>3. y < Pow2[s] /\ y \in Int
  BY <1>2
<1>4. Pow2[s] <= Pow2[p]
  <2> HIDE DEF s, p
  <2> QED  BY <1>1, Pow2Monotone
<1>5. Pow2[s] \in Nat /\ Pow2[p] \in Nat
  <2> HIDE DEF s, p
  <2> QED  BY <1>1, Pow2Unfold
<1> HIDE DEF y, s
<1>6. y < Pow2[p]
  <2> HIDE DEF p
  <2> QED  BY <1>2, <1>3, <1>4, <1>5
<1>7. ValueOf(WordsOf(y, len)) = Low(y, p)
  BY <1>3, ValueOfWords
<1>8. WordsOf(y, len) \in Arrays
  BY <1>3, WordsOfIs
<1> HIDE DEF p
<1>9. Low(y, p) = y
  BY <1>1, <1>2, <1>6, FewBits
<1> QED  BY <1>2, <1>7, <1>8, <1>9 DEF y

\* lshift of digits.
LEMMA LshiftDataIs ==
  ASSUME NEW d \in Data, NEW i \in Nat
  PROVE  /\ LshiftData(d, i) \in Arrays
         /\ ValueOf(LshiftData(d, i)) = Pow2[i] * ValueOf(d)
<1> DEFINE n == ValueOf(d)
           len == Len(d)
           words == WordIndex(i)
           bits == BitIndex(i)
           moved == ShlLoop(d, bits)
           w == WordBits * len
<1>1. d \in Arrays /\ len \in Nat \ {0} /\ len \in Nat /\ n \in Nat /\ n \in Int
  BY DataIs
<1>2. n < Pow2[w] /\ d = WordsOf(n, len)
  BY <1>1, ArraysAreWords
<1>3. words \in Nat /\ bits \in Nat /\ bits < WordBits /\ i = WordBits * words + bits
      /\ WordBits \in Nat /\ w \in Nat
  <2>1. words \in Nat /\ bits \in Nat /\ bits < WordBits /\ i = WordBits * words + bits
    BY IndexIs
  <2>2. WordBits \in Nat
    BY WordIs
  <2> HIDE DEF len
  <2>3. w \in Nat
    BY <1>1, <2>2
  <2> QED  BY <2>1, <2>2, <2>3
<1>4. /\ Pow2[WordBits * words] * (Pow2[bits] * n) = Pow2[i] * n
      /\ Pow2[bits] * n \in Int
  BY <1>1, ShiftsCompose
<1>5. LshiftData(d, i) = [k \in 1 .. words |-> 0]
                         \o (IF bits = 0 THEN d ELSE Append(moved.digits, moved.carry))
  BY DEF LshiftData, ShlLoop
<1> HIDE DEF n, len, words, bits, moved
<1>6. CASE bits = 0
  <2>1. Pow2[bits] * n = n
    BY <1>1, <1>6, Pow2Unfold
  <2>2. [k \in 1 .. words |-> 0] \o WordsOf(n, len) = WordsOf(Pow2[WordBits * words] * n, words + len)
    BY <1>1, <1>3, ZerosBelow
  <2>3. LshiftData(d, i) = WordsOf(Pow2[i] * n, words + len)
    BY <1>2, <1>4, <1>5, <1>6, <2>1, <2>2
  <2>4. i + w <= WordBits * (words + len) /\ words + len \in Nat
    <3>1. WordBits * (words + len) = WordBits * words + WordBits * len
      BY <1>1, <1>3
    <3>2. WordBits * words \in Nat
      BY <1>3
    <3> QED  BY <1>1, <1>3, <1>6, <3>1, <3>2
  <2> DEFINE size == words + len
  <2>5. size \in Nat /\ i + w <= WordBits * size
    BY <2>4
  <2> HIDE DEF size, w
  <2>6. WordsOf(Pow2[i] * n, size) \in Arrays /\ ValueOf(WordsOf(Pow2[i] * n, size)) = Pow2[i] * n
    BY <1>1, <1>2, <1>3, <2>5, ShiftedFits
  <2> QED  BY <2>3, <2>6 DEF size, n
<1>7. CASE bits # 0
  <2> DEFINE y == Pow2[bits] * n
             more == len + 1
  <2>1. moved.digits = WordsOf(y, len)
    BY <1>1, <1>2, <1>3, ShlLoopWords DEF moved
  <2>2. moved.carry = Shr(d[len], WordBits - bits)
    <3>1. moved.carry = IF len = 0 THEN 0 ELSE Shr(d[len], WordBits - bits)
      BY <1>1, ShlLoopSteps DEF moved, len
    <3> QED  BY <1>1, <3>1
  <2>3. Append(WordsOf(y, len), Shr(WordsOf(n, len)[len], WordBits - bits)) = WordsOf(y, more)
    BY <1>1, <1>2, <1>3, CarriedOut
  <2>4. Append(moved.digits, moved.carry) = WordsOf(y, more)
    BY <1>2, <2>1, <2>2, <2>3
  <2>5. more \in Nat /\ y \in Int
    BY <1>1, <1>4
  <2> HIDE DEF y, more
  <2>6. [k \in 1 .. words |-> 0] \o WordsOf(y, more) = WordsOf(Pow2[WordBits * words] * y, words + more)
    BY <1>3, <2>5, ZerosBelow
  <2>7. LshiftData(d, i) = WordsOf(Pow2[i] * n, words + more)
    BY <1>4, <1>5, <1>7, <2>4, <2>6 DEF y
  <2> DEFINE size == words + more
  <2>8. size \in Nat /\ i + w <= WordBits * size
    <3>1. WordBits * size = WordBits * words + WordBits * len + WordBits
      BY <1>1, <1>3 DEF more
    <3>2. WordBits * words \in Nat
      BY <1>3
    <3> QED  BY <1>1, <1>3, <2>5, <3>1, <3>2
  <2> HIDE DEF size, w
  <2>9. WordsOf(Pow2[i] * n, size) \in Arrays /\ ValueOf(WordsOf(Pow2[i] * n, size)) = Pow2[i] * n
    BY <1>1, <1>2, <1>3, <2>8, ShiftedFits
  <2> QED  BY <2>7, <2>9 DEF size, n
<1> QED  BY <1>6, <1>7

\* Digits shifted, with a sign, as an integer.
LEMMA ShiftedData ==
  ASSUME NEW d \in Data, NEW sign \in {-1, 1}, NEW n \in Nat
  PROVE  IsExact(FromDataAndSign(LshiftData(d, n), sign), (sign * ValueOf(d)) * Pow2[n])
<1> DEFINE e == LshiftData(d, n)
           x == ValueOf(d)
           b == Pow2[n]
<1>1. e \in Arrays /\ ValueOf(e) = b * x
  BY LshiftDataIs
<1>2. x \in Nat /\ b \in Nat
  BY DataIs, Pow2Unfold
<1> HIDE DEF e, x, b
<1>3. IsExact(FromDataAndSign(e, sign), sign * ValueOf(e))
  BY <1>1, FromDataAndSignIs
<1>4. sign * (b * x) = (sign * x) * b
  BY <1>2
<1> QED  BY <1>1, <1>3, <1>4 DEF e, x, b

\* lshift of an integer.
LEMMA LshiftIntegerIs ==
  ASSUME NEW i \in SailInteger, NEW n \in Nat
  PROVE  IsExact(LshiftInteger(i, n), ToBigint(i) * Pow2[n])
<1>1. /\ i.kind \in {"int", "big"} /\ ToBigint(i) \in Int
      /\ i.kind = "int" => i.val \in MinInt .. MaxInt /\ i.val \in Int /\ ToBigint(i) = i.val
      /\ i.kind = "big" => i.data \in Data /\ i.sign \in {-1, 1} /\ ToBigint(i) = i.sign * ValueOf(i.data)
  BY IntegerIs
<1>2. Pow2[n] \in Nat
  BY Pow2Unfold
<1>3. CASE i.kind = "int"
  <2>1. LshiftInteger(i, n) =
          IF i.val = 0 THEN IntZero
          ELSE IF n < WordBits /\ FitsMachine(i.val * Pow2[n])
          THEN SmallInt(i.val * Pow2[n])
          ELSE FromDataAndSign(LshiftData(DataOf(i.val), n), Sign(i.val))
    BY <1>3 DEF LshiftInteger
  <2>2. CASE i.val = 0
    <3>1. IsExact(SmallInt(0), 0)
      BY <1>1, <1>3, <2>2, SmallIsExact
    <3>2. ToBigint(i) * Pow2[n] = 0
      BY <1>1, <1>2, <1>3, <2>2
    <3> QED  BY <2>1, <2>2, <3>1, <3>2 DEF IntZero
  <2>3. CASE i.val # 0 /\ FitsMachine(i.val * Pow2[n]) /\ n < WordBits
    <3> DEFINE x == i.val * Pow2[n]
    <3>1. x \in Int /\ x = ToBigint(i) * Pow2[n]
      BY <1>1, <1>2, <1>3
    <3> HIDE DEF x
    <3>2. x \in MinInt .. MaxInt
      BY <2>3, <3>1, HalfIs DEF FitsMachine, x
    <3>3. IsExact(SmallInt(x), x)
      BY <3>2, SmallIsExact
    <3> QED  BY <2>1, <2>3, <3>1, <3>3 DEF x
  <2>4. CASE i.val # 0 /\ ~ (FitsMachine(i.val * Pow2[n]) /\ n < WordBits)
    <3> DEFINE d == DataOf(i.val)
               s == Sign(i.val)
    <3>1. d \in Data /\ s \in {-1, 1} /\ s * ValueOf(d) = i.val
      BY <1>1, <1>3, <2>4, DataOfIs
    <3>2. LshiftInteger(i, n) = FromDataAndSign(LshiftData(d, n), s)
      BY <2>1, <2>4
    <3> HIDE DEF d, s
    <3>3. IsExact(FromDataAndSign(LshiftData(d, n), s), (s * ValueOf(d)) * Pow2[n])
      BY <3>1, ShiftedData
    <3> QED  BY <1>1, <1>3, <3>1, <3>2, <3>3
  <2> QED  BY <2>2, <2>3, <2>4
<1>4. CASE i.kind = "big"
  <2>1. LshiftInteger(i, n) = IF n = 0 THEN i ELSE FromDataAndSign(LshiftData(i.data, n), i.sign)
    BY <1>4 DEF LshiftInteger
  <2>2. CASE n = 0
    <3>1. ToBigint(i) * Pow2[n] = ToBigint(i)
      BY <1>1, <2>2, Pow2Unfold
    <3> QED  BY <2>1, <2>2, <3>1 DEF IsExact
  <2>3. CASE n # 0
    <3>1. IsExact(FromDataAndSign(LshiftData(i.data, n), i.sign), (i.sign * ValueOf(i.data)) * Pow2[n])
      BY <1>1, <1>4, ShiftedData
    <3> QED  BY <1>1, <1>4, <2>1, <2>3, <3>1
  <2> QED  BY <2>2, <2>3
<1> QED  BY <1>1, <1>3, <1>4

-----------------------------------------------------------------------------
(***************************************************************************)
(* Products.                                                               *)
(***************************************************************************)

\* The highest bit of a number.
LEMMA HighestBit ==
  ASSUME NEW x \in Nat \ {0}
  PROVE  \E p \in Nat : Pow2[p] <= x /\ x < Pow2[p + 1]
<1> DEFINE S == {k \in Nat : x < Pow2[k]}
<1>1. S \subseteq Nat /\ S # {}
  <2>1. x \in Nat
    OBVIOUS
  <2>2. x < Pow2[x]
    BY <2>1, Pow2Exceeds
  <2> QED  BY <2>1, <2>2
<1>2. PICK m \in S : \A n \in S : m <= n
  <2> HIDE DEF S
  <2> QED  BY <1>1, LeastNatural
<1>3. m # 0
  <2>1. Pow2[0] = 1
    BY Pow2Unfold
  <2> QED  BY <2>1
<1>4. m \in Nat /\ m - 1 \in Nat /\ (m - 1) + 1 = m
  BY <1>3
<1>5. m - 1 \notin S
  BY <1>2, <1>4
<1>6. Pow2[m - 1] \in Nat
  BY <1>4, Pow2Unfold
<1>7. Pow2[m - 1] <= x
  BY <1>4, <1>5, <1>6
<1> QED  BY <1>2, <1>4, <1>7

\* A bit that is set.
LEMMA BitSet ==
  ASSUME NEW x \in Nat, NEW p \in Nat, Pow2[p] <= x, x < Pow2[p + 1]
  PROVE  BitOf(x, p) = 1
<1> DEFINE q == 1
           r == x - Pow2[p]
<1>1. Pow2[p] \in Nat /\ Pow2[p + 1] = 2 * Pow2[p] /\ x \in Int
  BY Pow2Unfold
<1>2. q \in Int /\ r \in Nat /\ r < Pow2[p] /\ x = Pow2[p] * q + r
  BY <1>1
<1> HIDE DEF q, r
<1>3. Up(x, p) = q
  BY <1>1, <1>2, HalvesAre
<1> QED  BY <1>3 DEF Up, BitOf, q

\* A word that has no bit in common with the number below it is a power of two.
LEMMA PowerWord ==
  ASSUME NEW x \in Word, x # 0, (x & (x - 1)) = 0
  PROVE  \E p \in 0 .. WordBits - 1 : x = Pow2[p]
<1> DEFINE y == x - 1
<1>1. x \in Nat \ {0} /\ x \in Int /\ y \in Nat /\ y \in Word /\ x < Pow2[WordBits] /\ WordBits \in Nat /\ x \in Nat
  BY WordIs
<1>2. PICK p \in Nat : Pow2[p] <= x /\ x < Pow2[p + 1]
  BY <1>1, HighestBit
<1>3. p < WordBits
  <2> SUFFICES ASSUME p >= WordBits PROVE FALSE
    BY <1>1
  <2>1. Pow2[WordBits] <= Pow2[p] /\ Pow2[WordBits] \in Nat
    BY <1>1, Pow2Monotone
  <2>2. Pow2[p] \in Nat
    BY Pow2Unfold
  <2> QED  BY <1>1, <1>2, <2>1, <2>2
<1>4. x = Pow2[p]
  <2> SUFFICES ASSUME x # Pow2[p] PROVE FALSE
    OBVIOUS
  <2>1. Pow2[p] \in Nat /\ Pow2[p + 1] \in Nat
    BY Pow2Unfold
  <2>2. Pow2[p] <= y /\ y < Pow2[p + 1]
    BY <1>1, <1>2, <2>1
  <2>3. BitOf(x, p) = 1
    BY <1>1, <1>2, BitSet
  <2> HIDE DEF y
  <2>4. BitOf(y, p) = 1
    BY <1>1, <2>2, BitSet
  <2>5. BitOf(x & y, p) = IF BitOf(x, p) = 0 THEN 0 ELSE BitOf(y, p)
    BY <1>1, <1>3, AndWords
  <2>6. BitOf(0, p) = 0
    BY BitsOfZero
  <2>7. (x & y) = 0
    BY DEF y
  <2> QED  BY <2>3, <2>4, <2>5, <2>6, <2>7
<1> QED  BY <1>1, <1>3, <1>4

\* Only MININT seems a power of two without being one.
LEMMA PowerOfTwoIs ==
  ASSUME NEW n \in MinInt .. MaxInt, n # 0, n # MinInt, SeemsPowerOfTwo(n)
  PROVE  /\ n > 0 /\ ShiftAmount(n) \in Nat /\ ShiftAmount(n) < WordBits
         /\ Pow2[ShiftAmount(n)] = n
<1> DEFINE x == Wrap(n)
           half == Base \div 2
<1>1. /\ half \in Nat \ {0} /\ Base = 2 * half /\ MaxInt = half - 1 /\ MinInt = -half
      /\ n \in Int /\ Base \in Nat /\ WordBits \in Nat /\ WordBits >= 2 /\ Base = Pow2[WordBits]
  BY HalfIs, WordIs
<1> HIDE DEF half
<1>2. x = (IF n < 0 THEN n + Base ELSE n) /\ Wrap(n - 1) = x - 1 /\ x \in Word /\ x # 0 /\ x \in Int
  <2>1. CASE n > 0
    <3>1. n \in Word /\ n - 1 \in Word /\ n - 1 \in Int
      BY <1>1, <2>1 DEF Word
    <3>2. Wrap(n) = n
      BY <1>1, <3>1, WrapNear
    <3> DEFINE m == n - 1
    <3> HIDE DEF m
    <3>3. m \in Int /\ m \in Word
      BY <3>1 DEF m
    <3>4. Wrap(m) = m
      BY <3>3, WrapNear
    <3> QED  BY <1>1, <2>1, <3>1, <3>2, <3>4 DEF m
  <2>2. CASE n < 0
    <3> DEFINE m == n - 1
    <3>1. n + Base \in Word /\ m + Base \in Word /\ m \in Int /\ n + Base # 0
      BY <1>1, <2>2 DEF Word
    <3>2. Wrap(n) = n + Base
      BY <1>1, <3>1, WrapNear
    <3> HIDE DEF m
    <3>3. Wrap(m) = m + Base
      BY <3>1, WrapNear
    <3>4. m = n - 1 /\ m + Base = (n + Base) - 1
      BY <1>1 DEF m
    <3>5. n + Base \in Int
      BY <1>1
    <3> QED  BY <2>2, <3>1, <3>2, <3>3, <3>4, <3>5 DEF m
  <2> QED  BY <1>1, <2>1, <2>2
<1>3. (x & (x - 1)) = 0
  BY <1>2 DEF SeemsPowerOfTwo
<1> HIDE DEF x
<1>4. PICK p \in 0 .. WordBits - 1 : x = Pow2[p]
  BY <1>2, <1>3, PowerWord
<1>5. n > 0
  <2> SUFFICES ASSUME n < 0 PROVE FALSE
    BY <1>1
  <2> DEFINE top == WordBits - 1
  <2>1. top \in Nat /\ p \in Nat /\ p <= top /\ top + 1 = WordBits
    BY <1>1
  <2>2. Pow2[p] <= Pow2[top] /\ Pow2[p] \in Nat
    <3> HIDE DEF top
    <3> QED  BY <2>1, Pow2Monotone
  <2>3. Pow2[top] \in Nat /\ Pow2[top + 1] = 2 * Pow2[top]
    <3> HIDE DEF top
    <3> QED  BY <2>1, Pow2Unfold
  <2> HIDE DEF top
  <2>4. Pow2[top] = half
    BY <1>1, <2>1, <2>3
  <2> QED  BY <1>1, <1>2, <1>4, <2>2, <2>4
<1>6. n = Pow2[p] /\ Wrap(n) = n
  BY <1>1, <1>2, <1>4, <1>5 DEF x
<1>7. ASSUME NEW s \in 0 .. WordBits - 1 PROVE Wrap(Pow2[s]) = Pow2[s]
  <2>1. s \in Nat /\ s < WordBits
    BY <1>1
  <2>2. Pow2[s] \in Word /\ Pow2[s] \in Int
    BY <2>1, PowerBits, WordIs
  <2> QED  BY <2>2, WrapNear
<1>8. /\ ShiftAmount(n) \in 0 .. WordBits - 1
      /\ Wrap(Pow2[ShiftAmount(n)]) = Wrap(n)
  <2>1. \E shift \in 0 .. WordBits - 1 : Wrap(Pow2[shift]) = Wrap(n)
    BY <1>6
  <2> QED  BY <2>1 DEF ShiftAmount
<1>9. Pow2[ShiftAmount(n)] = n
  BY <1>6, <1>7, <1>8
<1> QED  BY <1>1, <1>5, <1>8, <1>9

\* Digits multiplied by a word, with signs.
LEMMA DataMultiplied ==
  ASSUME NEW d \in Data, NEW sign \in {-1, 1}, NEW n \in MinInt .. MaxInt, n # 0
  PROVE  IsExact(FromDataAndSign(DataMul1(d, DigitOf(n)), sign * Sign(n)), (sign * ValueOf(d)) * n)
<1> DEFINE x == ValueOf(d)
           w == DigitOf(n)
           s == Sign(n)
           e == DataMul1(d, w)
<1>1. d \in Arrays /\ x \in Nat
  BY DataIs
<1>2. w \in Word /\ s \in {-1, 1} /\ n = s * w /\ w \in Nat
  BY DigitOfIs, WordIs
<1>3. e \in Arrays /\ ValueOf(e) = x * w
  BY <1>1, <1>2, DataMul1Is
<1> HIDE DEF x, w, s, e
<1> DEFINE t == sign * s
<1>4. t \in {-1, 1}
  BY <1>2
<1>5. t * (x * w) = (sign * x) * (s * w)
  BY <1>1, <1>2
<1> HIDE DEF t
<1>6. IsExact(FromDataAndSign(e, t), t * ValueOf(e))
  <2>1. t \in {-1, 0, 1} /\ t # 0
    BY <1>4
  <2> QED  BY <1>3, <2>1, FromDataAndSignIs
<1> QED  BY <1>2, <1>3, <1>5, <1>6 DEF x, w, s, e, t

\* int_mul: shifts if the word seems a power of two.
LEMMA IntMulIs ==
  ASSUME NEW i \in SailInteger, i.kind = "big", NEW n \in MinInt .. MaxInt, n # MinInt
  PROVE  IsExact(IntMul(i, n), ToBigint(i) * n)
<1>1. i.data \in Data /\ i.sign \in {-1, 1} /\ ToBigint(i) = i.sign * ValueOf(i.data) /\ ToBigint(i) \in Int
      /\ n \in Int
  BY IntegerIs, HalfIs
<1>2. CASE n = 0
  <2>1. 0 \in MinInt .. MaxInt
    BY <1>2
  <2>2. IsExact(SmallInt(0), 0)
    BY <2>1, SmallIsExact
  <2>3. ToBigint(i) * n = 0
    BY <1>1, <1>2
  <2> QED  BY <1>2, <2>2, <2>3 DEF IntMul, IntZero
<1>3. CASE n = 1
  <2>1. ToBigint(i) * n = ToBigint(i)
    BY <1>1, <1>3
  <2> QED  BY <1>3, <2>1 DEF IntMul, IsExact
<1>4. CASE n # 0 /\ n # 1 /\ SeemsPowerOfTwo(n)
  <2> DEFINE p == ShiftAmount(n)
  <2>1. p \in Nat /\ Pow2[p] = n
    BY <1>4, PowerOfTwoIs
  <2>2. IntMul(i, n) = LshiftInteger(i, p)
    BY <1>4 DEF IntMul
  <2> HIDE DEF p
  <2> QED  BY <2>1, <2>2, LshiftIntegerIs
<1>5. CASE n # 0 /\ n # 1 /\ ~ SeemsPowerOfTwo(n)
  <2>1. IntMul(i, n) = FromDataAndSign(DataMul1(i.data, DigitOf(n)), i.sign * Sign(n))
    BY <1>5 DEF IntMul
  <2>2. IsExact(FromDataAndSign(DataMul1(i.data, DigitOf(n)), i.sign * Sign(n)), (i.sign * ValueOf(i.data)) * n)
    BY <1>1, <1>5, DataMultiplied
  <2> QED  BY <1>1, <2>1, <2>2
<1> QED  BY <1>2, <1>3, <1>4, <1>5

\* A number of two words.
LEMMA TwoDigits ==
  ASSUME NEW a \in Word, NEW b \in Word
  PROVE  /\ <<a, b>> \in Arrays
         /\ ValueOf(<<a, b>>) = a + Base * b
<1> DEFINE d == <<a, b>>
<1>1. d \in Arrays /\ Len(d) = 2 /\ DOMAIN d = 1 .. 2 /\ d[1] = a /\ d[2] = b
  BY DEF Arrays
<1>2. Digit(d, 1) = a /\ Digit(d, 2) = b
  BY <1>1 DEF Digit
<1> HIDE DEF d
<1>3. /\ Rest(d, 2) = 0 /\ Rest(d, 2 - 1) = Digit(d, 2) + Base * Rest(d, 2)
      /\ Rest(d, 1 - 1) = Digit(d, 1) + Base * Rest(d, 1) /\ ValueOf(d) = Rest(d, 0)
  <2>1. \A k \in Nat : k >= 2 => Rest(d, k) = 0
    BY <1>1, RestIs
  <2>2. \A k \in Nat \ {0} : Rest(d, k - 1) = Digit(d, k) + Base * Rest(d, k)
    BY <1>1, RestIs
  <2>3. ValueOf(d) = Rest(d, 0)
    BY <1>1, RestIs
  <2> QED  BY <2>1, <2>2, <2>3
<1>4. a \in Nat /\ b \in Nat /\ Base \in Nat
  BY WordIs
<1>5. Rest(d, 1) = b
  BY <1>2, <1>3, <1>4
<1> QED  BY <1>1, <1>2, <1>3, <1>5 DEF d

\* The product of two words has two words.
LEMMA WordProduct ==
  ASSUME NEW a \in Word, NEW b \in Word
  PROVE  /\ Wrap(a * b) \in Word /\ (a * b) \div Base \in Word
         /\ a * b = Wrap(a * b) + Base * ((a * b) \div Base)
<1> DEFINE zero == 0
           s == MulDigit(a, b, zero)
<1>1. a \in Nat /\ b \in Nat /\ Base \in Nat /\ Base > 1 /\ zero \in Word /\ a * b \in Int /\ a * b >= 0
  BY WordIs DEF Word
<1>2. Wrap(a * b) \in Word /\ (a * b) \div Base \in Int /\ a * b = Base * ((a * b) \div Base) + Wrap(a * b)
  BY <1>1, Wraps
<1>3. s.digit \in Word /\ s.carry \in Word /\ s.digit + Base * s.carry = a * b + zero
  <2> HIDE DEF zero
  <2> QED  BY <1>1, MulDigitIs
<1> DEFINE x == a * b
           q == s.carry
           r == s.digit
<1>4. q \in Int /\ r \in Word /\ x = Base * q + r /\ x \in Int
  <2>1. q \in Int /\ r \in Int
    BY <1>3, WordIs
  <2> HIDE DEF s
  <2> QED  BY <1>1, <1>3, <2>1
<1> HIDE DEF x, q, r
<1>5. x \div Base = q
  BY <1>4, WrapIs
<1> HIDE DEF s
<1>6. (a * b) \div Base \in Word
  BY <1>3, <1>5 DEF x, q
<1> DEFINE w == Wrap(a * b)
           y == (a * b) \div Base
<1>7. w \in Int /\ y \in Int
  BY <1>2, WordIs
<1>8. a * b = w + Base * y
  <2>1. a * b = Base * y + w
    BY <1>2
  <2>2. Base * y \in Int
    BY <1>1, <1>7
  <2> HIDE DEF w, y
  <2> QED  BY <1>7, <2>1, <2>2
<1> QED  BY <1>2, <1>6, <1>8

\* Machine integers multiplied.
LEMMA MachineProduct ==
  ASSUME NEW n \in MinInt .. MaxInt, NEW m \in MinInt .. MaxInt, n # 0, m # 0
  PROVE  LET product == DigitOf(n) * DigitOf(m)
         IN  IsExact(FromDataAndSign(<<Wrap(product), product \div Base>>, Sign(n) * Sign(m)), n * m)
<1> DEFINE a == DigitOf(n)
           b == DigitOf(m)
           s == Sign(n)
           t == Sign(m)
           d == <<Wrap(a * b), (a * b) \div Base>>
           u == s * t
<1>1. a \in Word /\ s \in {-1, 1} /\ n = s * a /\ a \in Nat
  BY DigitOfIs, WordIs
<1>2. b \in Word /\ t \in {-1, 1} /\ m = t * b /\ b \in Nat
  BY DigitOfIs, WordIs
<1> HIDE DEF a, b, s, t
<1>3. d \in Arrays /\ ValueOf(d) = a * b
  <2> DEFINE x == Wrap(a * b)
             y == (a * b) \div Base
  <2>1. x \in Word /\ y \in Word /\ a * b = x + Base * y
    BY <1>1, <1>2, WordProduct
  <2> HIDE DEF x, y
  <2>2. <<x, y>> \in Arrays /\ ValueOf(<<x, y>>) = x + Base * y
    BY <2>1, TwoDigits
  <2> QED  BY <2>1, <2>2 DEF x, y
<1>4. u \in {-1, 0, 1} /\ u # 0
  BY <1>1, <1>2
<1>5. u * (a * b) = (s * a) * (t * b)
  BY <1>1, <1>2
<1> HIDE DEF d, u
<1>6. IsExact(FromDataAndSign(d, u), u * ValueOf(d))
  BY <1>3, <1>4, FromDataAndSignIs
<1>7. IsExact(FromDataAndSign(d, u), n * m)
  BY <1>1, <1>2, <1>3, <1>5, <1>6
<1> QED  BY <1>7 DEF a, b, s, t, d, u

\* mul, but for a big integer times MININT.
LEMMA MulIntegerIs ==
  ASSUME NEW i \in SailInteger, NEW j \in SailInteger,
         ~ (i.kind = "big" /\ j = SmallInt(MinInt)), ~ (j.kind = "big" /\ i = SmallInt(MinInt))
  PROVE  IsExact(MulInteger(i, j), ToBigint(i) * ToBigint(j))
<1>1. /\ i.kind \in {"int", "big"} /\ ToBigint(i) \in Int
      /\ i.kind = "int" => i.val \in MinInt .. MaxInt /\ i.val \in Int /\ ToBigint(i) = i.val
  BY IntegerIs
<1>2. /\ j.kind \in {"int", "big"} /\ ToBigint(j) \in Int
      /\ j.kind = "int" => j.val \in MinInt .. MaxInt /\ j.val \in Int /\ ToBigint(j) = j.val
  BY IntegerIs
<1>3. CASE i.kind = "int" /\ j.kind = "int"
  <2> DEFINE product == DigitOf(i.val) * DigitOf(j.val)
             x == i.val * j.val
  <2>1. MulInteger(i, j) =
          IF FitsMachine(i.val * j.val) THEN SmallInt(i.val * j.val)
          ELSE FromDataAndSign(<<Wrap(product), product \div Base>>, Sign(i.val) * Sign(j.val))
    BY <1>3 DEF MulInteger
  <2>2. x \in Int /\ x = ToBigint(i) * ToBigint(j)
    BY <1>1, <1>2, <1>3
  <2>3. CASE FitsMachine(x)
    <3> HIDE DEF x
    <3>1. x \in MinInt .. MaxInt
      BY <2>2, <2>3, HalfIs DEF FitsMachine
    <3>2. IsExact(SmallInt(x), x)
      BY <3>1, SmallIsExact
    <3> QED  BY <2>1, <2>2, <2>3, <3>2 DEF x
  <2>4. CASE ~ FitsMachine(x)
    <3>1. i.val # 0 /\ j.val # 0
      <4> SUFFICES ASSUME i.val = 0 \/ j.val = 0 PROVE FALSE
        OBVIOUS
      <4>1. x = 0
        BY <1>1, <1>2, <1>3
      <4>2. FitsMachine(0)
        BY HalfIs DEF FitsMachine
      <4> QED  BY <2>4, <4>1, <4>2
    <3>2. IsExact(FromDataAndSign(<<Wrap(product), product \div Base>>, Sign(i.val) * Sign(j.val)), i.val * j.val)
      BY <1>1, <1>2, <1>3, <3>1, MachineProduct
    <3> QED  BY <2>1, <2>2, <2>4, <3>2
  <2> QED  BY <2>3, <2>4
<1>4. CASE i.kind = "big" /\ j.kind = "int"
  <2>1. MulInteger(i, j) = IntMul(i, j.val)
    BY <1>4 DEF MulInteger
  <2>2. j.val # MinInt
    <3>1. j = SmallInt(j.val)
      BY <1>4 DEF SailInteger, SmallInt, BigInt
    <3> QED  BY <1>4, <3>1
  <2>3. IsExact(IntMul(i, j.val), ToBigint(i) * j.val)
    BY <1>2, <1>4, <2>2, IntMulIs
  <2> QED  BY <1>2, <1>4, <2>1, <2>3
<1>5. CASE i.kind = "int" /\ j.kind = "big"
  <2>1. MulInteger(i, j) = IntMul(j, i.val)
    BY <1>5 DEF MulInteger
  <2>2. i.val # MinInt
    <3>1. i = SmallInt(i.val)
      BY <1>5 DEF SailInteger, SmallInt, BigInt
    <3> QED  BY <1>5, <3>1
  <2>3. IsExact(IntMul(j, i.val), ToBigint(j) * i.val)
    BY <1>1, <1>5, <2>2, IntMulIs
  <2>4. ToBigint(j) * ToBigint(i) = ToBigint(i) * ToBigint(j)
    BY <1>1, <1>2
  <2> QED  BY <1>1, <1>5, <2>1, <2>3, <2>4
<1>6. CASE i.kind = "big" /\ j.kind = "big"
  <2> DEFINE x == ToBigint(i) * ToBigint(j)
  <2>1. x \in Int
    BY <1>1, <1>2
  <2>2. MulInteger(i, j) = IntegerFromBigint(x)
    BY <1>6 DEF MulInteger
  <2> HIDE DEF x
  <2>3. IsExact(IntegerFromBigint(x), x)
    BY <2>1, BigintIs
  <2> QED  BY <2>2, <2>3 DEF x
<1> QED  BY <1>1, <1>2, <1>3, <1>4, <1>5, <1>6

-----------------------------------------------------------------------------
(***************************************************************************)
(* Quotients rounded towards zero.                                         *)
(***************************************************************************)

\* Magnitudes divided with a remainder.
LEMMA MagnitudesDivided ==
  ASSUME NEW a \in Int, NEW b \in Int, b # 0
  PROVE  LET x == Magnitude(a) \div Magnitude(b)
             r == Magnitude(a) - Magnitude(b) * x
         IN  /\ Magnitude(a) \in Nat /\ Magnitude(b) \in Nat /\ Magnitude(b) >= 1
             /\ x \in Nat /\ x <= Magnitude(a) /\ r \in Nat /\ r < Magnitude(b)
             /\ Magnitude(b) >= 2 => 2 * x <= Magnitude(a)
             /\ a = 0 => x = 0
<1> DEFINE m == Magnitude(a)
           d == Magnitude(b)
           x == m \div d
           y == d * x
<1>1. m \in Nat /\ d \in Nat /\ d >= 1 /\ (a = 0 => m = 0) /\ m \in Int /\ d \in Int
  BY DEF Magnitude
<1> HIDE DEF m, d
<1>2. x \in Int /\ y <= m /\ m < y + d
  BY <1>1, Quotient
<1>3. y \in Int
  BY <1>1, <1>2
<1>4. x >= 0
  <2>1. 0 <= m \div d
    BY <1>1, QuotientAntitone
  <2> QED  BY <2>1
<1> HIDE DEF x
<1>5. d >= 1 => x <= y
  <2> DEFINE one == 1
  <2>1. one \in Int /\ one * x = x
    BY <1>2
  <2> HIDE DEF one
  <2>2. one <= d => one * x <= d * x
    BY <1>1, <1>2, <1>4, <2>1, ProductMonotone
  <2> QED  BY <2>1, <2>2 DEF one
<1>6. d >= 2 => 2 * x <= y
  <2> DEFINE two == 2
  <2>1. two \in Int /\ two * x = 2 * x
    BY <1>2
  <2> HIDE DEF two
  <2>2. two <= d => two * x <= d * x
    BY <1>1, <1>2, <1>4, <2>1, ProductMonotone
  <2> QED  BY <2>1, <2>2 DEF two
<1> HIDE DEF y
<1>7. x \in Nat /\ x <= m /\ m - y \in Nat /\ m - y < d /\ (d >= 2 => 2 * x <= m) /\ (a = 0 => x = 0)
  BY <1>1, <1>2, <1>3, <1>4, <1>5, <1>6
<1> QED  BY <1>1, <1>7 DEF m, d, x, y

\* rbigint's quotient and remainder round towards zero.
LEMMA TruncatedIs ==
  ASSUME NEW a \in Int, NEW b \in Int, b # 0
  PROVE  TruncatedQuotient(a, b) = Truncated(a, b) /\ Truncated(a, b) \in Int
<1> DEFINE x == Magnitude(a) \div Magnitude(b)
           s == Sign(a)
           t == Sign(b)
<1>1. x \in Nat /\ (a = 0 => x = 0)
  BY MagnitudesDivided
<1>2. TruncatedQuotient(a, b) = s * t * x
  BY DEF TruncatedQuotient
<1>3. Truncated(a, b) = IF (a < 0) = (b < 0) THEN x ELSE -x
  BY DEF Truncated, Absolute, Magnitude
<1>4. s = (IF a = 0 THEN 0 ELSE IF a < 0 THEN -1 ELSE 1) /\ t = (IF b < 0 THEN -1 ELSE 1)
  BY DEF Sign
<1> HIDE DEF x, s, t
<1>5. CASE a = 0
  <2>0. x <= 0 /\ x >= 0 /\ x \in Int
    BY <1>1, <1>5
  <2>1. x = 0 /\ -x = 0 /\ s = 0 /\ t \in {-1, 1}
    <3>1. -x = 0 /\ x = 0
      BY <2>0
    <3>2. s = 0
      BY <1>4, <1>5
    <3>3. t \in {-1, 1}
      BY <1>4
    <3> QED  BY <3>1, <3>2, <3>3
  <2>2. s * t * x = 0
    BY <2>1
  <2>3. Truncated(a, b) = 0
    BY <1>3, <2>1
  <2> QED  BY <1>2, <2>2, <2>3
<1>6. CASE a < 0 /\ b < 0
  <2>1. s * t * x = x
    BY <1>1, <1>4, <1>6
  <2>2. (a < 0) = (b < 0)
    BY <1>6
  <2> QED  BY <1>1, <1>2, <1>3, <2>1, <2>2
<1>7. CASE a < 0 /\ b > 0
  <2>1. s * t * x = -x
    BY <1>1, <1>4, <1>7
  <2>2. ~ ((a < 0) = (b < 0))
    BY <1>7
  <2> QED  BY <1>1, <1>2, <1>3, <2>1, <2>2
<1>8. CASE a > 0 /\ b < 0
  <2>1. s * t * x = -x
    BY <1>1, <1>4, <1>8
  <2>2. ~ ((a < 0) = (b < 0))
    BY <1>8
  <2> QED  BY <1>1, <1>2, <1>3, <2>1, <2>2
<1>9. CASE a > 0 /\ b > 0
  <2>1. s * t * x = x
    BY <1>1, <1>4, <1>9
  <2>2. (a < 0) = (b < 0)
    BY <1>9
  <2> QED  BY <1>1, <1>2, <1>3, <2>1, <2>2
<1>10. (a = 0 \/ a < 0 \/ a > 0) /\ (b < 0 \/ b > 0)
  OBVIOUS
<1> QED  BY <1>5, <1>6, <1>7, <1>8, <1>9, <1>10

\* Only the quotient of MININT and -1 is out of range.
LEMMA TruncatedInRange ==
  ASSUME NEW a \in MinInt .. MaxInt, NEW b \in MinInt .. MaxInt, b # 0,
         ~ (a = MinInt /\ b = -1)
  PROVE  Truncated(a, b) \in MinInt .. MaxInt
<1> DEFINE m == Magnitude(a)
           d == Magnitude(b)
           x == m \div d
           h == Base \div 2
<1>0. a \in Int /\ b \in Int
  BY HalfIs
<1>1. x \in Nat /\ x <= m /\ (d >= 2 => 2 * x <= m) /\ m \in Nat /\ d \in Nat /\ d >= 1
  BY <1>0, MagnitudesDivided
<1>2. Truncated(a, b) = IF (a < 0) = (b < 0) THEN x ELSE -x
  BY DEF Truncated, Absolute, Magnitude
<1>3. h \in Nat \ {0} /\ MaxInt = h - 1 /\ MinInt = -h
  BY HalfIs
<1>4. m = (IF a < 0 THEN -a ELSE a) /\ d = (IF b < 0 THEN -b ELSE b)
  BY DEF Magnitude
<1> HIDE DEF x, m, d, h
<1>5. m <= h /\ (m = h => a = -h)
  BY <1>0, <1>3, <1>4
<1>6. CASE x < h
  BY <1>1, <1>2, <1>3, <1>6
<1>7. CASE ~ x < h
  <2>1. x = h /\ m = h /\ a = -h /\ a < 0
    BY <1>1, <1>3, <1>5, <1>7
  <2>2. d = 1
    BY <1>1, <1>3, <2>1
  <2>3. b = 1
    BY <1>0, <1>3, <1>4, <2>1, <2>2
  <2>4. ~ ((a < 0) = (b < 0))
    BY <2>1, <2>3
  <2> QED  BY <1>2, <1>3, <2>1, <2>4
<1> QED  BY <1>6, <1>7

\* The remainder is smaller than the divisor.
LEMMA TruncatedRemainderIs ==
  ASSUME NEW a \in Int, NEW b \in Int, b # 0
  PROVE  /\ TruncatedRemainder(a, b) = a - b * Truncated(a, b)
         /\ TruncatedRemainder(a, b) \in Int
         /\ -Magnitude(b) < TruncatedRemainder(a, b) /\ TruncatedRemainder(a, b) < Magnitude(b)
<1> DEFINE m == Magnitude(a)
           d == Magnitude(b)
           x == m \div d
           q == Truncated(a, b)
<1>1. x \in Nat /\ m - d * x \in Nat /\ m - d * x < d /\ m \in Nat /\ d \in Nat
  BY MagnitudesDivided
<1>2. TruncatedQuotient(a, b) = q /\ q \in Int
  BY TruncatedIs
<1>3. TruncatedRemainder(a, b) = a - b * q
  BY <1>2 DEF TruncatedRemainder
<1>4. q = IF (a < 0) = (b < 0) THEN x ELSE -x
  BY DEF Truncated, Absolute, Magnitude
<1>5. m = (IF a < 0 THEN -a ELSE a) /\ d = (IF b < 0 THEN -b ELSE b)
  BY DEF Magnitude
<1> HIDE DEF x, m, d, q
<1> DEFINE y == d * x
<1>6. b * q = IF a < 0 THEN -y ELSE y
  <2>1. CASE b < 0
    <3>1. d = -b
      BY <1>5, <2>1
    <3>2. b * x = -y /\ b * (-x) = y
      BY <1>1, <3>1
    <3> QED  BY <1>4, <2>1, <3>2
  <2>2. CASE ~ b < 0
    <3>1. d = b
      BY <1>5, <2>2
    <3>2. b * x = y /\ b * (-x) = -y
      BY <1>1, <3>1
    <3> QED  BY <1>4, <2>2, <3>2
  <2> QED  BY <2>1, <2>2
<1>7. y \in Int
  BY <1>1
<1> HIDE DEF y
<1>8. m - y \in Nat /\ m - y < d
  BY <1>1 DEF y
<1>9. a - b * q = IF a < 0 THEN -(m - y) ELSE m - y
  BY <1>5, <1>6, <1>7
<1>10. a - b * q \in Int /\ -d < a - b * q /\ a - b * q < d
  <2> DEFINE r == a - b * q
             s == m - y
  <2>1. s \in Nat /\ s < d /\ r = IF a < 0 THEN -s ELSE s
    BY <1>8, <1>9
  <2> HIDE DEF r, s
  <2>2. r \in Int /\ -d < r /\ r < d
    BY <1>1, <2>1
  <2> QED  BY <2>2 DEF r
<1> QED  BY <1>3, <1>10 DEF q, d

\* tdiv.
LEMMA TdivIs ==
  ASSUME NEW i \in SailInteger, NEW j \in SailInteger, ToBigint(j) # 0
  PROVE  IsExact(Tdiv(i, j), Truncated(ToBigint(i), ToBigint(j)))
<1> DEFINE a == ToBigint(i)
           b == ToBigint(j)
           q == Truncated(a, b)
<1>1. /\ i.kind \in {"int", "big"} /\ a \in Int
      /\ i.kind = "int" => i.val \in MinInt .. MaxInt /\ i.val \in Int /\ a = i.val
      /\ i.kind = "big" => i.sign \in {-1, 1} /\ a = i.sign * ValueOf(i.data) /\ ValueOf(i.data) \in Nat
  BY IntegerIs
<1>2. /\ j.kind \in {"int", "big"} /\ b \in Int
      /\ j.kind = "int" => j.val \in MinInt .. MaxInt /\ j.val \in Int /\ b = j.val
  BY IntegerIs
<1>3. TruncatedQuotient(a, b) = q /\ q \in Int
  BY <1>1, <1>2, TruncatedIs
<1>4. CASE i.kind = "int" /\ j.kind = "int"
  <2>1. Tdiv(i, j) = IF i.val = MinInt /\ j.val = -1 THEN AbsInteger(i) ELSE SmallInt(q)
    BY <1>3, <1>4 DEF Tdiv
  <2>2. CASE i.val = MinInt /\ j.val = -1
    <3>1. IsExact(AbsInteger(i), Magnitude(a))
      BY NegationExact
    <3>2. a < 0 /\ b < 0 /\ a \in Int /\ b = -1
      BY <1>1, <1>2, <1>4, <2>2, HalfIs
    <3>3. q = Magnitude(a) \div 1
      <4> HIDE DEF a, b
      <4>0. Absolute(b) = 1
        <5>1. b <= -1 /\ b >= -1 /\ b < 0 /\ b \in Int
          BY <1>2, <3>2
        <5> QED  BY <5>1 DEF Absolute
      <4>1. Absolute(b) = 1 /\ Absolute(a) = Magnitude(a)
        BY <4>0 DEF Absolute, Magnitude
      <4>2. q = IF (a < 0) = (b < 0) THEN Absolute(a) \div Absolute(b) ELSE -(Absolute(a) \div Absolute(b))
        BY DEF Truncated
      <4> QED  BY <3>2, <4>1, <4>2
    <3>4. Magnitude(a) \in Int
      BY <3>2 DEF Magnitude
    <3> DEFINE m == Magnitude(a)
               one == 1
    <3> HIDE DEF m
    <3>5. m \div 1 = m
      BY <3>4 DEF m
    <3> QED  BY <2>1, <2>2, <3>1, <3>3, <3>5 DEF m
  <2>3. CASE ~ (i.val = MinInt /\ j.val = -1)
    <3>1. q \in MinInt .. MaxInt
      BY <1>1, <1>2, <1>4, <2>3, TruncatedInRange
    <3> HIDE DEF q
    <3>2. IsExact(SmallInt(q), q)
      BY <3>1, SmallIsExact
    <3> QED  BY <2>1, <2>3, <3>2 DEF q
  <2> QED  BY <2>2, <2>3
<1>5. CASE i.kind = "big" /\ j.kind = "int" /\ j.val > 0 /\ SeemsPowerOfTwo(j.val) /\ i.sign >= 0
  <2> DEFINE p == ShiftAmount(j.val)
  <2>1. Tdiv(i, j) = RshiftInteger(i, p)
    BY <1>5 DEF Tdiv
  <2>2. p \in Nat /\ Pow2[p] = b /\ b > 0
    <3>1. j.val # 0 /\ j.val # MinInt
      BY <1>2, <1>5, HalfIs
    <3> QED  BY <1>2, <1>5, <3>1, PowerOfTwoIs
  <2> HIDE DEF p
  <2>3. IsExact(RshiftInteger(i, p), Up(a, p))
    BY <2>2, RshiftIntegerIs
  <2>4. a >= 0
    <3>1. i.sign = 1
      BY <1>1, <1>5
    <3>2. a = 1 * ValueOf(i.data)
      BY <1>1, <1>5, <3>1
    <3> QED  BY <1>1, <1>5, <3>2
  <2>5. q = a \div b
    <3>1. Absolute(a) = a /\ Absolute(b) = b /\ ~ a < 0 /\ ~ b < 0
      BY <1>1, <1>2, <2>2, <2>4 DEF Absolute
    <3> QED  BY <3>1 DEF Truncated
  <2> QED  BY <2>1, <2>2, <2>3, <2>5 DEF Up
<1>6. CASE /\ ~ (i.kind = "int" /\ j.kind = "int")
           /\ ~ (i.kind = "big" /\ j.kind = "int" /\ j.val > 0 /\ SeemsPowerOfTwo(j.val) /\ i.sign >= 0)
  <2>1. Tdiv(i, j) = IntegerFromBigint(q)
    BY <1>3, <1>6 DEF Tdiv
  <2> HIDE DEF q
  <2>2. IsExact(IntegerFromBigint(q), q)
    BY <1>3, BigintIs
  <2> QED  BY <2>1, <2>2 DEF q
<1> QED  BY <1>4, <1>5, <1>6

\* tmod.
LEMMA TmodIs ==
  ASSUME NEW i \in SailInteger, NEW j \in SailInteger, ToBigint(j) # 0
  PROVE  IsExact(Tmod(i, j), ToBigint(i) - ToBigint(j) * Truncated(ToBigint(i), ToBigint(j)))
<1> DEFINE a == ToBigint(i)
           b == ToBigint(j)
           r == TruncatedRemainder(a, b)
           h == Base \div 2
<1>1. /\ i.kind \in {"int", "big"} /\ a \in Int
      /\ i.kind = "int" => i.val \in MinInt .. MaxInt /\ i.val \in Int /\ a = i.val
  BY IntegerIs
<1>2. /\ j.kind \in {"int", "big"} /\ b \in Int
      /\ j.kind = "int" => j.val \in MinInt .. MaxInt /\ j.val \in Int /\ b = j.val
  BY IntegerIs
<1>3. r = a - b * Truncated(a, b) /\ r \in Int /\ -Magnitude(b) < r /\ r < Magnitude(b)
  BY <1>1, <1>2, TruncatedRemainderIs
<1>4. h \in Nat \ {0} /\ MaxInt = h - 1 /\ MinInt = -h
  BY HalfIs
<1>5. Magnitude(b) = (IF b < 0 THEN -b ELSE b)
  BY DEF Magnitude
<1>6. Tmod(i, j) = IF j.kind = "int" /\ (i.kind = "int" \/ j.val # MinInt)
                   THEN IF i.kind = "int" /\ i.val = MinInt /\ j.val = -1 THEN IntZero
                        ELSE SmallInt(r)
                   ELSE IntegerFromBigint(r)
  BY DEF Tmod
<1>7. j.kind = "int" => r \in MinInt .. MaxInt
  <2> HIDE DEF r, h, a
  <2> SUFFICES ASSUME j.kind = "int" PROVE r \in MinInt .. MaxInt
    OBVIOUS
  <2>1. b >= -h /\ b <= h - 1
    BY <1>2, <1>4
  <2> HIDE DEF b
  <2> QED  BY <1>2, <1>3, <1>4, <1>5, <2>1
<1>8. j.kind = "int" /\ b = -1 => r = 0
  <2> HIDE DEF r, b
  <2> SUFFICES ASSUME b = -1 PROVE r = 0
    OBVIOUS
  <2>1. Magnitude(b) = 1
    BY <1>5
  <2> QED  BY <1>3, <2>1
<1> HIDE DEF r
<1>9. CASE j.kind = "int" /\ i.kind = "int" /\ i.val = MinInt /\ j.val = -1
  <2>1. r = 0 /\ r \in MinInt .. MaxInt
    BY <1>2, <1>7, <1>8, <1>9
  <2>2. IsExact(SmallInt(r), r)
    BY <2>1, SmallIsExact
  <2>3. Tmod(i, j) = SmallInt(0)
    BY <1>6, <1>9 DEF IntZero
  <2> QED  BY <1>3, <2>1, <2>2, <2>3 DEF r
<1>10. CASE j.kind = "int" /\ (i.kind = "int" \/ j.val # MinInt) /\ ~ (i.kind = "int" /\ i.val = MinInt /\ j.val = -1)
  <2>1. IsExact(SmallInt(r), r)
    BY <1>7, <1>10, SmallIsExact
  <2>2. Tmod(i, j) = SmallInt(r)
    BY <1>6, <1>10
  <2> QED  BY <1>3, <2>1, <2>2
<1>11. CASE ~ (j.kind = "int" /\ (i.kind = "int" \/ j.val # MinInt))
  <2>1. IsExact(IntegerFromBigint(r), r)
    BY <1>3, BigintIs
  <2>2. Tmod(i, j) = IntegerFromBigint(r)
    BY <1>6, <1>11
  <2> QED  BY <1>3, <2>1, <2>2
<1> QED  BY <1>9, <1>10, <1>11

-----------------------------------------------------------------------------
(***************************************************************************)
(* Quotients with a remainder that is not negative.                        *)
(***************************************************************************)

\* A quotient by a positive number lies between the dividend and zero.
LEMMA QuotientBetween ==
  ASSUME NEW a \in Int, NEW d \in Nat \ {0}
  PROVE  /\ a \div d \in Int
         /\ a >= 0 => 0 <= a \div d /\ a \div d <= a
         /\ a < 0 => a <= a \div d /\ a \div d <= 0
<1>1. d \in Int /\ d >= 1 /\ a \div d \in Int
  BY Quotient
<1>2. a >= 0 => 0 <= a \div d /\ a \div d <= a
  BY <1>1, QuotientAntitone
<1>3. ASSUME a < 0 PROVE a <= a \div d /\ a \div d <= 0
  <2> DEFINE q == a \div d
             y == d * q
  <2>1. q \in Int /\ y <= a /\ a < y + d
    BY <1>1, Quotient
  <2>2. y \in Int
    BY <1>1, <2>1
  <2>3. q <= 0
    <3> SUFFICES ASSUME q >= 1 PROVE FALSE
      BY <2>1
    <3> DEFINE one == 1
    <3>1. one \in Int /\ d * one = d /\ one <= q
      BY <1>1
    <3> HIDE DEF one, q
    <3>2. d * one <= d * q
      BY <1>1, <2>1, <3>1, ProductMonotone
    <3> HIDE DEF y
    <3>3. d <= y
      BY <3>1, <3>2 DEF y
    <3> QED  BY <1>1, <1>3, <2>1, <2>2, <3>3
  <2>4. a <= q
    <3> SUFFICES ASSUME q <= a - 1 PROVE FALSE
      BY <2>1
    <3> DEFINE c == a - 1
               e == d - 1
    <3>1. c \in Int /\ d * c = d * a - d /\ q <= c
      BY <1>1
    <3> HIDE DEF c, q
    <3>2. d * q <= d * c
      BY <1>1, <2>1, <3>1, ProductMonotone
    <3>3. d * a <= a
      <4> DEFINE one == 1
      <4>1. one \in Int /\ one * a = a /\ one <= d
        BY <1>1
      <4> HIDE DEF one
      <4>2. d * a <= one * a
        BY <1>1, <1>3, <4>1, ProductMonotone
      <4> QED  BY <4>1, <4>2
    <3> DEFINE x == d * a
    <3>4. x \in Int
      BY <1>1
    <3> HIDE DEF x, y
    <3>5. y <= x - d /\ x <= a
      BY <3>1, <3>2, <3>3 DEF x, y
    <3> QED  BY <1>1, <2>1, <2>2, <3>4, <3>5
  <2> QED  BY <2>3, <2>4
<1> QED  BY <1>1, <1>2, <1>3

\* Machine integers but MININT have machine integers as quotients.
LEMMA EuclideanInRange ==
  ASSUME NEW a \in Int, NEW b \in Int, b # 0
  PROVE  /\ Euclidean(a, b) \in Int
         /\ a \in MinInt .. MaxInt /\ a # MinInt => Euclidean(a, b) \in MinInt .. MaxInt
         /\ a = 0 => Euclidean(a, b) = 0
<1> DEFINE d == IF b > 0 THEN b ELSE -b
           q == a \div d
           h == Base \div 2
<1>1. d \in Nat \ {0}
  OBVIOUS
<1>2. h \in Nat \ {0} /\ MaxInt = h - 1 /\ MinInt = -h
  BY HalfIs
<1>3. Euclidean(a, b) = IF b > 0 THEN q ELSE -q
  BY DEF Euclidean
<1> HIDE DEF d, h
<1>4. q \in Int /\ (a >= 0 => 0 <= q /\ q <= a) /\ (a < 0 => a <= q /\ q <= 0)
  BY <1>1, QuotientBetween
<1> HIDE DEF q
<1>5. a \in MinInt .. MaxInt /\ a # MinInt => q \in MinInt .. MaxInt /\ -q \in MinInt .. MaxInt
  BY <1>2, <1>4
<1>6. a = 0 => q <= 0 /\ q >= 0
  BY <1>4
<1>7. a = 0 => q = 0 /\ -q = 0
  BY <1>4, <1>6
<1> QED  BY <1>3, <1>4, <1>5, <1>7

\* The remainder of Python's division, brought between zero and the divisor.
LEMMA EuclideanRemainder ==
  ASSUME NEW a \in Int, NEW b \in Int, b # 0
  PROVE  LET python == IF b > 0 THEN a % b ELSE -((-a) % (-b))
             remainder == IF python < 0 THEN python - b ELSE python
         IN  /\ remainder = a - b * Euclidean(a, b)
             /\ remainder \in Nat /\ remainder < Magnitude(b)
<1> DEFINE python == IF b > 0 THEN a % b ELSE -((-a) % (-b))
           remainder == IF python < 0 THEN python - b ELSE python
<1>1. CASE b > 0
  <2>1. b \in Nat \ {0}
    BY <1>1
  <2>2. a \div b \in Int /\ a % b \in 0 .. b - 1 /\ a % b \in Nat /\ a = b * (a \div b) + (a % b)
    BY <2>1, QuotientAndRemainder
  <2>3. python = a % b /\ Euclidean(a, b) = a \div b /\ Magnitude(b) = b
    BY <1>1 DEF Euclidean, Magnitude
  <2> HIDE DEF python
  <2>4. remainder = a % b
    BY <2>2, <2>3
  <2> DEFINE q == a \div b
             r == a % b
             y == b * q
  <2>5. q \in Int /\ r \in Nat /\ r < b /\ a = y + r
    BY <2>2
  <2>6. y \in Int
    BY <2>5
  <2> HIDE DEF y, r, remainder
  <2>7. r = a - y
    BY <2>5, <2>6
  <2>8. remainder = a - b * Euclidean(a, b) /\ remainder \in Nat /\ remainder < Magnitude(b)
    BY <2>3, <2>4, <2>5, <2>7 DEF r, y
  <2> QED  BY <2>8 DEF remainder, python
<1>2. CASE b < 0
  <2> DEFINE d == -b
             c == -a
             q == c \div d
             p == c % d
             y == d * q
  <2>1. d \in Nat \ {0} /\ c \in Int /\ d \in Int
    BY <1>2
  <2>2. python = -p /\ Euclidean(a, b) = -(a \div d) /\ Magnitude(b) = d
    BY <1>2 DEF Euclidean, Magnitude
  <2>3. q \in Int /\ p \in 0 .. d - 1 /\ p \in Nat /\ c = y + p
    <3> HIDE DEF d, c
    <3> QED  BY <2>1, QuotientAndRemainder
  <2>4. b = -d /\ a = -c
    BY <1>2
  <2> HIDE DEF d, c, p, q, python
  <2>5. y \in Int
    BY <2>1, <2>3
  <2>6. CASE p = 0
    <3> DEFINE u == -q
               z == p
    <3>1. u \in Int /\ d * u = -y
      BY <2>1, <2>3
    <3> HIDE DEF u, y
    <3>2. a = -y
      <4>1. p <= 0 /\ p >= 0
        BY <2>6
      <4> QED  BY <2>3, <2>4, <2>5, <4>1
    <3>3. a = d * u + p /\ p \in 0 .. d - 1
      <4>1. p <= 0 /\ p >= 0 /\ p \in Int
        BY <2>3, <2>6
      <4> DEFINE w == d * u
      <4>2. a = w /\ w \in Int
        BY <2>5, <3>1, <3>2
      <4> HIDE DEF w
      <4>3. a = w + p
        BY <4>1, <4>2
      <4> QED  BY <2>3, <4>3 DEF w
    <3>4. a \div d = u
      BY <2>1, <3>1, <3>3, QuotientIs
    <3>5. remainder = 0
      <4>1. python <= 0 /\ python >= 0 /\ python \in Int
        BY <2>2, <2>3, <2>6
      <4>2. python = 0 /\ ~ python < 0
        BY <4>1
      <4> QED  BY <4>2
    <3> HIDE DEF remainder
    <3>6. b * Euclidean(a, b) = a
      <4>1. Euclidean(a, b) = -u
        BY <2>2, <3>4
      <4>2. (-d) * (-u) = d * u
        BY <2>1, <3>1
      <4> QED  BY <2>4, <3>1, <3>2, <4>1, <4>2
    <3>7. a - b * Euclidean(a, b) = 0
      BY <3>6
    <3> QED  BY <2>1, <2>2, <3>5, <3>7 DEF remainder, python
  <2>7. CASE p # 0
    <3> DEFINE u == -q - 1
               r == d - p
    <3>1. u \in Int /\ d * u = -y - d /\ r \in 0 .. d - 1 /\ r \in Nat /\ r < d
      BY <2>1, <2>3, <2>7
    <3>2. a = -(y + p)
      BY <2>3, <2>4
    <3> HIDE DEF u, y, r
    <3>3. a = d * u + r
      <4> DEFINE w == d * u
      <4>1. w = -y - d
        BY <3>1
      <4> HIDE DEF w
      <4>2. a = w + r
        BY <2>1, <2>3, <2>5, <3>2, <4>1 DEF r
      <4> QED  BY <4>2 DEF w
    <3>4. a \div d = u
      BY <2>1, <3>1, <3>3, QuotientIs
    <3>5. remainder = r
      <4>1. python < 0 /\ python = -p
        BY <2>2, <2>3, <2>7
      <4>2. python - b = d - p
        BY <2>1, <2>3, <2>4, <4>1
      <4> QED  BY <4>1, <4>2 DEF r
    <3> HIDE DEF remainder
    <3>6. b * Euclidean(a, b) = d * u
      <4>1. Euclidean(a, b) = -u
        BY <2>2, <3>4
      <4>2. (-d) * (-u) = d * u
        BY <2>1, <3>1
      <4> QED  BY <2>4, <4>1, <4>2
    <3>7. a - b * Euclidean(a, b) = r
      <4> DEFINE w == d * u
      <4>1. w \in Int
        BY <2>1, <3>1
      <4>2. a = w + r /\ b * Euclidean(a, b) = w
        BY <3>3, <3>6
      <4> HIDE DEF w
      <4>3. a - w = r
        BY <3>1, <4>1, <4>2
      <4> QED  BY <4>2, <4>3
    <3> QED  BY <2>2, <3>1, <3>5, <3>7 DEF remainder, python
  <2> QED  BY <2>6, <2>7
<1> QED  BY <1>1, <1>2

\* ediv.
LEMMA EdivIs ==
  ASSUME NEW i \in SailInteger, NEW j \in SailInteger, ToBigint(j) # 0
  PROVE  IsExact(Ediv(i, j), Euclidean(ToBigint(i), ToBigint(j)))
<1> DEFINE a == ToBigint(i)
           b == ToBigint(j)
           q == Euclidean(a, b)
<1>1. /\ i.kind \in {"int", "big"} /\ a \in Int
      /\ i.kind = "int" => i.val \in MinInt .. MaxInt /\ i.val \in Int /\ a = i.val
  BY IntegerIs
<1>2. b \in Int
  BY IntegerIs
<1>3. /\ q \in Int
      /\ a \in MinInt .. MaxInt /\ a # MinInt => q \in MinInt .. MaxInt
      /\ a = 0 => q = 0
  BY <1>1, <1>2, EuclideanInRange
<1>4. /\ i = IntZero => Ediv(i, j) = IntZero
      /\ i # IntZero /\ Machines(i, j) => Ediv(i, j) = SmallInt(q)
      /\ ~ (i = IntZero) /\ ~ (i # IntZero /\ Machines(i, j)) => Ediv(i, j) = IntegerFromBigint(q)
  BY DEF Ediv, Euclidean
<1> HIDE DEF q
<1>5. CASE i = IntZero
  <2>1. i.kind = "int" /\ i.val = 0
    BY <1>5 DEF IntZero, SmallInt
  <2>2. 0 \in MinInt .. MaxInt /\ q = 0
    BY <1>1, <1>3, <2>1
  <2>3. IsExact(SmallInt(0), 0)
    BY <2>2, SmallIsExact
  <2> QED  BY <1>4, <1>5, <2>2, <2>3 DEF IntZero, q
<1>6. CASE i # IntZero /\ Machines(i, j)
  <2>1. q \in MinInt .. MaxInt
    BY <1>1, <1>3, <1>6 DEF Machines
  <2>2. IsExact(SmallInt(q), q)
    BY <2>1, SmallIsExact
  <2> QED  BY <1>4, <1>6, <2>2 DEF q
<1>7. CASE i # IntZero /\ ~ Machines(i, j)
  <2>1. IsExact(IntegerFromBigint(q), q)
    BY <1>3, BigintIs
  <2> QED  BY <1>4, <1>7, <2>1 DEF q
<1> QED  BY <1>5, <1>6, <1>7

\* emod.
LEMMA EmodIs ==
  ASSUME NEW i \in SailInteger, NEW j \in SailInteger, ToBigint(j) # 0
  PROVE  IsExact(Emod(i, j), ToBigint(i) - ToBigint(j) * Euclidean(ToBigint(i), ToBigint(j)))
<1> DEFINE a == ToBigint(i)
           b == ToBigint(j)
           python == IF b > 0 THEN a % b ELSE -((-a) % (-b))
           r == IF python < 0 THEN python - b ELSE python
           h == Base \div 2
<1>1. /\ i.kind \in {"int", "big"} /\ a \in Int
      /\ i.kind = "int" => i.val \in MinInt .. MaxInt /\ i.val \in Int /\ a = i.val
  BY IntegerIs
<1>2. /\ j.kind \in {"int", "big"} /\ b \in Int
      /\ j.kind = "int" => j.val \in MinInt .. MaxInt /\ j.val \in Int /\ b = j.val
  BY IntegerIs
<1>3. r = a - b * Euclidean(a, b) /\ r \in Nat /\ r < Magnitude(b)
  BY <1>1, <1>2, EuclideanRemainder
<1>4. /\ i = IntZero => Emod(i, j) = IntZero
      /\ i # IntZero /\ Machines(i, j) => Emod(i, j) = SmallInt(r)
      /\ ~ (i = IntZero) /\ ~ (i # IntZero /\ Machines(i, j)) => Emod(i, j) = IntegerFromBigint(r)
  BY DEF Emod
<1> HIDE DEF r
<1>5. CASE i = IntZero
  <2>1. i.kind = "int" /\ i.val = 0
    BY <1>5 DEF IntZero, SmallInt
  <2>2. 0 \in MinInt .. MaxInt /\ a = 0
    BY <1>1, <2>1
  <2>3. IsExact(SmallInt(0), 0)
    BY <2>2, SmallIsExact
  <2>4. a - b * Euclidean(a, b) = 0
    <3>1. Euclidean(a, b) = 0
      BY <1>1, <1>2, <2>2, EuclideanInRange
    <3>2. b * 0 = 0
      BY <1>2
    <3> QED  BY <2>2, <3>1, <3>2
  <2> QED  BY <1>4, <1>5, <2>3, <2>4 DEF IntZero
<1>6. CASE i # IntZero /\ Machines(i, j)
  <2>1. r \in MinInt .. MaxInt
    <3>1. h \in Nat \ {0} /\ MaxInt = h - 1 /\ MinInt = -h
      BY HalfIs
    <3>2. b \in MinInt .. MaxInt
      BY <1>2, <1>6 DEF Machines
    <3> HIDE DEF h, b
    <3>3. Magnitude(b) <= h /\ Magnitude(b) \in Int
      BY <1>2, <3>1, <3>2 DEF Magnitude
    <3> QED  BY <1>3, <3>1, <3>3
  <2>2. IsExact(SmallInt(r), r)
    BY <2>1, SmallIsExact
  <2> QED  BY <1>3, <1>4, <1>6, <2>2
<1>7. CASE i # IntZero /\ ~ Machines(i, j)
  <2>1. r \in Int
    BY <1>3
  <2>2. IsExact(IntegerFromBigint(r), r)
    BY <2>1, BigintIs
  <2> QED  BY <1>3, <1>4, <1>7, <2>2
<1> QED  BY <1>5, <1>6, <1>7

-----------------------------------------------------------------------------
(***************************************************************************)
(* Bits of integers replaced.                                              *)
(***************************************************************************)

\* Bits below the sign bit do not take a machine integer out of range.
LEMMA PatchedMachine ==
  ASSUME NEW n \in MinInt .. MaxInt, NEW i \in Nat, NEW width \in Nat,
         i + width < WordBits, NEW m \in Nat, m < Pow2[width]
  PROVE  /\ Patched(n, i, width, m) \in MinInt .. MaxInt
         /\ Patched(n, i, width, m) \in Int
<1> DEFINE x == Patched(n, i, width, m)
           u == Up(n, i + width)
           y == Pow2[width] * u + m
           r == Low(n, i)
           j == i + width
           k == WordBits - 1 - j
<1>1. WordBits \in Nat /\ WordBits >= 2 /\ n \in Int /\ j \in Nat /\ k \in Nat /\ j + k = WordBits - 1
      /\ WordBits - 1 \in Nat
  BY WordIs, HalfIs
<1>2. x \in Int
  BY <1>1, PatchedIs
<1>3. u \in Int /\ m \in Int
  BY <1>1, Halves
<1>4. x = Pow2[i] * y + r
  BY <1>1, PatchedSum
<1>5. r \in Nat /\ r < Pow2[i] /\ Pow2[width] \in Nat
  BY <1>1, Halves, Pow2Unfold
<1> HIDE DEF x, u, r
<1>6. y \in Int
  BY <1>3, <1>5
<1>7. Up(y, width) = u
  BY <1>3, <1>6, HalvesAre
<1> HIDE DEF y
<1>8. Up(x, i) = y
  BY <1>2, <1>4, <1>5, <1>6, HalvesAre
<1>9. Up(Up(x, i), width) = Up(x, j)
  BY <1>2, HalvesOfHalves
<1>10. Up(x, j) = Up(n, j)
  BY <1>7, <1>8, <1>9 DEF u
<1> HIDE DEF j, k
<1>11. Up(Up(x, j), k) = Up(x, j + k)
  BY <1>1, <1>2, HalvesOfHalves
<1>12. Up(Up(n, j), k) = Up(n, j + k)
  BY <1>1, HalvesOfHalves
<1>13. Up(x, WordBits - 1) = Up(n, WordBits - 1)
  BY <1>1, <1>10, <1>11, <1>12
<1>14. Up(n, WordBits - 1) \in {0, -1}
  BY <1>1, MachineNumber
<1>15. x \in MinInt .. MaxInt
  BY <1>2, <1>13, <1>14, MachineNumber
<1> QED  BY <1>2, <1>15 DEF x

\* set_slice.
LEMMA SetSliceIs ==
  ASSUME NEW i \in SailInteger, NEW start \in Nat,
         NEW v, NEW size, NEW m, IsVector(v, size, m)
  PROVE  IsExact(SetSlice(i, start, v), Patched(ToBigint(i), start, size, m))
<1> DEFINE n == ToBigint(i)
           x == Patched(n, start, size, m)
<1>1. /\ i.kind \in {"int", "big"} /\ n \in Int
      /\ i.kind = "int" => i.val \in MinInt .. MaxInt /\ i.val \in Int /\ n = i.val
  BY IntegerIs
<1>2. /\ size \in Nat \ {0} /\ size \in Nat /\ m \in Nat /\ m < Pow2[size] /\ v.size = size
      /\ (v.kind = "small" <=> size <= WordBits)
      /\ v.kind = "small" => Val(v) = m /\ m \in Word
      /\ ValueOf(v.data) = m /\ WordBits \in Nat
  BY VectorIs, WordIs
<1>3. x \in Int
  BY <1>1, <1>2, PatchedIs
<1>4. CASE i.kind = "big" \/ v.size > WordBits \/ start + v.size >= WordBits
  <2>1. SetSlice(i, start, v) = SetSliceBigint(n, start, v)
    BY <1>4 DEF SetSlice
  <2>2. SetSliceBigint(n, start, v) = IntegerFromBigint(x)
    BY <1>2 DEF SetSliceBigint, Patched, Low, Up
  <2> HIDE DEF x
  <2>3. IsExact(IntegerFromBigint(x), x)
    BY <1>3, BigintIs
  <2> QED  BY <2>1, <2>2, <2>3 DEF x
<1>5. CASE ~ (i.kind = "big" \/ v.size > WordBits \/ start + v.size >= WordBits)
  <2> DEFINE w == Wrap(i.val)
             s == Shl(m, start)
             full == start + size
             keep == w & Complement(Shl(Ones(size), start))
             t == keep | s
  <2>1. i.kind = "int" /\ size <= WordBits /\ full < WordBits /\ full \in Nat /\ full <= WordBits
        /\ v.kind = "small" /\ n \in MinInt .. MaxInt /\ n = i.val /\ i.val \in Int
    BY <1>1, <1>2, <1>5
  <2>2. SetSlice(i, start, v) = SmallInt(Intmask(keep | (s & Ones(full))))
    BY <1>2, <1>5, <2>1 DEF SetSlice
  <2>3. w \in Word /\ w = WordAt(n, 0)
    BY <2>1, WrapIsLow
  <2>4. s \in Word /\ \A k \in Nat : k < WordBits => BitOf(s, k) = IF k < start THEN 0 ELSE BitOf(m, k - start)
    <3>1. m \in Int
      BY <1>2
    <3> QED  BY <3>1, ShlBits
  <2>5. /\ (s & Ones(full)) \in Word
        /\ \A k \in Nat : k < WordBits => BitOf(s & Ones(full), k) = IF k < full THEN BitOf(s, k) ELSE 0
    <3> HIDE DEF s, full
    <3> QED  BY <2>1, <2>4, LowerPart
  <2>6. (s & Ones(full)) = s
    <3>1. ASSUME NEW k \in Nat, k < WordBits PROVE BitOf(s & Ones(full), k) = BitOf(s, k)
      <4>1. BitOf(s & Ones(full), k) = IF k < full THEN BitOf(s, k) ELSE 0
        BY <2>5, <3>1
      <4>2. CASE k < full
        BY <4>1, <4>2
      <4>3. CASE ~ k < full
        <5> DEFINE q == k - start
        <5>1. q \in Nat /\ q >= size /\ ~ k < start
          BY <1>2, <4>3
        <5> HIDE DEF q
        <5>2. BitOf(m, q) = 0
          BY <1>2, <5>1, BitsAbove
        <5>3. BitOf(s, k) = 0
          BY <2>4, <3>1, <5>1, <5>2 DEF q
        <5> QED  BY <4>1, <4>3, <5>3
      <4> QED  BY <4>2, <4>3
    <3> HIDE DEF s, full
    <3> QED  BY <2>4, <2>5, <3>1, SameWord
  <2>7. /\ t \in Word
        /\ \A k \in Nat : k < WordBits =>
             BitOf(t, k) = IF start <= k /\ k < full THEN BitOf(m, k - start) ELSE BitOf(w, k)
    <3>1. m \in Word
      BY <1>2, <2>1
    <3> HIDE DEF w
    <3> QED  BY <1>2, <2>1, <2>3, <3>1, PatchWordBits
  <2>8. t = WordAt(x, 0)
    <3>1. ASSUME NEW k \in Nat, k < WordBits PROVE BitOf(t, k) = BitOf(x, k)
      <4>1. BitOf(x, k) = IF start <= k /\ k < full THEN BitOf(m, k - start) ELSE BitOf(n, k)
        BY <1>1, <1>2, PatchedBit
      <4>2. BitOf(w, k) = BitOf(n, k)
        <5> DEFINE zero == 0
        <5>1. zero \in Nat /\ zero + k = k
          OBVIOUS
        <5> HIDE DEF zero, n
        <5>2. BitOf(WordAt(n, zero), k) = BitOf(n, zero + k)
          BY <1>1, <3>1, <5>1, WordAtIs
        <5> QED  BY <2>3, <5>1, <5>2 DEF zero
      <4> HIDE DEF t, x, w, n, full
      <4>3. BitOf(t, k) = IF start <= k /\ k < full THEN BitOf(m, k - start) ELSE BitOf(w, k)
        BY <2>7, <3>1
      <4> QED  BY <4>1, <4>2, <4>3
    <3> DEFINE zero == 0
    <3>2. zero \in Nat /\ \A k \in Nat : zero + k = k
      OBVIOUS
    <3> HIDE DEF t, x, zero
    <3>3. ASSUME NEW k \in Nat, k < WordBits PROVE BitOf(t, k) = BitOf(x, zero + k)
      BY <3>1, <3>2, <3>3
    <3>4. t = WordAt(x, zero)
      BY <1>3, <2>7, <3>2, <3>3, IsWordAt
    <3> QED  BY <3>4 DEF zero
  <2>9. Wrap(x) = t
    <3> HIDE DEF x, t
    <3> QED  BY <1>3, <2>8, WrapIsLow
  <2>10. x \in MinInt .. MaxInt
    BY <1>2, <2>1, PatchedMachine
  <2>11. Intmask(Wrap(x)) = x
    <3> HIDE DEF x
    <3> QED  BY <1>3, <2>10, MachineNumber
  <2>12. SetSlice(i, start, v) = SmallInt(x)
    <3> HIDE DEF x, keep, s
    <3> QED  BY <2>2, <2>6, <2>9, <2>11
  <2> HIDE DEF x
  <2>13. IsExact(SmallInt(x), x)
    BY <2>10, SmallIsExact
  <2> QED  BY <2>12, <2>13 DEF x
<1> QED  BY <1>4, <1>5

-----------------------------------------------------------------------------
(***************************************************************************)
(* The machine: what a register means.                                     *)
(***************************************************************************)

\* the representation r is proper and stands for the value x
Means(r, x) ==
  \/ \E size, n : IsVector(r, size, n) /\ x = [kind |-> "bits", size |-> size, n |-> n]
  \/ \E n : IsExact(r, n) /\ x = Number(n)

Represented == Means(register, value)

\* A representation of a number modulo the size.
LEMMA VectorMeans ==
  ASSUME NEW r, NEW size, NEW n, IsVector(r, size, Low(n, size))
  PROVE  Means(r, Bits(size, n))
<1>1. Bits(size, n) = [kind |-> "bits", size |-> size, n |-> Low(n, size)]
  BY DEF Bits, Low
<1> QED  BY <1>1 DEF Means

\* A representation of a number that fits its size.
LEMMA ExactMeans ==
  ASSUME NEW r, NEW size, NEW n, IsVector(r, size, n)
  PROVE  Means(r, Bits(size, n))
<1>1. Low(n, size) = n
  BY VectorIs
<1> QED  BY <1>1, VectorMeans

\* A representation of an integer.
LEMMA IntegerMeans ==
  ASSUME NEW r, NEW n, IsExact(r, n)
  PROVE  Means(r, Number(n))
BY DEF Means

\* What is known of a vector that stands for a value.
LEMMA VectorValue ==
  ASSUME NEW r, NEW x, Means(r, x), IsBits(r)
  PROVE  /\ IsVector(r, x.size, x.n) /\ r.size = x.size /\ Denote(r) = x
         /\ x.size \in Nat \ {0} /\ x.n \in Nat /\ x = Bits(x.size, x.n)
<1>1. ~ \E n : IsExact(r, n)
  BY IntegerIs DEF IsExact, IsBits
<1>2. PICK size, n : IsVector(r, size, n) /\ x = [kind |-> "bits", size |-> size, n |-> n]
  BY <1>1 DEF Means
<1>3. size \in Nat \ {0} /\ n \in Nat /\ r.size = size /\ ValueOf(r.data) = n /\ Low(n, size) = n
  BY <1>2, VectorIs
<1>4. Bits(size, n) = [kind |-> "bits", size |-> size, n |-> n]
  BY <1>3 DEF Bits, Low
<1>5. Denote(r) = Bits(size, n)
  BY <1>3 DEF Denote
<1>6. x.size = size /\ x.n = n
  BY <1>2
<1> QED  BY <1>2, <1>3, <1>4, <1>5, <1>6

\* What is known of an integer that stands for a value.
LEMMA IntegerValue ==
  ASSUME NEW r, NEW x, Means(r, x), ~ IsBits(r)
  PROVE  /\ r \in SailInteger /\ ToBigint(r) = x.n /\ x = Number(x.n)
         /\ x.n \in Int /\ Denote(r) = x
<1>1. ~ \E size, n : IsVector(r, size, n)
  BY VectorIs DEF IsBits
<1>2. PICK n : IsExact(r, n) /\ x = Number(n)
  BY <1>1 DEF Means
<1>3. r \in SailInteger /\ ToBigint(r) = n /\ n \in Int
  BY <1>2, IntegerIs DEF IsExact
<1>4. x.n = n
  BY <1>2 DEF Number
<1>5. Denote(r) = Number(ToBigint(r))
  BY DEF Denote
<1> QED  BY <1>2, <1>3, <1>4, <1>5

\* The operands that are enumerated are proper.
LEMMA VectorOperand ==
  ASSUME NEW size \in Nat \ {0}, NEW w \in BitVectorsOf(size)
  PROVE  /\ IsVector(w, size, NumberOf(w)) /\ NumberOf(w) \in Nat
         /\ Denote(w) = Bits(size, NumberOf(w)) /\ Denote(w).n = NumberOf(w) /\ Denote(w).size = size
         /\ w.size = size /\ IsBits(w)
<1>1. Pow2[size] \in Nat /\ size \in Nat
  BY Pow2Unfold
<1>2. \E n : IsVector(w, size, n)
  <2>1. CASE size <= WordBits
    <3>1. PICK n \in 0 .. Pow2[size] - 1 : w = Small(size, n)
      BY <2>1 DEF BitVectorsOf
    <3>2. IsVector(w, size, n)
      BY <1>1, <2>1, <3>1 DEF IsVector
    <3> QED  BY <3>2
  <2>2. CASE ~ size <= WordBits
    <3>1. size > WordBits
      BY <1>1, <2>2, WordIs
    <3>2. CASE \E word \in Word : w = Sparse(size, word)
      <4>1. PICK word \in Word : w = Sparse(size, word)
        BY <3>2
      <4>2. IsVector(w, size, word)
        BY <3>1, <4>1, IsSparse
      <4> QED  BY <4>2
    <3>3. CASE \E n \in 0 .. Pow2[size] - 1 : w = FromBigint(size, n)
      <4>1. PICK n \in 0 .. Pow2[size] - 1 : w = FromBigint(size, n)
        BY <3>3
      <4>2. n \in Int
        BY <1>1
      <4>3. IsVector(w, size, Low(n, size))
        BY <4>1, <4>2, FromBigintIs
      <4> QED  BY <4>3
    <3> QED  BY <2>2, <3>2, <3>3 DEF BitVectorsOf
  <2> QED  BY <2>1, <2>2
<1>3. PICK n : IsVector(w, size, n)
  BY <1>2
<1>4. IsBits(w) /\ w.size = size /\ ValueOf(w.data) = n /\ Low(n, size) = n /\ n \in Nat
  BY <1>3, VectorIs DEF IsBits
<1>5. Denote(w) = Bits(size, n)
  BY <1>4 DEF Denote
<1>6. Bits(size, n).n = n /\ Bits(size, n).size = size
  BY <1>4 DEF Bits, Low
<1> QED  BY <1>3, <1>4, <1>5, <1>6 DEF NumberOf

\* Integers that are enumerated are proper.
LEMMA IntegerOperand ==
  ASSUME NEW i \in Integers1
  PROVE  /\ i \in SailInteger /\ NumberOf(i) = ToBigint(i) /\ NumberOf(i) \in Int
         /\ ~ IsBits(i)
         /\ i # IntZero => ToBigint(i) # 0
<1>1. i \in SailInteger
  <2>1. CASE \E n \in MinInt .. MaxInt : i = SmallInt(n)
    BY <2>1 DEF SmallInt, SailInteger
  <2>2. CASE \E d \in {e \in UNION {[1 .. k -> Word] : k \in 1 .. MaxDigits} : e[Len(e)] # 0},
                sign \in {-1, 1} : i = BigInt(d, sign)
    <3>1. PICK k \in 1 .. MaxDigits : \E d \in [1 .. k -> Word], sign \in {-1, 1} :
            d[Len(d)] # 0 /\ i = BigInt(d, sign)
      BY <2>2
    <3>2. PICK d \in [1 .. k -> Word], sign \in {-1, 1} : d[Len(d)] # 0 /\ i = BigInt(d, sign)
      BY <3>1
    <3>3. k \in Nat /\ k >= 1
      OBVIOUS
    <3>4. d \in Seq(Word) /\ Len(d) = k
      BY <3>3
    <3>5. d # <<>>
      BY <3>3, <3>4
    <3> QED  BY <3>2, <3>4, <3>5 DEF BigInt, SailInteger, Data, Arrays
  <2> QED  BY <2>1, <2>2 DEF Integers1
<1>2. /\ i.kind \in {"int", "big"} /\ ToBigint(i) \in Int
      /\ i.kind = "int" => i.val \in MinInt .. MaxInt /\ i.val \in Int /\ ToBigint(i) = i.val
      /\ i.kind = "big" => i.sign \in {-1, 1} /\ ValueOf(i.data) \in Nat /\ ValueOf(i.data) >= 1
                           /\ ToBigint(i) = i.sign * ValueOf(i.data)
  BY <1>1, IntegerIs
<1>3. ~ IsBits(i)
  BY <1>2 DEF IsBits
<1>4. NumberOf(i) = ToBigint(i)
  BY <1>3 DEF NumberOf, Denote, Number
<1>5. ASSUME ToBigint(i) = 0 PROVE i = IntZero
  <2>1. i.kind # "big"
    BY <1>2, <1>5
  <2>2. i.kind = "int" /\ i.val = 0
    BY <1>2, <1>5, <2>1
  <2> QED  BY <1>1, <2>2 DEF SailInteger, IntZero, SmallInt
<1> QED  BY <1>1, <1>2, <1>3, <1>4, <1>5

\* ExactValues writes a patched number so.
LEMMA ReplacedIs ==
  ASSUME NEW n, NEW low, NEW b
  PROVE  Replaced(n, low, b) = Patched(n, low, b.size, b.n)
BY DEF Replaced, Patched, Low, Up

\* ExactValues writes a number in two's complement so.
LEMMA SignedOfIs ==
  ASSUME NEW b
  PROVE  SignedOf(b) = SignedNumber(b.size, b.n)
BY DEF SignedOf, SignedNumber

-----------------------------------------------------------------------------
(***************************************************************************)
(* The steps of the machine on bit vectors.                                *)
(***************************************************************************)

\* What a step finds in the registers.
LEMMA BitsFound ==
  ASSUME Represented, BitsRegister
  PROVE  /\ IsVector(register, value.size, value.n) /\ register.size = value.size
         /\ value.size \in Nat \ {0} /\ value.n \in Nat
BY VectorValue DEF Represented, BitsRegister

LEMMA IntegerFound ==
  ASSUME Represented, ~ IsBits(register)
  PROVE  register \in SailInteger /\ ToBigint(register) = value.n /\ value.n \in Int
BY IntegerValue DEF Represented

\* A small integer stands for itself.
LEMMA InitRepresented ==
  Init => Represented
<1> SUFFICES ASSUME Init PROVE Represented
  OBVIOUS
<1>1. PICK n \in MinInt .. MaxInt : register = SmallInt(n) /\ value = Number(n)
  BY DEF Init
<1>2. IsExact(register, n)
  BY <1>1, SmallIsExact
<1> QED  BY <1>1, <1>2, IntegerMeans DEF Represented

\* Sums, differences and bit by bit.
LEMMA WithVectors ==
  ASSUME Represented, BitsRegister, NEW w \in BitVectorsOf(register.size)
  PROVE  /\ IsVector(w, value.size, NumberOf(w)) /\ NumberOf(w) \in Nat
         /\ Denote(w).n = NumberOf(w)
BY BitsFound, VectorOperand

\* Sums and differences of vectors.
LEMMA SumsOfVectors ==
  ASSUME Represented, Add_bits \/ Sub_bits
  PROVE  Represented'
<1>0. BitsRegister
  BY DEF Add_bits, Sub_bits
<1> DEFINE v == register
           size == value.size
           n == value.n
<1>1. IsVector(v, size, n)
  BY <1>0, BitsFound
<1>2. CASE Add_bits
  <2>1. PICK w \in BitVectorsOf(v.size) : Becomes(AddBits(v, w), Bits(size, n + NumberOf(w)))
    BY <1>2 DEF Add_bits
  <2>2. IsVector(w, size, NumberOf(w))
    BY <1>0, WithVectors
  <2>3. IsVector(AddBits(v, w), size, Low(n + NumberOf(w), size))
    BY <1>1, <2>2, AddBitsIs
  <2>4. Means(AddBits(v, w), Bits(size, n + NumberOf(w)))
    BY <2>3, VectorMeans
  <2> QED  BY <2>1, <2>4 DEF Becomes, Represented
<1>3. CASE Sub_bits
  <2>1. PICK w \in BitVectorsOf(v.size) : Becomes(SubBits(v, w), Bits(size, n - NumberOf(w)))
    BY <1>3 DEF Sub_bits
  <2>2. IsVector(w, size, NumberOf(w))
    BY <1>0, WithVectors
  <2>3. IsVector(SubBits(v, w), size, Low(n - NumberOf(w), size))
    BY <1>1, <2>2, SubBitsIs
  <2>4. Means(SubBits(v, w), Bits(size, n - NumberOf(w)))
    BY <2>3, VectorMeans
  <2> QED  BY <2>1, <2>4 DEF Becomes, Represented
<1> QED  BY <1>2, <1>3

\* xor, or and and of vectors.
LEMMA BitByBit ==
  ASSUME Represented, Xor_bits \/ Or_bits \/ And_bits
  PROVE  Represented'
<1>0. BitsRegister
  BY DEF Xor_bits, Or_bits, And_bits
<1> DEFINE v == register
           size == value.size
           n == value.n
<1>1. IsVector(v, size, n)
  BY <1>0, BitsFound
<1>2. CASE Xor_bits
  <2>1. PICK w \in BitVectorsOf(v.size) : Becomes(XorBits(v, w), Bitwise2(XorBit, value, Denote(w)))
    BY <1>2 DEF Xor_bits
  <2>2. IsVector(w, size, NumberOf(w)) /\ Denote(w).n = NumberOf(w)
    BY <1>0, WithVectors
  <2>3. IsVector(XorBits(v, w), size, Combined(XorBit, size, n, NumberOf(w)))
    BY <1>1, <2>2, XorBitsIs
  <2>4. Means(XorBits(v, w), Bits(size, Combined(XorBit, size, n, NumberOf(w))))
    BY <2>3, ExactMeans
  <2>5. Bitwise2(XorBit, value, Denote(w)) = Bits(size, Combined(XorBit, size, n, NumberOf(w)))
    BY <2>2 DEF Bitwise2
  <2> QED  BY <2>1, <2>4, <2>5 DEF Becomes, Represented
<1>3. CASE Or_bits
  <2>1. PICK w \in BitVectorsOf(v.size) : Becomes(OrBits(v, w), Bitwise2(OrBit, value, Denote(w)))
    BY <1>3 DEF Or_bits
  <2>2. IsVector(w, size, NumberOf(w)) /\ Denote(w).n = NumberOf(w)
    BY <1>0, WithVectors
  <2>3. IsVector(OrBits(v, w), size, Combined(OrBit, size, n, NumberOf(w)))
    BY <1>1, <2>2, OrBitsIs
  <2>4. Means(OrBits(v, w), Bits(size, Combined(OrBit, size, n, NumberOf(w))))
    BY <2>3, ExactMeans
  <2>5. Bitwise2(OrBit, value, Denote(w)) = Bits(size, Combined(OrBit, size, n, NumberOf(w)))
    BY <2>2 DEF Bitwise2
  <2> QED  BY <2>1, <2>4, <2>5 DEF Becomes, Represented
<1>4. CASE And_bits
  <2>1. PICK w \in BitVectorsOf(v.size) : Becomes(AndBits(v, w), Bitwise2(AndBit, value, Denote(w)))
    BY <1>4 DEF And_bits
  <2>2. IsVector(w, size, NumberOf(w)) /\ Denote(w).n = NumberOf(w)
    BY <1>0, WithVectors
  <2>3. IsVector(AndBits(v, w), size, Combined(AndBit, size, n, NumberOf(w)))
    BY <1>1, <2>2, AndBitsIs
  <2>4. Means(AndBits(v, w), Bits(size, Combined(AndBit, size, n, NumberOf(w))))
    BY <2>3, ExactMeans
  <2>5. Bitwise2(AndBit, value, Denote(w)) = Bits(size, Combined(AndBit, size, n, NumberOf(w)))
    BY <2>2 DEF Bitwise2
  <2> QED  BY <2>1, <2>4, <2>5 DEF Becomes, Represented
<1> QED  BY <1>2, <1>3, <1>4

\* A vector inverted, and with an integer added or subtracted.
LEMMA WithIntegers ==
  ASSUME Represented, Invert_bits \/ Add_int \/ Sub_int
  PROVE  Represented'
<1>0. BitsRegister
  BY DEF Invert_bits, Add_int, Sub_int
<1> DEFINE v == register
           size == value.size
           n == value.n
<1>1. IsVector(v, size, n)
  BY <1>0, BitsFound
<1>2. CASE Invert_bits
  <2>1. Becomes(Invert(v), Bits(size, -1 - n))
    BY <1>2 DEF Invert_bits
  <2>2. IsVector(Invert(v), size, Low(-1 - n, size))
    BY <1>1, InvertIs
  <2>3. Means(Invert(v), Bits(size, -1 - n))
    BY <2>2, VectorMeans
  <2> QED  BY <2>1, <2>3 DEF Becomes, Represented
<1>3. CASE Add_int
  <2>1. PICK i \in Integers1 : Becomes(AddInt(v, i), Bits(size, n + NumberOf(i)))
    BY <1>3 DEF Add_int
  <2>2. i \in SailInteger /\ NumberOf(i) = ToBigint(i)
    BY IntegerOperand
  <2>3. IsVector(AddInt(v, i), size, Low(n + ToBigint(i), size))
    BY <1>1, <2>2, AddIntIs
  <2>4. Means(AddInt(v, i), Bits(size, n + ToBigint(i)))
    BY <2>3, VectorMeans
  <2> QED  BY <2>1, <2>2, <2>4 DEF Becomes, Represented
<1>4. CASE Sub_int
  <2>1. PICK i \in Integers1 : Becomes(SubInt(v, i), Bits(size, n - NumberOf(i)))
    BY <1>4 DEF Sub_int
  <2>2. i \in SailInteger /\ NumberOf(i) = ToBigint(i)
    BY IntegerOperand
  <2>3. IsVector(SubInt(v, i), size, Low(n - ToBigint(i), size))
    BY <1>1, <2>2, SubIntIs
  <2>4. Means(SubInt(v, i), Bits(size, n - ToBigint(i)))
    BY <2>3, VectorMeans
  <2> QED  BY <2>1, <2>2, <2>4 DEF Becomes, Represented
<1> QED  BY <1>2, <1>3, <1>4

\* Shifts of vectors.
LEMMA Shifts ==
  ASSUME Represented, Lshift_bits \/ Rshift_bits \/ Arith_rshift
  PROVE  Represented'
<1>0. BitsRegister
  BY DEF Lshift_bits, Rshift_bits, Arith_rshift
<1> DEFINE v == register
           size == value.size
           n == value.n
<1>1. IsVector(v, size, n)
  BY <1>0, BitsFound
<1>a. \A i \in 0 .. MaxShift : i \in Nat
  BY ValueAssumption
<1>2. CASE Lshift_bits
  <2>1. PICK i \in 0 .. MaxShift : Becomes(Lshift(v, i), Bits(size, n * Pow2[i]))
    BY <1>2 DEF Lshift_bits
  <2>2. i \in Nat
    BY <1>a
  <2>3. IsVector(Lshift(v, i), size, Low(n * Pow2[i], size))
    BY <1>1, <2>2, LshiftIs
  <2>4. Means(Lshift(v, i), Bits(size, n * Pow2[i]))
    BY <2>3, VectorMeans
  <2> QED  BY <2>1, <2>4 DEF Becomes, Represented
<1>3. CASE Rshift_bits
  <2>1. PICK i \in 0 .. MaxShift : Becomes(Rshift(v, i), Bits(size, n \div Pow2[i]))
    BY <1>3 DEF Rshift_bits
  <2>2. i \in Nat
    BY <1>a
  <2>3. IsVector(Rshift(v, i), size, Up(n, i))
    BY <1>1, <2>2, RshiftIs
  <2>4. Means(Rshift(v, i), Bits(size, Up(n, i)))
    BY <2>3, ExactMeans
  <2>5. Up(n, i) = n \div Pow2[i]
    BY DEF Up
  <2> QED  BY <2>1, <2>4, <2>5 DEF Becomes, Represented
<1>4. CASE Arith_rshift
  <2>1. PICK i \in 0 .. MaxShift :
          Becomes(ArithRshift(v, i), Bits(size, SignedOf(value) \div Pow2[i]))
    BY <1>4 DEF Arith_rshift
  <2>2. i \in Nat
    BY <1>a
  <2>3. IsVector(ArithRshift(v, i), size, Low(Up(SignedNumber(size, n), i), size))
    BY <1>1, <2>2, ArithRshiftIs
  <2>4. Means(ArithRshift(v, i), Bits(size, Up(SignedNumber(size, n), i)))
    BY <2>3, VectorMeans
  <2>5. Up(SignedNumber(size, n), i) = SignedOf(value) \div Pow2[i]
    BY SignedOfIs DEF Up
  <2> QED  BY <2>1, <2>4, <2>5 DEF Becomes, Represented
<1> QED  BY <1>2, <1>3, <1>4

\* Vectors cut and extended.
LEMMA PartsAndExtensions ==
  ASSUME Represented, Subrange_bits \/ Truncate_bits \/ Zero_extend \/ Sign_extend
  PROVE  Represented'
<1>0. BitsRegister
  BY DEF Subrange_bits, Truncate_bits, Zero_extend, Sign_extend
<1> DEFINE v == register
           size == value.size
           n == value.n
<1>1. IsVector(v, size, n) /\ v.size = size /\ size \in Nat \ {0} /\ size \in Nat
  BY <1>0, BitsFound
<1>2. CASE Subrange_bits
  <2>1. PICK high \in 0 .. v.size - 1 : \E low \in 0 .. high :
          Becomes(Subrange(v, high, low), Part(n, high, low))
    BY <1>2 DEF Subrange_bits
  <2>2. PICK low \in 0 .. high : Becomes(Subrange(v, high, low), Part(n, high, low))
    BY <2>1
  <2>3. high \in 0 .. size - 1
    BY <1>1
  <2>4. IsVector(Subrange(v, high, low), high - low + 1, Low(Up(n, low), high - low + 1))
    BY <1>1, <2>3, SubrangeIs
  <2>5. Means(Subrange(v, high, low), Bits(high - low + 1, Up(n, low)))
    BY <2>4, VectorMeans
  <2>6. Part(n, high, low) = Bits(high - low + 1, Up(n, low))
    BY DEF Part, Up
  <2> QED  BY <2>2, <2>5, <2>6 DEF Becomes, Represented
<1>3. CASE Truncate_bits
  <2>1. PICK i \in 1 .. v.size : Becomes(Truncate(v, i), Bits(i, n))
    BY <1>3 DEF Truncate_bits
  <2>2. i \in 1 .. size
    BY <1>1
  <2>3. IsVector(Truncate(v, i), i, Low(n, i))
    BY <1>1, <2>2, TruncateIs
  <2>4. Means(Truncate(v, i), Bits(i, n))
    BY <2>3, VectorMeans
  <2> QED  BY <2>1, <2>4 DEF Becomes, Represented
<1>a. \A i \in v.size .. MaxSize : i \in Nat /\ i >= size
  BY <1>1, ValueAssumption
<1>4. CASE Zero_extend
  <2>1. PICK i \in v.size .. MaxSize : Becomes(ZeroExtend(v, i), Bits(i, n))
    BY <1>4 DEF Zero_extend
  <2>2. i \in Nat /\ i >= size
    BY <1>a
  <2>3. IsVector(ZeroExtend(v, i), i, n)
    BY <1>1, <2>2, ZeroExtendIs
  <2>4. Means(ZeroExtend(v, i), Bits(i, n))
    BY <2>3, ExactMeans
  <2> QED  BY <2>1, <2>4 DEF Becomes, Represented
<1>5. CASE Sign_extend
  <2>1. PICK i \in v.size .. MaxSize : Becomes(SignExtend(v, i), Bits(i, SignedOf(value)))
    BY <1>5 DEF Sign_extend
  <2>2. i \in Nat /\ i >= size
    BY <1>a
  <2>3. IsVector(SignExtend(v, i), i, Low(SignedNumber(size, n), i))
    BY <1>1, <2>2, SignExtendIs
  <2>4. Means(SignExtend(v, i), Bits(i, SignedNumber(size, n)))
    BY <2>3, VectorMeans
  <2>5. SignedNumber(size, n) = SignedOf(value)
    BY SignedOfIs
  <2> QED  BY <2>1, <2>4, <2>5 DEF Becomes, Represented
<1> QED  BY <1>2, <1>3, <1>4, <1>5

\* Vectors with some bits replaced.
LEMMA Updates ==
  ASSUME Represented, Update_bit \/ Update_subrange
  PROVE  Represented'
<1>0. BitsRegister
  BY DEF Update_bit, Update_subrange
<1> DEFINE v == register
           size == value.size
           n == value.n
<1>1. IsVector(v, size, n) /\ v.size = size /\ size \in Nat \ {0} /\ size \in Nat
  BY <1>0, BitsFound
<1>2. CASE Update_bit
  <2>1. PICK pos \in 0 .. v.size - 1, bit \in BOOLEAN :
          Becomes(UpdateBit(v, pos, bit), Bits(size, Replaced(n, pos, Bits(1, Bit(bit)))))
    BY <1>2 DEF Update_bit
  <2>2. pos \in 0 .. size - 1
    BY <1>1
  <2>3. IsVector(UpdateBit(v, pos, bit), size, Patched(n, pos, 1, Bit(bit)))
    BY <1>1, <2>2, UpdateBitIs
  <2>4. Means(UpdateBit(v, pos, bit), Bits(size, Patched(n, pos, 1, Bit(bit))))
    BY <2>3, ExactMeans
  <2>5. Bits(1, Bit(bit)).size = 1 /\ Bits(1, Bit(bit)).n = Bit(bit)
    <3>1. Pow2[1] = 2
      BY Pow2Unfold
    <3>2. Bit(bit) \in {0, 1}
      BY DEF Bit
    <3>3. Bit(bit) % 2 = Bit(bit)
      BY <3>2
    <3> QED  BY <3>1, <3>3 DEF Bits
  <2>6. Replaced(n, pos, Bits(1, Bit(bit))) = Patched(n, pos, 1, Bit(bit))
    BY <2>5, ReplacedIs
  <2> QED  BY <2>1, <2>4, <2>6 DEF Becomes, Represented
<1>3. CASE Update_subrange
  <2>1. PICK high \in 0 .. v.size - 1 : \E low \in 0 .. high : \E s \in BitVectorsOf(high - low + 1) :
          Becomes(UpdateSubrange(v, high, low, s), Bits(size, Replaced(n, low, Denote(s))))
    BY <1>3 DEF Update_subrange
  <2>2. PICK low \in 0 .. high : \E s \in BitVectorsOf(high - low + 1) :
          Becomes(UpdateSubrange(v, high, low, s), Bits(size, Replaced(n, low, Denote(s))))
    BY <2>1
  <2> DEFINE width == high - low + 1
  <2>3. PICK s \in BitVectorsOf(width) :
          Becomes(UpdateSubrange(v, high, low, s), Bits(size, Replaced(n, low, Denote(s))))
    BY <2>2
  <2>4. high \in 0 .. size - 1 /\ width \in Nat \ {0}
    BY <1>1
  <2>5. IsVector(s, width, NumberOf(s)) /\ Denote(s).n = NumberOf(s) /\ Denote(s).size = width
    <3> HIDE DEF width
    <3> QED  BY <2>4, VectorOperand
  <2>6. IsVector(UpdateSubrange(v, high, low, s), size, Patched(n, low, width, NumberOf(s)))
    BY <1>1, <2>4, <2>5, UpdateSubrangeIs
  <2>7. Means(UpdateSubrange(v, high, low, s), Bits(size, Patched(n, low, width, NumberOf(s))))
    BY <2>6, ExactMeans
  <2>8. Replaced(n, low, Denote(s)) = Patched(n, low, width, NumberOf(s))
    BY <2>5, ReplacedIs
  <2> QED  BY <2>3, <2>7, <2>8 DEF Becomes, Represented
<1> QED  BY <1>2, <1>3

\* Vectors joined and repeated.
LEMMA Joins ==
  ASSUME Represented, Append_bits \/ Replicate_bits
  PROVE  Represented'
<1>0. BitsRegister
  BY DEF Append_bits, Replicate_bits
<1> DEFINE v == register
           size == value.size
           n == value.n
<1>1. IsVector(v, size, n) /\ v.size = size /\ size \in Nat \ {0} /\ size \in Nat /\ n \in Nat
  BY <1>0, BitsFound
<1>2. CASE Append_bits
  <2>1. PICK width \in 1 .. MaxSize - v.size : \E w \in BitVectorsOf(width) :
          Becomes(AppendBits(v, w), Bits(size + width, n * Pow2[width] + NumberOf(w)))
    BY <1>2 DEF Append_bits
  <2>2. PICK w \in BitVectorsOf(width) :
          Becomes(AppendBits(v, w), Bits(size + width, n * Pow2[width] + NumberOf(w)))
    BY <2>1
  <2>3. width \in Nat \ {0} /\ width \in Nat
    BY <1>1, ValueAssumption
  <2>4. IsVector(w, width, NumberOf(w))
    BY <2>3, VectorOperand
  <2>5. IsVector(AppendBits(v, w), size + width, Pow2[width] * n + NumberOf(w))
    BY <1>1, <2>4, AppendBitsIs
  <2>6. Means(AppendBits(v, w), Bits(size + width, Pow2[width] * n + NumberOf(w)))
    BY <2>5, ExactMeans
  <2>7. Pow2[width] \in Nat
    BY <2>3, Pow2Unfold
  <2>8. Pow2[width] * n = n * Pow2[width]
    BY <1>1, <2>7
  <2> QED  BY <2>2, <2>6, <2>8 DEF Becomes, Represented
<1>3. CASE Replicate_bits
  <2>1. PICK times \in 1 .. MaxSize \div v.size :
          Becomes(Replicate(v, times),
                  Bits(size * times, n * ((Pow2[size * times] - 1) \div Ones(size))))
    BY <1>3 DEF Replicate_bits
  <2>2. times \in Nat \ {0}
    <3>1. MaxSize \div v.size \in Int
      BY <1>1, ValueAssumption
    <3> QED  BY <3>1
  <2>3. IsVector(Replicate(v, times), size * times, n * Repeated(size, times))
    BY <1>1, <2>2, ReplicateIs
  <2>4. Means(Replicate(v, times), Bits(size * times, n * Repeated(size, times)))
    BY <2>3, ExactMeans
  <2>5. Repeated(size, times) = (Pow2[size * times] - 1) \div Ones(size)
    BY DEF Repeated
  <2> QED  BY <2>1, <2>4, <2>5 DEF Becomes, Represented
<1> QED  BY <1>2, <1>3

\* Vectors read as integers.
LEMMA Readings ==
  ASSUME Represented, Signed_bits \/ Unsigned_bits
  PROVE  Represented'
<1>0. BitsRegister
  BY DEF Signed_bits, Unsigned_bits
<1> DEFINE v == register
           size == value.size
           n == value.n
<1>1. IsVector(v, size, n)
  BY <1>0, BitsFound
<1>2. CASE Signed_bits
  <2>1. Becomes(Signed(v), Number(SignedOf(value)))
    BY <1>2 DEF Signed_bits
  <2>2. IsExact(Signed(v), SignedNumber(size, n))
    BY <1>1, SignedVectorIs
  <2>3. Means(Signed(v), Number(SignedNumber(size, n)))
    BY <2>2, IntegerMeans
  <2>4. SignedNumber(size, n) = SignedOf(value)
    BY SignedOfIs
  <2> QED  BY <2>1, <2>3, <2>4 DEF Becomes, Represented
<1>3. CASE Unsigned_bits
  <2>1. Becomes(Unsigned(v), Number(n))
    BY <1>3 DEF Unsigned_bits
  <2>2. IsExact(Unsigned(v), n)
    BY <1>1, UnsignedIs
  <2>3. Means(Unsigned(v), Number(n))
    BY <2>2, IntegerMeans
  <2> QED  BY <2>1, <2>3 DEF Becomes, Represented
<1> QED  BY <1>2, <1>3

-----------------------------------------------------------------------------
(***************************************************************************)
(* The steps of the machine on integers.                                   *)
(***************************************************************************)

\* Sums and differences of integers.
LEMMA SumsOfIntegers ==
  ASSUME Represented, Add_integer \/ Sub_integer
  PROVE  Represented'
<1>0. ~ IsBits(register)
  BY DEF Add_integer, Sub_integer, IntegerRegister
<1> DEFINE i == register
           n == value.n
<1>1. i \in SailInteger /\ ToBigint(i) = n
  BY <1>0, IntegerFound
<1>2. CASE Add_integer
  <2>1. PICK j \in Integers1 : Becomes(AddInteger(i, j), Number(n + NumberOf(j)))
    BY <1>2 DEF Add_integer
  <2>2. j \in SailInteger /\ NumberOf(j) = ToBigint(j)
    BY IntegerOperand
  <2>3. IsExact(AddInteger(i, j), ToBigint(i) + ToBigint(j))
    BY <1>1, <2>2, AdditionExact
  <2>4. Means(AddInteger(i, j), Number(n + NumberOf(j)))
    BY <1>1, <2>2, <2>3, IntegerMeans
  <2> QED  BY <2>1, <2>4 DEF Becomes, Represented
<1>3. CASE Sub_integer
  <2>1. PICK j \in Integers1 : Becomes(SubInteger(i, j), Number(n - NumberOf(j)))
    BY <1>3 DEF Sub_integer
  <2>2. j \in SailInteger /\ NumberOf(j) = ToBigint(j)
    BY IntegerOperand
  <2>3. IsExact(SubInteger(i, j), ToBigint(i) - ToBigint(j))
    BY <1>1, <2>2, SubtractionExact
  <2>4. Means(SubInteger(i, j), Number(n - NumberOf(j)))
    BY <1>1, <2>2, <2>3, IntegerMeans
  <2> QED  BY <2>1, <2>4 DEF Becomes, Represented
<1> QED  BY <1>2, <1>3

\* the only products that may go wrong are not computed
LEMMA ProductOfIntegers ==
  ASSUME MinIntProducts = FALSE, Represented, Mul_integer
  PROVE  Represented'
<1>0. ~ IsBits(register)
  BY DEF Mul_integer, IntegerRegister
<1> DEFINE i == register
           n == value.n
<1>1. i \in SailInteger /\ ToBigint(i) = n
  BY <1>0, IntegerFound
<1>2. \E j \in Integers1 :
        /\ WithMinInt(i, j) => MinIntProducts
        /\ Becomes(MulInteger(i, j), Number(n * NumberOf(j)))
  BY DEF Mul_integer
<1>3. ASSUME NEW j \in Integers1, WithMinInt(i, j) => MinIntProducts,
             Becomes(MulInteger(i, j), Number(n * NumberOf(j)))
      PROVE  Represented'
  <2>1. j \in SailInteger /\ NumberOf(j) = ToBigint(j)
    BY IntegerOperand
  <2>2. ~ (i.kind = "big" /\ j = SmallInt(MinInt)) /\ ~ (j.kind = "big" /\ i = SmallInt(MinInt))
    BY <1>3 DEF WithMinInt
  <2>3. IsExact(MulInteger(i, j), ToBigint(i) * ToBigint(j))
    BY <1>1, <2>1, <2>2, MulIntegerIs
  <2>4. Means(MulInteger(i, j), Number(n * NumberOf(j)))
    BY <1>1, <2>1, <2>3, IntegerMeans
  <2> QED  BY <1>3, <2>4 DEF Becomes, Represented
<1> QED  BY <1>2, <1>3

\* Integers negated and shifted.
LEMMA NegationsAndShifts ==
  ASSUME Represented, Neg_integer \/ Abs_integer \/ Lshift_integer \/ Rshift_integer
  PROVE  Represented'
<1>0. ~ IsBits(register)
  BY DEF Neg_integer, Abs_integer, Lshift_integer, Rshift_integer, IntegerRegister
<1> DEFINE i == register
           n == value.n
<1>1. i \in SailInteger /\ ToBigint(i) = n
  BY <1>0, IntegerFound
<1>a. \A k \in 0 .. MaxShift : k \in Nat
  BY ValueAssumption
<1>2. CASE Neg_integer
  <2>1. Becomes(Neg(i), Number(-n))
    BY <1>2 DEF Neg_integer
  <2>2. IsExact(Neg(i), -n)
    BY <1>1, NegationExact
  <2>3. Means(Neg(i), Number(-n))
    BY <2>2, IntegerMeans
  <2> QED  BY <2>1, <2>3 DEF Becomes, Represented
<1>3. CASE Abs_integer
  <2>1. Becomes(AbsInteger(i), Number(Absolute(n)))
    BY <1>3 DEF Abs_integer
  <2>2. IsExact(AbsInteger(i), Magnitude(n))
    BY <1>1, NegationExact
  <2>3. Absolute(n) = Magnitude(n)
    BY DEF Absolute, Magnitude
  <2>4. Means(AbsInteger(i), Number(Magnitude(n)))
    BY <2>2, IntegerMeans
  <2> QED  BY <2>1, <2>3, <2>4 DEF Becomes, Represented
<1>4. CASE Lshift_integer
  <2>1. PICK k \in 0 .. MaxShift : Becomes(LshiftInteger(i, k), Number(n * Pow2[k]))
    BY <1>4 DEF Lshift_integer
  <2>2. k \in Nat
    BY <1>a
  <2>3. IsExact(LshiftInteger(i, k), ToBigint(i) * Pow2[k])
    BY <1>1, <2>2, LshiftIntegerIs
  <2>4. Means(LshiftInteger(i, k), Number(n * Pow2[k]))
    BY <1>1, <2>3, IntegerMeans
  <2> QED  BY <2>1, <2>4 DEF Becomes, Represented
<1>5. CASE Rshift_integer
  <2>1. PICK k \in 0 .. MaxShift : Becomes(RshiftInteger(i, k), Number(n \div Pow2[k]))
    BY <1>5 DEF Rshift_integer
  <2>2. k \in Nat
    BY <1>a
  <2>3. IsExact(RshiftInteger(i, k), Up(ToBigint(i), k))
    BY <1>1, <2>2, RshiftIntegerIs
  <2>4. Means(RshiftInteger(i, k), Number(Up(n, k)))
    BY <1>1, <2>3, IntegerMeans
  <2>5. Up(n, k) = n \div Pow2[k]
    BY DEF Up
  <2> QED  BY <2>1, <2>4, <2>5 DEF Becomes, Represented
<1> QED  BY <1>2, <1>3, <1>4, <1>5

\* Quotients and remainders of integers.
LEMMA Quotients ==
  ASSUME Represented, Tdiv_integer \/ Tmod_integer \/ Ediv_integer \/ Emod_integer
  PROVE  Represented'
<1>0. ~ IsBits(register)
  BY DEF Tdiv_integer, Tmod_integer, Ediv_integer, Emod_integer, IntegerRegister
<1> DEFINE i == register
           n == value.n
<1>1. i \in SailInteger /\ ToBigint(i) = n
  BY <1>0, IntegerFound
<1>a. \A j \in Divisors : j \in SailInteger /\ NumberOf(j) = ToBigint(j) /\ ToBigint(j) # 0
  BY IntegerOperand DEF Divisors
<1>2. CASE Tdiv_integer
  <2>1. PICK j \in Divisors : Becomes(Tdiv(i, j), Number(Truncated(n, NumberOf(j))))
    BY <1>2 DEF Tdiv_integer
  <2>2. j \in SailInteger /\ NumberOf(j) = ToBigint(j) /\ ToBigint(j) # 0
    BY <1>a
  <2>3. IsExact(Tdiv(i, j), Truncated(ToBigint(i), ToBigint(j)))
    BY <1>1, <2>2, TdivIs
  <2>4. Means(Tdiv(i, j), Number(Truncated(n, NumberOf(j))))
    BY <1>1, <2>2, <2>3, IntegerMeans
  <2> QED  BY <2>1, <2>4 DEF Becomes, Represented
<1>3. CASE Tmod_integer
  <2>1. PICK j \in Divisors :
          Becomes(Tmod(i, j), Number(n - NumberOf(j) * Truncated(n, NumberOf(j))))
    BY <1>3 DEF Tmod_integer
  <2>2. j \in SailInteger /\ NumberOf(j) = ToBigint(j) /\ ToBigint(j) # 0
    BY <1>a
  <2>3. IsExact(Tmod(i, j), ToBigint(i) - ToBigint(j) * Truncated(ToBigint(i), ToBigint(j)))
    BY <1>1, <2>2, TmodIs
  <2>4. Means(Tmod(i, j), Number(n - NumberOf(j) * Truncated(n, NumberOf(j))))
    BY <1>1, <2>2, <2>3, IntegerMeans
  <2> QED  BY <2>1, <2>4 DEF Becomes, Represented
<1>4. CASE Ediv_integer
  <2>1. PICK j \in Divisors : Becomes(Ediv(i, j), Number(Euclidean(n, NumberOf(j))))
    BY <1>4 DEF Ediv_integer
  <2>2. j \in SailInteger /\ NumberOf(j) = ToBigint(j) /\ ToBigint(j) # 0
    BY <1>a
  <2>3. IsExact(Ediv(i, j), Euclidean(ToBigint(i), ToBigint(j)))
    BY <1>1, <2>2, EdivIs
  <2>4. Means(Ediv(i, j), Number(Euclidean(n, NumberOf(j))))
    BY <1>1, <2>2, <2>3, IntegerMeans
  <2> QED  BY <2>1, <2>4 DEF Becomes, Represented
<1>5. CASE Emod_integer
  <2>1. PICK j \in Divisors :
          Becomes(Emod(i, j), Number(n - NumberOf(j) * Euclidean(n, NumberOf(j))))
    BY <1>5 DEF Emod_integer
  <2>2. j \in SailInteger /\ NumberOf(j) = ToBigint(j) /\ ToBigint(j) # 0
    BY <1>a
  <2>3. IsExact(Emod(i, j), ToBigint(i) - ToBigint(j) * Euclidean(ToBigint(i), ToBigint(j)))
    BY <1>1, <2>2, EmodIs
  <2>4. Means(Emod(i, j), Number(n - NumberOf(j) * Euclidean(n, NumberOf(j))))
    BY <1>1, <2>2, <2>3, IntegerMeans
  <2> QED  BY <2>1, <2>4 DEF Becomes, Represented
<1> QED  BY <1>2, <1>3, <1>4, <1>5

\* Integers cut to vectors, and with some bits replaced.
LEMMA SlicesOfIntegers ==
  ASSUME Represented, Slice_integer \/ Set_slice \/ Cut_integer
  PROVE  Represented'
<1>0. ~ IsBits(register)
  BY DEF Slice_integer, Set_slice, Cut_integer, IntegerRegister
<1> DEFINE i == register
           n == value.n
<1>1. i \in SailInteger /\ ToBigint(i) = n /\ n \in Int
  BY <1>0, IntegerFound
<1>a. /\ \A k \in 0 .. MaxShift : k \in Nat
      /\ \A k \in Sizes : k \in Nat \ {0}
  BY ValueAssumption DEF Sizes
<1>2. CASE Slice_integer
  <2>1. PICK length \in Sizes, start \in 0 .. MaxShift :
          Becomes(Slice(i, length, start), Bits(length, n \div Pow2[start]))
    BY <1>2 DEF Slice_integer
  <2>2. length \in Nat \ {0} /\ start \in Nat
    BY <1>a
  <2>3. IsVector(Slice(i, length, start), length, Low(Up(ToBigint(i), start), length))
    BY <1>1, <2>2, SliceIs
  <2>4. Means(Slice(i, length, start), Bits(length, Up(n, start)))
    BY <1>1, <2>3, VectorMeans
  <2>5. Up(n, start) = n \div Pow2[start]
    BY DEF Up
  <2> QED  BY <2>1, <2>4, <2>5 DEF Becomes, Represented
<1>3. CASE Set_slice
  <2>1. PICK length \in Sizes, start \in 0 .. MaxShift : \E v \in BitVectorsOf(length) :
          Becomes(SetSlice(i, start, v), Number(Replaced(n, start, Denote(v))))
    BY <1>3 DEF Set_slice
  <2>2. PICK v \in BitVectorsOf(length) :
          Becomes(SetSlice(i, start, v), Number(Replaced(n, start, Denote(v))))
    BY <2>1
  <2>3. length \in Nat \ {0} /\ start \in Nat
    BY <1>a
  <2>4. IsVector(v, length, NumberOf(v)) /\ Denote(v).n = NumberOf(v) /\ Denote(v).size = length
    BY <2>3, VectorOperand
  <2>5. IsExact(SetSlice(i, start, v), Patched(ToBigint(i), start, length, NumberOf(v)))
    BY <1>1, <2>3, <2>4, SetSliceIs
  <2>6. Means(SetSlice(i, start, v), Number(Patched(n, start, length, NumberOf(v))))
    BY <1>1, <2>5, IntegerMeans
  <2>7. Replaced(n, start, Denote(v)) = Patched(n, start, length, NumberOf(v))
    BY <2>4, ReplacedIs
  <2> QED  BY <2>2, <2>6, <2>7 DEF Becomes, Represented
<1>4. CASE Cut_integer
  <2> DEFINE zero == 0
  <2>1. PICK length \in Sizes : Becomes(Slice(i, length, zero), Bits(length, n))
    BY <1>4 DEF Cut_integer
  <2>2. length \in Nat \ {0} /\ zero \in Nat
    BY <1>a
  <2>3. Up(ToBigint(i), zero) = n
    <3>1. Pow2[0] = 1
      BY Pow2Unfold
    <3>2. n \div 1 = n
      BY <1>1
    <3> QED  BY <1>1, <3>1, <3>2 DEF Up
  <2>4. IsVector(Slice(i, length, zero), length, Low(Up(ToBigint(i), zero), length))
    <3> HIDE DEF zero
    <3> QED  BY <1>1, <2>2, SliceIs
  <2>5. Means(Slice(i, length, zero), Bits(length, n))
    BY <2>3, <2>4, VectorMeans
  <2> QED  BY <2>1, <2>5 DEF Becomes, Represented
<1> QED  BY <1>2, <1>3, <1>4

-----------------------------------------------------------------------------
(***************************************************************************)
(* The invariant, and the properties that follow.                          *)
(***************************************************************************)

\* No step of the machine leaves the values it can represent.
LEMMA StepRepresented ==
  ASSUME MinIntProducts = FALSE, Represented, [Next]_vars
  PROVE  Represented'
<1>1. CASE Add_bits \/ Sub_bits
  BY <1>1, SumsOfVectors
<1>2. CASE Xor_bits \/ Or_bits \/ And_bits
  BY <1>2, BitByBit
<1>3. CASE Invert_bits \/ Add_int \/ Sub_int
  BY <1>3, WithIntegers
<1>4. CASE Lshift_bits \/ Rshift_bits \/ Arith_rshift
  BY <1>4, Shifts
<1>5. CASE Subrange_bits \/ Truncate_bits \/ Zero_extend \/ Sign_extend
  BY <1>5, PartsAndExtensions
<1>6. CASE Update_bit \/ Update_subrange
  BY <1>6, Updates
<1>7. CASE Append_bits \/ Replicate_bits
  BY <1>7, Joins
<1>8. CASE Signed_bits \/ Unsigned_bits
  BY <1>8, Readings
<1>9. CASE Add_integer \/ Sub_integer
  BY <1>9, SumsOfIntegers
<1>10. CASE Mul_integer
  BY <1>10, ProductOfIntegers
<1>11. CASE Neg_integer \/ Abs_integer \/ Lshift_integer \/ Rshift_integer
  BY <1>11, NegationsAndShifts
<1>12. CASE Tdiv_integer \/ Tmod_integer \/ Ediv_integer \/ Emod_integer
  BY <1>12, Quotients
<1>13. CASE Slice_integer \/ Set_slice \/ Cut_integer
  BY <1>13, SlicesOfIntegers
<1>14. CASE UNCHANGED vars
  BY <1>14 DEF vars, Represented
<1> QED
  BY <1>1, <1>2, <1>3, <1>4, <1>5, <1>6, <1>7, <1>8, <1>9, <1>10, <1>11, <1>12,
     <1>13, <1>14 DEF Next, BitsNext, IntegersNext

\* The inductive invariant of ValueMachine: after every chain of
\* operations of bitvector.py the register is a proper representation, and
\* what it stands for is the value computed with exact arithmetic.  A proper
\* representation alone would not be inductive, since the results depend on
\* the numbers, nor would the exact number alone: the loops over the words of
\* a vector rely on the bits above its size being zero.  A product of a big
\* integer with MININT is left out, for it is wrong (MinIntProducts).
THEOREM ValuesRepresented ==
  ASSUME MinIntProducts = FALSE
  PROVE  Spec => []Represented
<1>1. Represented /\ [Next]_vars => Represented'
  BY StepRepresented
<1> QED  BY <1>1, InitRepresented, PTL DEF Spec

\* What the constructors assert holds of proper representations.
LEMMA RepresentedTyped ==
  ASSUME Represented
  PROVE  TypeOK
<1> DEFINE v == register
<1>1. CASE IsBits(v)
  <2> DEFINE size == value.size
             n == value.n
  <2>1. IsVector(v, size, n)
    BY <1>1, VectorValue DEF Represented
  <2>2. /\ size \in Nat \ {0} /\ size \in Nat /\ n \in Nat /\ n < Pow2[size] /\ v.size = size
        /\ v.kind \in {"small", "sparse", "generic"}
        /\ v.kind = "small" <=> size <= WordBits
        /\ v.kind \in {"small", "sparse"} => Val(v) = n /\ n \in Word
        /\ v.kind = "generic" => v.data = WordsOf(n, DataSize(size))
    BY <2>1, VectorIs
  <2>3. WordBits \in Nat /\ Pow2[size] \in Nat
    BY <2>2, WordIs, Pow2Unfold
  <2>4. CASE v.kind = "small"
    <3>1. v.size \in 1 .. WordBits
      BY <2>2, <2>3, <2>4
    <3>2. Val(v) \in 0 .. Ones(v.size)
      BY <2>2, <2>3, <2>4 DEF Ones
    <3> QED  BY <2>4, <3>1, <3>2 DEF TypeOK
  <2>5. CASE v.kind = "sparse"
    <3>1. v.size > WordBits
      BY <2>2, <2>3, <2>5
    <3>2. Val(v) \in Word
      BY <2>2, <2>5
    <3> QED  BY <2>5, <3>1, <3>2 DEF TypeOK
  <2>6. CASE v.kind = "generic"
    <3>1. v.size > WordBits
      BY <2>2, <2>3, <2>6
    <3>2. DataSize(size) \in Nat
      BY <2>2, DataSizeIs
    <3>3. v.data \in [1 .. DataSize(v.size) -> Word]
      BY <2>2, <2>6, <3>2, WordsOfIs
    <3>4. ValueOf(v.data) < Pow2[v.size]
      BY <2>2, <2>6, NumberOfWords
    <3> QED  BY <2>6, <3>1, <3>3, <3>4 DEF TypeOK
  <2> QED  BY <2>2, <2>4, <2>5, <2>6
<1>2. CASE ~ IsBits(v)
  <2>1. v \in SailInteger
    BY <1>2, IntegerValue DEF Represented
  <2>2. CASE v.kind = "int"
    <3>1. v.val \in MinInt .. MaxInt
      BY <2>1, <2>2, IntegerIs
    <3> QED  BY <2>2, <3>1 DEF TypeOK
  <2>3. CASE v.kind = "big"
    <3>1. v.data \in Data /\ v.sign \in {-1, 1}
      BY <2>1, <2>3, IntegerIs
    <3>2. v.data \in Seq(Word) /\ v.data # <<>> /\ v.data[Len(v.data)] # 0
      BY <3>1 DEF Data, Arrays
    <3>3. \A k \in DOMAIN v.data : v.data[k] \in Word
      BY <3>2
    <3> QED  BY <2>3, <3>1, <3>2, <3>3 DEF TypeOK
  <2>4. v.kind \in {"int", "big"}
    BY <2>1, IntegerIs
  <2> QED  BY <2>2, <2>3, <2>4
<1> QED  BY <1>1, <1>2

\* A proper representation stands for its value.
LEMMA RepresentedExact ==
  ASSUME Represented
  PROVE  Exact
<1>1. CASE IsBits(register)
  BY <1>1, VectorValue DEF Represented, Exact
<1>2. CASE ~ IsBits(register)
  BY <1>2, IntegerValue DEF Represented, Exact
<1> QED  BY <1>1, <1>2

\* eq compares the values.
LEMMA RepresentedEqual ==
  ASSUME Represented
  PROVE  EqualityExact
<1> DEFINE v == register
<1>1. CASE IsBits(v)
  <2> DEFINE size == value.size
             n == value.n
  <2>1. /\ IsVector(v, size, n) /\ v.size = size /\ size \in Nat \ {0} /\ n \in Nat
        /\ Denote(v) = value /\ value = Bits(size, n)
    BY <1>1, VectorValue DEF Represented
  <2> SUFFICES ASSUME NEW w \in BitVectorsOf(v.size)
               PROVE  EqBits(v, w) <=> Denote(v) = Denote(w)
    BY <1>1 DEF EqualityExact
  <2> DEFINE m == NumberOf(w)
  <2>2. IsVector(w, size, m) /\ Denote(w) = Bits(size, m) /\ Denote(w).n = m
    BY <2>1, VectorOperand
  <2>3. EqBits(v, w) <=> n = m
    BY <2>1, <2>2, EqBitsIs
  <2>4. Denote(v) = Denote(w) <=> n = m
    BY <2>1, <2>2
  <2> QED  BY <2>3, <2>4
<1>2. CASE ~ IsBits(v)
  <2>1. v \in SailInteger /\ ToBigint(v) = value.n /\ Denote(v) = value
    BY <1>2, IntegerValue DEF Represented
  <2> SUFFICES ASSUME NEW i \in Integers1
               PROVE  EqInteger(v, i) <=> NumberOf(v) = NumberOf(i)
    BY <1>2 DEF EqualityExact
  <2>2. i \in SailInteger /\ NumberOf(i) = ToBigint(i)
    BY IntegerOperand
  <2>3. NumberOf(v) = ToBigint(v)
    BY <2>1 DEF NumberOf
  <2>4. EqInteger(v, i) <=> ToBigint(v) = ToBigint(i)
    BY <2>1, <2>2, EqualityOfIntegersExact
  <2> QED  BY <2>2, <2>3, <2>4
<1> QED  BY <1>1, <1>2

\* lt, le, gt and ge compare the values.
LEMMA RepresentedOrdered ==
  ASSUME Represented
  PROVE  OrderExact
<1> DEFINE v == register
<1> SUFFICES ASSUME ~ IsBits(v), NEW i \in Integers1
             PROVE  /\ LtInteger(v, i) <=> NumberOf(v) < NumberOf(i)
                    /\ LeInteger(v, i) <=> NumberOf(v) <= NumberOf(i)
                    /\ GtInteger(v, i) <=> NumberOf(v) > NumberOf(i)
                    /\ GeInteger(v, i) <=> NumberOf(v) >= NumberOf(i)
  BY DEF OrderExact
<1>1. v \in SailInteger /\ ToBigint(v) = value.n /\ Denote(v) = value
  BY IntegerValue DEF Represented
<1>2. i \in SailInteger /\ NumberOf(i) = ToBigint(i)
  BY IntegerOperand
<1>3. NumberOf(v) = ToBigint(v)
  BY <1>1 DEF NumberOf
<1> QED  BY <1>1, <1>2, <1>3, OrderingExact

\* touint, toint and read_bit give the value or raise.
LEMMA RepresentedConverted ==
  ASSUME Represented
  PROVE  ConversionsExact
<1> DEFINE v == register
<1>1. CASE IsBits(v)
  <2> DEFINE size == value.size
             n == value.n
  <2>1. IsVector(v, size, n) /\ v.size = size /\ Denote(v) = value /\ n \in Nat
    BY <1>1, VectorValue DEF Represented
  <2>2. NumberOf(v) = n
    BY <2>1 DEF NumberOf
  <2>3. FitsUint(v) <=> n < Base
    <3>1. n \in Word <=> n < Base
      BY <2>1, WordIs
    <3>2. FitsUint(v) <=> n \in Word
      BY <2>1, FitsWord
    <3> QED  BY <3>1, <3>2
  <2>4. /\ FitsUint(v) => Val(v) = n
        /\ FitsInt(v) <=> n <= MaxInt
        /\ FitsInt(v) => BitsToInt(v) = n
    BY <2>1, FitsWord, FitsIntIs, ToIntOfBits
  <2>5. \A pos \in 0 .. v.size - 1 : ReadBit(v, pos) <=> BitOf(n, pos) = 1
    <3> SUFFICES ASSUME NEW pos \in 0 .. v.size - 1
                 PROVE  ReadBit(v, pos) <=> BitOf(n, pos) = 1
      OBVIOUS
    <3>1. pos \in 0 .. size - 1
      BY <2>1
    <3>2. ReadBit(v, pos) = (BitOf(n, pos) = 1)
      BY <2>1, <3>1, ReadBitIs
    <3> QED  BY <3>2
  <2> QED  BY <1>1, <2>2, <2>3, <2>4, <2>5 DEF ConversionsExact
<1>2. CASE ~ IsBits(v)
  <2>1. v \in SailInteger /\ ToBigint(v) = value.n /\ Denote(v) = value
    BY <1>2, IntegerValue DEF Represented
  <2>2. NumberOf(v) = ToBigint(v)
    BY <2>1 DEF NumberOf
  <2>3. /\ IntegerFitsInt(v) <=> FitsMachine(ToBigint(v))
        /\ IntegerFitsInt(v) => ToInt(v) = ToBigint(v)
    BY <2>1, ToIntExact
  <2>4. /\ IntegerFitsUint(v) <=>
             ToBigint(v) \in Word \/ (v.kind = "int" /\ ToBigint(v) < 0)
        /\ IntegerFitsUint(v) => ToUint(v) = ToBigint(v) % Base
    BY <2>1, ToUintExact
  <2> QED  BY <1>2, <2>2, <2>3, <2>4 DEF ConversionsExact
<1> QED  BY <1>1, <1>2

\* What the constructors assert of small, sparse and generic vectors and of
\* big integers (bitvector.py lines 147, 381 and 645) holds in every state:
\* no operation leaves bits above a vector's size or a leading zero digit.
THEOREM ValuesTyped ==
  ASSUME MinIntProducts = FALSE
  PROVE  Spec => []TypeOK
BY ValuesRepresented, RepresentedTyped, PTL

\* Every chain of operations computes exactly what Sail means by it: carries
\* run through all words, and results that do not fit a representation get a
\* wider one.
THEOREM ValuesExact ==
  ASSUME MinIntProducts = FALSE
  PROVE  Spec => []Exact
BY ValuesRepresented, RepresentedExact, PTL

\* eq of any two representations of the current size, or of any two integers,
\* holds exactly if they stand for the same value.
THEOREM EqualityCorrect ==
  ASSUME MinIntProducts = FALSE
  PROVE  Spec => []EqualityExact
BY ValuesRepresented, RepresentedEqual, PTL

\* lt, le, gt and ge of integers order them as the numbers they stand for.
THEOREM OrderCorrect ==
  ASSUME MinIntProducts = FALSE
  PROVE  Spec => []OrderExact
BY ValuesRepresented, RepresentedOrdered, PTL

\* touint and toint of vectors and toint of integers give the number, or raise,
\* which they do exactly if it does not fit; touint of integers does so too,
\* but takes negative machine integers modulo Base; read_bit reads the bit of
\* the number.
THEOREM ConversionsCorrect ==
  ASSUME MinIntProducts = FALSE
  PROVE  Spec => []ConversionsExact
BY ValuesRepresented, RepresentedConverted, PTL
==============================================================================
