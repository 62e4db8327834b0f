------------------------------- MODULE Digits -------------------------------
(***************************************************************************)
(* Arithmetic on arrays of machine words, least significant word first:    *)
(* the helpers at the end of pydrofoil/bitvector.py, with which            *)
(* GenericBitVector and BigInteger compute.  A word is an r_uint; its sums, *)
(* differences and products wrap around, and a carry is found afterwards by *)
(* comparing the wrapped result with an operand.                           *)
(***************************************************************************)
EXTENDS Binary, Sequences

CONSTANT Base  \* the number of machine words: 2^64

ASSUME BaseAssumption == Base \in Nat /\ Base > 1

Word == 0 .. Base - 1

\* what r_uint arithmetic leaves of a result
Wrap(n) == n % Base

Bit(b) == IF b THEN 1 ELSE 0

(***************************************************************************)
(* One iteration of each loop: the digit it stores and the carry it keeps. *)
(***************************************************************************)

AddDigit(a, b, carry) ==
  LET first == Wrap(a + carry)
      second == Wrap(first + b)
  IN  [digit |-> second, carry |-> Bit(first < carry) + Bit(second < b)]

CarryDigit(a, carry) ==
  LET sum == Wrap(a + carry)
  IN  [digit |-> sum, carry |-> Bit(sum < carry)]

SubDigit(a, b, carry) ==
  LET value == Wrap(b + carry)
  IN  [digit |-> Wrap(a - value),
       carry |-> Bit(value < carry) + Bit(a < value)]

BorrowDigit(a, carry) ==
  [digit |-> Wrap(a - carry), carry |-> Bit(a < carry)]

\* uint_mul_high gives the upper word of a product
MulDigit(a, b, carry) ==
  LET low == Wrap(Wrap(a * b) + carry)
  IN  [digit |-> low, carry |-> Bit(low < carry) + ((a * b) \div Base)]

(***************************************************************************)
(* The loops.                                                              *)
(***************************************************************************)

\* the carries of Step(i, carry), before the first index of d and after each
Carries(Step(_, _), d) ==
  LET carry[i \in 0 .. Len(d)] ==
        IF i = 0 THEN 0 ELSE Step(i, carry[i - 1]).carry
  IN  carry

\* the digits and the last carry
Ripple(Step(_, _), d) ==
  LET carry == Carries(Step, d)
  IN  [digits |-> [i \in 1 .. Len(d) |-> Step(i, carry[i - 1]).digit],
       carry |-> carry[Len(d)]]

\* the sum of a longer and a shorter array
AddAt(a, b, i, carry) ==
  IF i <= Len(b) THEN AddDigit(a[i], b[i], carry) ELSE CarryDigit(a[i], carry)
AddLoop(a, b) == Ripple(LAMBDA i, carry : AddAt(a, b, i, carry), a)

\* a larger number minus a smaller one
SubAt(a, b, i, carry) ==
  IF i <= Len(b) THEN SubDigit(a[i], b[i], carry) ELSE BorrowDigit(a[i], carry)
SubLoop(a, b) == Ripple(LAMBDA i, carry : SubAt(a, b, i, carry), a)

DataAdd(a, b) ==
  LET sum == IF Len(a) < Len(b) THEN AddLoop(b, a) ELSE AddLoop(a, b)
  IN  Append(sum.digits, sum.carry)

DataAdd1(a, digit) ==
  LET sum == AddLoop(a, <<digit>>)
  IN  IF Len(a) = 1 /\ sum.carry = 0 THEN sum.digits
                                     ELSE Append(sum.digits, sum.carry)

MulLoop(a, digit) == Ripple(LAMBDA i, carry : MulDigit(a[i], digit, carry), a)

DataMul1(a, digit) ==
  LET product == MulLoop(a, digit)
  IN  Append(product.digits, product.carry)

\* the highest index at which two arrays of one length differ, or 0
HighestDifference(a, b) ==
  LET differ == {i \in DOMAIN a : a[i] # b[i]}
  IN  IF differ = {} THEN 0 ELSE CHOOSE i \in differ : \A j \in differ : j <= i

\* the digits of the absolute value of a difference, and its sign
DataSub(a, b) ==
  LET top == HighestDifference(a, b)
  IN  IF Len(a) # Len(b)
      THEN IF Len(a) < Len(b) THEN [digits |-> SubLoop(b, a).digits, sign |-> -1]
                              ELSE [digits |-> SubLoop(a, b).digits, sign |-> 1]
      ELSE IF top = 0
      THEN [digits |-> <<>>, sign |-> 0]
      ELSE LET a1 == SubSeq(a, 1, top)
               b1 == SubSeq(b, 1, top)
           IN  IF a[top] < b[top]
               THEN [digits |-> SubLoop(b1, a1).digits, sign |-> -1]
               ELSE [digits |-> SubLoop(a1, b1).digits, sign |-> 1]

DataSub1(a, digit) ==
  IF Len(a) # 1 THEN [digits |-> SubLoop(a, <<digit>>).digits, sign |-> 1]
  ELSE IF a[1] = digit THEN [digits |-> <<>>, sign |-> 0]
  ELSE IF a[1] < digit THEN [digits |-> <<digit - a[1]>>, sign |-> -1]
                       ELSE [digits |-> <<a[1] - digit>>, sign |-> 1]

(***************************************************************************)
(* Numbers with a sign: is the first less than the second?                 *)
(***************************************************************************)

\* mutant of DataLt: the lengths are compared before the signs
DataLtLengths(a, sign, b, otherSign) ==
  LET top == HighestDifference(a, b)
  IN  IF Len(a) > Len(b) THEN otherSign <= 0
      ELSE IF Len(a) < Len(b) THEN otherSign > 0
      ELSE IF sign # otherSign THEN sign < otherSign
      ELSE top # 0 /\ IF a[top] > b[top] THEN otherSign <= 0 ELSE otherSign > 0

DataLt(a, sign, b, otherSign) ==
  LET top == HighestDifference(a, b)
  IN  IF sign # otherSign THEN sign < otherSign
      ELSE IF Len(a) > Len(b) THEN otherSign <= 0
      ELSE IF Len(a) < Len(b) THEN otherSign > 0
      ELSE top # 0 /\ IF a[top] > b[top] THEN otherSign <= 0 ELSE otherSign > 0

DataLt1(a, sign, digit, otherSign) ==
  IF sign # otherSign THEN sign < otherSign
  ELSE IF Len(a) > 1 THEN otherSign <= 0
  ELSE a[1] # digit /\ IF a[1] > digit THEN otherSign <= 0 ELSE otherSign > 0

\* the numbers that the digits above the first i stand for
Above(d) ==
  LET number[i \in 0 .. Len(d)] ==
        IF i = Len(d) THEN 0 ELSE d[i + 1] + Base * number[i + 1]
  IN  number

\* the number that an array of digits stands for
ValueOf(d) == Above(d)[0]
=============================================================================
