------------------------------- MODULE Ranges -------------------------------
(***************************************************************************)
(* class Range of pydrofoil/absinterp.py: an interval of integers either   *)
(* end of which may be open (None), with the transfer functions of the     *)
(* range analysis.                                                         *)
(***************************************************************************)
EXTENDS Binary

CONSTANTS
  None,    \* the open end of a range
  MaxInt   \* sys.maxint; the code has 2^63 - 1

ASSUME NoneAssumption == None \notin Int
ASSUME MaxIntAssumption == MaxInt \in Nat

MinInt == -MaxInt - 1

Bound == Int \union {None}
RangeType == [low : Bound, high : Bound]

R(low, high) == [low |-> low, high |-> high]
Const(n) == R(n, n)

Unbounded == R(None, None)
MachineInt == R(MinInt, MaxInt)
Bool == R(0, 1)
True == R(1, 1)
False == R(0, 0)

IsBounded(r) == r.low # None /\ r.high # None
IsConstant(r) == r.low # None /\ r.low = r.high

\* the assertion of the constructor
Valid(r) == IsBounded(r) => r.low <= r.high

Includes(r, n) ==
  /\ r.low # None => r.low <= n
  /\ r.high # None => n <= r.high

FitsMachineInt(r) == IsBounded(r) /\ r.low >= MinInt /\ r.high <= MaxInt

Smaller(m, n) == IF m <= n THEN m ELSE n
Larger(m, n) == IF m <= n THEN n ELSE m

\* the range from the least to the greatest of four numbers
Hull(a, b, c, d) ==
  R(Smaller(Smaller(a, b), Smaller(c, d)), Larger(Larger(a, b), Larger(c, d)))

-----------------------------------------------------------------------------
(***************************************************************************)
(* Arithmetic.                                                             *)
(***************************************************************************)

Add(r, s) ==
  R(IF r.low # None /\ s.low # None THEN r.low + s.low ELSE None,
    IF r.high # None /\ s.high # None THEN r.high + s.high ELSE None)

Neg(r) ==
  R(IF r.high # None THEN -r.high ELSE None,
    IF r.low # None THEN -r.low ELSE None)

Sub(r, s) == Add(r, Neg(s))

Mul(r, s) ==
  IF IsBounded(r) /\ IsBounded(s)
  THEN Hull(r.low * s.low, r.high * s.low, r.low * s.high, r.high * s.high)
  ELSE IF r.low # None /\ s.low # None /\ r.low >= 0 /\ s.low >= 0
  THEN R(r.low * s.low, None)
  ELSE IF r.high # None /\ s.high # None /\ r.high < 0 /\ s.high < 0
  THEN R(r.high * s.high, None)
  ELSE Unbounded

\* int_c_div for a positive divisor: the quotient rounded towards zero
TruncDiv(m, n) == IF m >= 0 THEN m \div n ELSE -((-m) \div n)

\* the divisions that the ranges are about, for any divisor but zero
TruncDivide(m, n) == IF n > 0 THEN TruncDiv(m, n) ELSE -TruncDiv(m, -n)
EuclidDivide(m, n) == IF n > 0 THEN m \div n ELSE -(m \div (-n))

Tdiv(r, s) ==
  IF s.low = None \/ s.low < 1 THEN Unbounded
  ELSE IF s.high # None /\ IsBounded(r)
  THEN Hull(TruncDiv(r.low, s.low), TruncDiv(r.high, s.low),
            TruncDiv(r.low, s.high), TruncDiv(r.high, s.high))
  ELSE IF r.low # None /\ r.low >= 0 THEN R(0, r.high)
  ELSE IF r.high # None /\ r.high <= 0 THEN R(r.low, 0)
  ELSE Unbounded

Ediv(r, s) ==
  IF s.low # None /\ s.low >= 1 /\ r.low # None /\ r.low >= 0
  THEN R(0, r.high)
  ELSE Unbounded

ShiftLeft(m, n) == m * Pow2[n]
ShiftRight(m, n) == m \div Pow2[n]   \* rounds down, like >> on integers
MaxShift == 64

Lshift(r, s) ==
  IF IsBounded(r) /\ IsBounded(s) /\ 0 <= s.low /\ s.high <= MaxShift
  THEN Hull(ShiftLeft(r.low, s.low), ShiftLeft(r.high, s.low),
            ShiftLeft(r.low, s.high), ShiftLeft(r.high, s.high))
  ELSE IF r.low # None /\ r.low >= 0 /\ s.low # None
  THEN R(IF s.low \in 0 .. MaxShift THEN ShiftLeft(r.low, s.low) ELSE r.low,
         None)
  ELSE Unbounded

Rshift(r, s) ==
  IF IsBounded(r) /\ IsBounded(s) /\ 0 <= s.low /\ s.high <= MaxInt
  THEN Hull(ShiftRight(r.low, s.low), ShiftRight(r.high, s.low),
            ShiftRight(r.low, s.high), ShiftRight(r.high, s.high))
  ELSE Unbounded

Union(r, s) ==
  R(IF r.low # None /\ s.low # None THEN Smaller(r.low, s.low) ELSE None,
    IF r.high # None /\ s.high # None THEN Larger(r.high, s.high) ELSE None)

\* the union of a set of ranges, taken one after the other
UnionAll(S) ==
  R(IF \E r \in S : r.low = None THEN None
    ELSE CHOOSE n \in {r.low : r \in S} : \A r \in S : n <= r.low,
    IF \E r \in S : r.high = None THEN None
    ELSE CHOOSE n \in {r.high : r \in S} : \A r \in S : r.high <= n)

-----------------------------------------------------------------------------
(***************************************************************************)
(* Comparisons: what is known of the result.                               *)
(***************************************************************************)

\* a Boolean is a number, too
Truth(p) == IF p THEN 1 ELSE 0

\* every number of r is below every number of s
Below(r, s) == r.high # None /\ s.low # None /\ r.high < s.low
AtMost(r, s) == r.high # None /\ s.low # None /\ r.high <= s.low

Le(r, s) == IF AtMost(r, s) THEN True ELSE IF Below(s, r) THEN False ELSE Bool
Lt(r, s) == IF Below(r, s) THEN True ELSE IF AtMost(s, r) THEN False ELSE Bool
Ge(r, s) == Le(s, r)
Gt(r, s) == Lt(s, r)

(***************************************************************************)
(* Narrowing: the numbers of r for which a comparison with s can be true.  *)
(***************************************************************************)

MakeLeConst(r, n) == IF r.high = None \/ n < r.high THEN R(r.low, n) ELSE r
MakeGeConst(r, n) == IF r.low = None \/ n > r.low THEN R(n, r.high) ELSE r

MakeLe(r, s) == IF s.high = None THEN r ELSE MakeLeConst(r, s.high)
MakeLt(r, s) == IF s.high = None THEN r ELSE MakeLeConst(r, s.high - 1)
MakeGe(r, s) == IF s.low = None THEN r ELSE MakeGeConst(r, s.low)
MakeGt(r, s) == IF s.low = None THEN r ELSE MakeGeConst(r, s.low + 1)

\* what int_to_int64 leaves of a range, when it does not raise
ToMachineInt(r) ==
  R(IF r.low = None \/ r.low < MinInt THEN MinInt ELSE r.low,
    IF r.high = None \/ r.high > MaxInt THEN MaxInt ELSE r.high)
=============================================================================
