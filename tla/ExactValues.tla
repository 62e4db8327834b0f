---------------------------- MODULE ExactValues ----------------------------
(***************************************************************************)
(* What Sail's bit vectors and integers mean, without words: a bit vector  *)
(* is a size and a number below 2^size, an integer is an integer.  This is *)
(* what pydrofoil/test/test_supportcode.py computes with Python's longs to *)
(* compare with.                                                           *)
(***************************************************************************)
EXTENDS Binary

Bits(size, n) == [kind |-> "bits", size |-> size, n |-> n % Pow2[size]]
Number(n) == [kind |-> "number", n |-> n]

\* two's complement
SignedOf(b) == IF b.n >= Pow2[b.size - 1] THEN b.n - Pow2[b.size] ELSE b.n

\* bit by bit, op is a function of two bits
Bitwise2(op, b, c) == Bits(b.size, Combined(op, b.size, b.n, c.n))

Part(n, high, low) == Bits(high - low + 1, n \div Pow2[low])

\* n with the bits from low on replaced by those of b
Replaced(n, low, b) ==
  n + (b.n - ((n \div Pow2[low]) % Pow2[b.size])) * Pow2[low]

Absolute(n) == IF n < 0 THEN -n ELSE n

\* rounds towards zero
Truncated(a, b) ==
  IF (a < 0) = (b < 0) THEN Absolute(a) \div Absolute(b)
                       ELSE -(Absolute(a) \div Absolute(b))

\* leaves a remainder that is not negative
Euclidean(a, b) == IF b > 0 THEN a \div b ELSE -(a \div (-b))
=============================================================================
