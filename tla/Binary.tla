------------------------------- MODULE Binary -------------------------------
(***************************************************************************)
(* Numbers in binary: powers of two, bits, and what is done with two       *)
(* numbers bit by bit.  The recursions are functions, so that theorems can *)
(* be proved about them.                                                   *)
(***************************************************************************)
EXTENDS Integers

Pow2[n \in Nat] == IF n = 0 THEN 1 ELSE 2 * Pow2[n - 1]

\* bit pos of n, in two's complement
BitOf(n, pos) == (n \div Pow2[pos]) % 2

\* functions of two bits
Bit2 == {0, 1} \X {0, 1}
XorBit == [p \in Bit2 |-> (p[1] + p[2]) % 2]
OrBit == [p \in Bit2 |-> p[1] + p[2] - p[1] * p[2]]
AndBit == [p \in Bit2 |-> p[1] * p[2]]

\* the lowest bits of two numbers, combined one by one
Combined(op, width, x, y) ==
  LET sum[i \in 0 .. width] ==
        IF i = 0 THEN 0
        ELSE sum[i - 1] + Pow2[i - 1] * op[<<BitOf(x, i - 1), BitOf(y, i - 1)>>]
  IN  sum[width]
=============================================================================
